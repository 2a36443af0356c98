--------------------------------- MODULE Retry ---------------------------------
(***************************************************************************)
(* What a caller of the flight service makes of an answer: the retry       *)
(* engine's classify (packages/queue-py errors.py), which the worker's     *)
(* failures go through, and the AI tools' own rule (tools/flight.py).      *)
(* An answer is named by its error code; "OK" is a 200 of the promised     *)
(* shape, "MALFORMED" a 200 of another, "CRASHED" the bare 500 of an       *)
(* exception that escaped a handler.                                       *)
(***************************************************************************)
EXTENDS Naturals

Unset == "unset"        \* None: a field that the failure does not have

\* The codes of PERMANENT_CODES and RETRYABLE_CODES that a flight operation can
\* fail with.
PERMANENT_CODES ==
    {"BOOKING_NOT_FOUND", "FLIGHT_NOT_FOUND", "ALREADY_CANCELLED", "NOT_CANCELLABLE",
     "NOT_RESCHEDULABLE", "NO_ALTERNATIVES", "FLIGHT_NOT_AN_OPTION"}

RETRYABLE_CODES ==
    {"SERVICE_UNAVAILABLE", "RATE_LIMITED", "UPSTREAM_TIMEOUT", "INTERNAL_ERROR",
     "CONNECTION_FAILED", "MALFORMED_RESPONSE"}

\* A known code beats the status, the status beats the upstream's hint, and what
\* says nothing is taken as transient.
Classify(f) ==
    IF f.code \in PERMANENT_CODES THEN FALSE
    ELSE IF f.code \in RETRYABLE_CODES THEN TRUE
    ELSE IF f.status # Unset THEN f.status \in {"429", "5xx"}
    ELSE IF f.hint # Unset THEN f.hint = "retryable"
    ELSE TRUE

\* The service's refusals (errors.py) and what chaos.py injects, by status.
Refusals == {"BOOKING_NOT_FOUND", "FLIGHT_NOT_FOUND", "ALREADY_CANCELLED",
             "NOT_CANCELLABLE", "NOT_RESCHEDULABLE", "NO_ALTERNATIVES"}

ChaosErrors == {"SERVICE_UNAVAILABLE", "RATE_LIMITED", "INTERNAL_ERROR", "UPSTREAM_TIMEOUT"}

\* What a caller can be left with: an answer, or the exception of its own HTTP
\* client.  An options list that lacks the wanted flight is "NOT_LISTED".
Answers == {"OK", "MALFORMED", "NOT_LISTED", "CRASHED"} \cup Refusals \cup ChaosErrors

ClientErrors == {"TIMED_OUT", "LOST"}

\* _flight_call's JobFailure for an answer that is not a 200: the envelope's code
\* and hint when there is one, and the status.
Failure(a) ==
    CASE a \in Refusals -> [code |-> a, status |-> "4xx", hint |-> "permanent"]
      [] a = "RATE_LIMITED" -> [code |-> a, status |-> "429", hint |-> "retryable"]
      [] a \in ChaosErrors \ {"RATE_LIMITED"} ->
           [code |-> a, status |-> "5xx", hint |-> "retryable"]
      [] a = "CRASHED" -> [code |-> Unset, status |-> "5xx", hint |-> Unset]
      [] a = "TIMED_OUT" -> [code |-> "UPSTREAM_TIMEOUT", status |-> Unset, hint |-> Unset]
      [] a = "LOST" -> [code |-> "CONNECTION_FAILED", status |-> Unset, hint |-> Unset]

\* Mutated form: no shape check, the body of any 200 will do.
WellShapedAnyBody(a) == a \in {"OK", "NOT_LISTED", "MALFORMED"}

\* _call's check of a 200 against _EXPECTED_KEYS.
WellShaped(a) == a \in {"OK", "NOT_LISTED"}

\* ToolResult.retryable: the hint when the envelope has one, else the status; a
\* corrupt body and a client-side error are retryable.
ToolRetryable(a) ==
    IF a \in ClientErrors \cup {"MALFORMED"} THEN TRUE
    ELSE IF Failure(a).hint # Unset THEN Failure(a).hint = "retryable"
    ELSE Failure(a).status \in {"429", "5xx"}
=============================================================================
