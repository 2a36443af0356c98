------------------------------- MODULE Servicing -------------------------------
(***************************************************************************)
(* A confirmed change, from the turn that tries it to the job that         *)
(* finishes it.  The AI service's tool (tools/flight.py) calls the flight  *)
(* service once; when that fails for a transient reason turn.py enqueues a *)
(* job (core/queue.py), and a worker (handlers.py, main.py) calls again    *)
(* until it succeeds, is refused, or runs out of attempts.  The queue is   *)
(* what JobContract promises of it, which Queue is shown to keep.          *)
(***************************************************************************)
EXTENDS FlightService

CONSTANTS
    OpOf,               \* [Intents -> {"cancel", "reschedule"}]
    NoRequest,
    MaxAttempts,        \* Job.max_attempts
    Patient,            \* no handler outlives its caller's timeout or lease
    OnlyDeadLetters,    \* whether operators retry only what the DLQ lists
    MaxCrashes,         \* bound: turns and workers that die on an intent
    MaxRequeues         \* bound: retries by an operator

ASSUME IntentsAssumption ==
    /\ OpOf \in [Intents -> {"cancel", "reschedule"}]
    /\ NoRequest \notin Requests \cup Intents
    /\ Patient \in BOOLEAN /\ OnlyDeadLetters \in BOOLEAN
ASSUME AttemptsAssumption ==
    /\ MaxAttempts \in Nat \ {0} /\ MaxCrashes \in Nat /\ MaxRequeues \in Nat

VARIABLES
    phase,          \* where in its life an intent is
    waits,          \* the request its caller awaits
    attempt,        \* job.attempt
    crashes, requeues

callers == <<phase, waits, attempt, crashes, requeues>>
vars == <<service, callers>>

\* "turn": in the tool; "confirmed": the turn has told the customer so; "declined":
\* it has not, or it died; from "waiting" on the intent is a job of the queue.
Phases == {"unasked", "turn", "confirmed", "declined", "waiting", "working",
           "orphaned", "done", "failed", "dead"}

\* Who is calling awaits a request that is its own and knows it.
Attends(i) ==
    /\ phase[i] \in {"turn", "working"} <=> waits[i] # NoRequest
    /\ waits[i] # NoRequest => /\ Busy(waits[i]) /\ requests[waits[i]].intent = i
                               /\ requests[waits[i]].attended

TypeOK ==
    /\ ServiceTypeOK
    /\ phase \in [Intents -> Phases]
    /\ waits \in [Intents -> Requests \cup {NoRequest}]
    /\ \A i \in Intents : Attends(i)
    /\ attempt \in [Intents -> Nat]
    /\ crashes \in 0..MaxCrashes /\ requeues \in 0..MaxRequeues

Init ==
    /\ ServiceInit
    /\ phase = [i \in Intents |-> "unasked"]
    /\ waits = [i \in Intents |-> NoRequest]
    /\ attempt = [i \in Intents |-> 0]
    /\ crashes = 0 /\ requeues = 0

-----------------------------------------------------------------------------
(* Calling the flight service. *)

\* Both kinds of caller reschedule in two calls: the options, then the change.
FirstOp(i) == IF OpOf[i] = "cancel" THEN "cancel" ELSE "options"

Calls(i) == \E q \in Requests : /\ requests[q] = Free
                                /\ Arrive(q, i, FirstOp(i))
                                /\ waits' = [waits EXCEPT ![i] = q]

Answered(i) == waits[i] # NoRequest /\ requests[waits[i]].at = "answered"
AnswerTo(i) == requests[waits[i]].answer
OnOptions(i) == requests[waits[i]].op = "options"

\* The wanted flight is an option: the second call.
GoesOn(i) ==
    /\ Answered(i) /\ OnOptions(i) /\ AnswerTo(i) = "OK"
    /\ Arrive(waits[i], i, "reschedule")
    /\ UNCHANGED <<booking, refunds, away, carried, faults, callers>>

\* Mutated form: the caller is not taken off the request.
EndsStillWaiting(i, to) ==
    /\ phase' = [phase EXCEPT ![i] = to]
    /\ Abandon(waits[i])
    /\ UNCHANGED <<waits, booking, refunds, away, carried, faults>>

Ends(i, to) ==
    /\ phase' = [phase EXCEPT ![i] = to]
    /\ waits' = [waits EXCEPT ![i] = NoRequest]
    /\ Abandon(waits[i])
    /\ UNCHANGED <<booking, refunds, away, carried, faults>>

\* What is left of a call: its answer, or the timeout of the caller's HTTP client.
\* While handlers are quicker than that, only a request that hangs in the chaos
\* engine, or whose answer is late, times out.
Outcome(i, a) ==
    \/ Answered(i) /\ a = AnswerTo(i)
    \/ a = "TIMED_OUT" /\ waits[i] # NoRequest
         /\ (Patient => requests[waits[i]].at \in {"hung", "answered"})

-----------------------------------------------------------------------------
(* The turn. *)

Ask(i) ==
    /\ phase[i] = "unasked"
    /\ Calls(i)
    /\ phase' = [phase EXCEPT ![i] = "turn"]
    /\ UNCHANGED <<booking, refunds, away, carried, faults, attempt, crashes, requeues>>

TurnSucceeds(i) ==
    /\ phase[i] = "turn" /\ Answered(i) /\ ~OnOptions(i) /\ WellShaped(AnswerTo(i))
    /\ Ends(i, "confirmed")
    /\ UNCHANGED <<attempt, crashes, requeues>>

\* A failure that will not change, or one that could not be enqueued.
TurnFails(i) ==
    /\ phase[i] = "turn"
    /\ \E a \in Answers \cup ClientErrors :
         /\ Outcome(i, a)
         /\ a = "NOT_LISTED" \/ ~WellShaped(a)
    /\ Ends(i, "declined")
    /\ UNCHANGED <<attempt, crashes, requeues>>

\* enqueue_retry: one job per intent, its key being the call and the operation.
TurnEnqueues(i) ==
    /\ phase[i] = "turn"
    /\ \E a \in Answers \cup ClientErrors :
         Outcome(i, a) /\ ~WellShaped(a) /\ ToolRetryable(a)
    /\ Ends(i, "waiting")
    /\ UNCHANGED <<attempt, crashes, requeues>>

TurnDies(i) ==
    /\ phase[i] = "turn" /\ crashes < MaxCrashes
    /\ Ends(i, "declined")
    /\ crashes' = crashes + 1
    /\ UNCHANGED <<attempt, requeues>>

-----------------------------------------------------------------------------
(* The job. *)

\* Mutated form: a job is not reserved beyond its attempts, and stays where it is.
TakeWithinCap(i) ==
    /\ phase[i] = "waiting" /\ attempt[i] < MaxAttempts
    /\ Calls(i)
    /\ phase' = [phase EXCEPT ![i] = "working"]
    /\ attempt' = [attempt EXCEPT ![i] = @ + 1]
    /\ UNCHANGED <<booking, refunds, away, carried, faults, crashes, requeues>>

\* The reserve script, which does not look at the attempt count.
Take(i) ==
    /\ phase[i] = "waiting"
    /\ Calls(i)
    /\ phase' = [phase EXCEPT ![i] = "working"]
    /\ attempt' = [attempt EXCEPT ![i] = @ + 1]
    /\ UNCHANGED <<booking, refunds, away, carried, faults, crashes, requeues>>

\* _flight_call takes any 200 for a success, and the handler reads what it finds.
JobSucceeds(i) ==
    /\ phase[i] = "working" /\ Answered(i) /\ ~OnOptions(i)
    /\ AnswerTo(i) \in {"OK", "MALFORMED"}
    /\ Ends(i, "done")
    /\ UNCHANGED <<attempt, crashes, requeues>>

\* The JobFailure a call ends in: an options body without the wanted flight, or
\* without options at all, means that the flight is gone.
JobFailure(i, f) ==
    \E a \in Answers \cup ClientErrors :
      /\ Outcome(i, a)
      /\ IF OnOptions(i) /\ a \in {"NOT_LISTED", "MALFORMED"}
           THEN f = [code |-> "FLIGHT_NOT_AN_OPTION", status |-> Unset, hint |-> Unset]
           ELSE a \notin {"OK", "NOT_LISTED", "MALFORMED"} /\ f = Failure(a)

Failures == {Failure(a) : a \in Refusals \cup ChaosErrors \cup {"CRASHED"} \cup ClientErrors}
              \cup {[code |-> "FLIGHT_NOT_AN_OPTION", status |-> Unset, hint |-> Unset]}

\* nack: permanent, transient with attempts left, or exhausted.
JobFails(i) ==
    /\ phase[i] = "working"
    /\ \E f \in Failures :
         /\ JobFailure(i, f)
         /\ Ends(i, IF ~Classify(f) THEN "failed"
                    ELSE IF attempt[i] < MaxAttempts THEN "waiting" ELSE "dead")
    /\ UNCHANGED <<attempt, crashes, requeues>>

WorkerDies(i) ==
    /\ phase[i] = "working" /\ crashes < MaxCrashes
    /\ Ends(i, "orphaned")
    /\ crashes' = crashes + 1
    /\ UNCHANGED <<attempt, requeues>>

\* Mutated form: a permanent nack leaves its lease behind, and the reaper finds it.
RecoverLeftLease(i) ==
    /\ phase[i] \in {"orphaned", "failed"}
    /\ Patient => ~Running(i)
    /\ phase' = [phase EXCEPT ![i] = "waiting"]
    /\ UNCHANGED <<service, waits, attempt, crashes, requeues>>

\* The lease lapses and the reaper puts the job back.
Recover(i) ==
    /\ phase[i] = "orphaned"
    /\ Patient => ~Running(i)
    /\ phase' = [phase EXCEPT ![i] = "waiting"]
    /\ UNCHANGED <<service, waits, attempt, crashes, requeues>>

(***************************************************************************)
(* An operator's retry.  requeue_dead_letter asks only whether the job     *)
(* exists: OnlyDeadLetters is the operator's discipline, not the code's,   *)
(* and without it a job that is done or failed is tried again as well.     *)
(* That operators leave alone a job which is still queued or running is    *)
(* assumed here: its retry gives it a second entry, so that two workers    *)
(* may hold it, and a job is then no longer in one phase.  Queue has those *)
(* entries.                                                                *)
(***************************************************************************)
Requeue(i) ==
    /\ phase[i] \in {"done", "failed", "dead"} /\ requeues < MaxRequeues
    /\ OnlyDeadLetters => phase[i] = "dead"
    /\ requeues' = requeues + 1
    /\ phase' = [phase EXCEPT ![i] = "waiting"]
    /\ attempt' = [attempt EXCEPT ![i] = 0]
    /\ UNCHANGED <<service, waits, crashes>>

CallerStep(i) ==
    \/ GoesOn(i) \/ TurnSucceeds(i) \/ TurnFails(i) \/ TurnEnqueues(i)
    \/ Take(i) \/ JobSucceeds(i) \/ JobFails(i) \/ Recover(i)

Next ==
    \/ ServiceNext /\ UNCHANGED callers
    \/ \E i \in Intents : \/ Ask(i) \/ CallerStep(i)
                          \/ TurnDies(i) \/ WorkerDies(i) \/ Requeue(i)

Spec == Init /\ [][Next]_vars

(***************************************************************************)
(* Fairness: the service goes on while a handler can, and the callers      *)
(* while one of them can: it reads its answer or gives up when its timeout *)
(* comes, a worker takes what waits, the reaper recovers what is orphaned  *)
(* (Queue's own liveness).  Every attempt is bounded, so no more is needed *)
(* to say which.  Nothing makes a customer ask, a process die or an        *)
(* operator retry.                                                         *)
(***************************************************************************)
Fairness ==
    /\ WF_vars(\E q \in Requests : HandlerStep(q) /\ UNCHANGED callers)
    /\ WF_vars(\E i \in Intents : CallerStep(i))

FairSpec == Spec /\ Fairness
-----------------------------------------------------------------------------
(* Safety. *)

\* A cancelled booking is neither revived nor moved, however handlers that read it
\* earlier finish.  A late reschedule is stopped only by the table's CHECK.
CancelledIsFinal ==
    [][\A b \in Bookings : booking[b].status = "CANCELLED" =>
         booking'[b].status = "CANCELLED" /\ booking'[b].flight = booking[b].flight]_vars

\* Delivery is at least once, and answers are lost, so an intent may be tried many
\* times; while handlers are quicker than their callers' patience, the booking's own
\* status lets one of the tries through and no more.
CarriedOutOnce == \A i \in Intents : carried[i] <= 1

\* docs/schema.md, refunds: "One per cancelled refundable booking".  However a booking's
\* cancellation is tried again, never two, never one for a booking that stands, and
\* never none once the cancel has run undisturbed.
Cancelling(b) ==
    \E q \in Requests : At(q, "cancel", "refund") /\ Subject(q) = b

RefundsMatch ==
    \A b \in Bookings :
      /\ refunds[b] <= 1
      /\ refunds[b] = 1 => b \in Refundable /\ booking[b].status = "CANCELLED"
      /\ booking[b].status = "CANCELLED" /\ b \in Refundable /\ faults = 0
           /\ ~Cancelling(b) => refunds[b] = 1

\* What the agent tells the customer is true: a change the tool reports as made has
\* been made, though the chaos engine may answer 200 without making it.
ConfirmedIsCarriedOut == \A i \in Intents : phase[i] = "confirmed" => carried[i] = 1

\* The same for a job that the worker acks as SUCCESS.
DoneIsCarriedOut == \A i \in Intents : phase[i] = "done" => carried[i] = 1

-----------------------------------------------------------------------------
(* Liveness. *)

\* "The work should not die with the call" (core/queue.py): a change that was asked
\* for is confirmed, declined, completed, refused or left to an operator.
EveryIntentEnds ==
    \A i \in Intents :
      phase[i] # "unasked" ~> phase[i] \in {"confirmed", "declined", "done", "failed", "dead"}

-----------------------------------------------------------------------------
\* Jobs here live as JobContract, which Queue implements, lets them: a job that is
\* done or failed stays so, unless the reaper or an operator without OnlyDeadLetters
\* brings it back.
Contract == INSTANCE JobContract
              WITH Jobs <- Intents, Workers <- Intents, Nobody <- NoRequest,
                   state <- [i \in Intents |->
                               IF phase[i] \in {"unasked", "turn", "confirmed", "declined"}
                                 THEN "absent" ELSE phase[i]],
                   by <- [i \in Intents |-> IF phase[i] = "working" THEN i ELSE NoRequest]

KeepsContract == Contract!Spec
=============================================================================
