----------------------------- MODULE FlightService -----------------------------
(***************************************************************************)
(* The flight service (services/flight-mock): bookings, refunds and the    *)
(* three operations a confirmed change needs, behind the chaos middleware. *)
(* Every SQL statement is a transaction of its own on a pooled connection, *)
(* so a handler is its statements, one step each, and handlers interleave. *)
(* A request belongs to an intent: a change one customer confirmed.  A     *)
(* caller that gives up on a request does not stop its handler.            *)
(***************************************************************************)
EXTENDS Retry, FiniteSets

CONSTANTS
    Bookings,
    Refundable,         \* bookings whose fare is refundable
    Flights,
    FlightOf,           \* [Bookings -> Flights], as booked
    RouteOf,            \* origin and destination of a flight
    Grounded,           \* flights that are CANCELLED or DIVERTED
    Intents,
    BookingOf,          \* the booking an intent is about; its PNR may match none
    WantedOf,           \* the flight a reschedule is to
    Requests,           \* requests that may be in progress at once
    ChaosKinds,         \* what the chaos engine injects: errors, "MALFORMED", "hang"
    Horizon,            \* bound: no flight comes closer to departure than this
    MaxFaults           \* bound: handlers that raise or die, beside chaos

ASSUME BookingsAssumption ==
    /\ IsFiniteSet(Bookings) /\ Refundable \subseteq Bookings
    /\ FlightOf \in [Bookings -> Flights] /\ Flights # {}
ASSUME RequestsAssumption == IsFiniteSet(Requests) /\ IsFiniteSet(Intents)
ASSUME ChaosAssumption == ChaosKinds \subseteq ChaosErrors \cup {"MALFORMED", "hang"}
ASSUME BoundsAssumption == Horizon \in 0..3 /\ MaxFaults \in Nat

VARIABLES
    booking,        \* the bookings table: status, flight, whether cancelled_at is set
    refunds,        \* the number of rows of refunds a booking has
    away,           \* how far a flight's departure is: 3 beyond three hours, 2 beyond
                    \* the cancellation cutoff, 1 within it, 0 departed
    requests,       \* the requests the service is handling
    carried,        \* history: UPDATEs of bookings made for an intent
    faults

service == <<booking, refunds, away, requests, carried, faults>>

BookingStatus == {"CONFIRMED", "RESCHEDULED", "CANCELLED", "COMPLETED", "NO_SHOW"}

Ops == {"cancel", "options", "reschedule"}

\* Where a handler is: not yet admitted, after its first SELECT, before its UPDATE,
\* before the refund's INSERT.
Handling == {"arrived", "loaded", "update", "refund"}

Free == [at |-> "free"]

Request == [at : Handling \cup {"hung", "answered"}, op : Ops, intent : Intents,
            seen : Flights, attended : BOOLEAN, answer : Answers \cup ClientErrors]

ServiceTypeOK ==
    /\ booking \in [Bookings -> [status : BookingStatus, flight : Flights,
                                 cancelledAt : BOOLEAN]]
    /\ refunds \in [Bookings -> Nat]
    /\ away \in [Flights -> 0..3]
    /\ requests \in [Requests -> {Free} \cup Request]
    /\ carried \in [Intents -> Nat]
    /\ faults \in 0..MaxFaults

\* The bookings a call may find (scripts/seed.py); the cancelled ones have their refund.
ServiceInit ==
    /\ \E s \in [Bookings -> {"CONFIRMED", "CANCELLED", "COMPLETED"}] :
         /\ booking = [b \in Bookings |-> [status |-> s[b], flight |-> FlightOf[b],
                                           cancelledAt |-> s[b] = "CANCELLED"]]
         /\ refunds = [b \in Bookings |->
                         IF s[b] = "CANCELLED" /\ b \in Refundable THEN 1 ELSE 0]
    /\ away = [f \in Flights |-> 3]
    /\ requests = [q \in Requests |-> Free]
    /\ carried = [i \in Intents |-> 0]
    /\ faults = 0

-----------------------------------------------------------------------------
(* A request comes, is answered, or loses its caller. *)

Busy(q) == requests[q] # Free
At(q, op, place) == Busy(q) /\ requests[q].op = op /\ requests[q].at = place
Subject(q) == BookingOf[requests[q].intent]
Row(q) == booking[Subject(q)]
Wanted(q) == WantedOf[requests[q].intent]

Arrive(q, i, op) ==
    requests' = [requests EXCEPT ![q] =
        [at |-> "arrived", op |-> op, intent |-> i, attended |-> TRUE, answer |-> "OK",
         seen |-> CHOOSE f \in Flights : TRUE]]

GoesTo(q, place) == requests' = [requests EXCEPT ![q].at = place]

\* The answer goes to whoever still waits for it.
Reply(q, a) ==
    requests' = [requests EXCEPT ![q] =
        IF @.attended THEN [@ EXCEPT !.at = "answered", !.answer = a] ELSE Free]

Abandon(q) ==
    requests' = [requests EXCEPT ![q] =
        IF @.at \in Handling THEN [@ EXCEPT !.attended = FALSE] ELSE Free]

Running(i) == \E q \in Requests : Busy(q) /\ requests[q].intent = i
                                    /\ requests[q].at \in Handling

-----------------------------------------------------------------------------
(* The chaos middleware, which answers instead of the handler. *)

ChaosAnswers(q) ==
    /\ Busy(q) /\ requests[q].at = "arrived"
    /\ \E a \in ChaosKinds \ {"hang"} : Reply(q, a)
    /\ UNCHANGED <<booking, refunds, away, carried, faults>>

ChaosHangs(q) ==
    /\ Busy(q) /\ requests[q].at = "arrived" /\ "hang" \in ChaosKinds
    /\ IF requests[q].attended THEN GoesTo(q, "hung")
       ELSE requests' = [requests EXCEPT ![q] = Free]
    /\ UNCHANGED <<booking, refunds, away, carried, faults>>

HangEnds(q) ==
    /\ Busy(q) /\ requests[q].at = "hung"
    /\ Reply(q, "UPSTREAM_TIMEOUT")
    /\ UNCHANGED <<booking, refunds, away, carried, faults>>

-----------------------------------------------------------------------------
(* POST /v1/bookings/{pnr}/cancel *)

\* Mutated form: a cancelled booking is cancelled again.
CancelVerdictAnyStatus(q) ==
    IF Subject(q) \notin Bookings THEN "BOOKING_NOT_FOUND"
    ELSE IF Row(q).status = "COMPLETED" \/ away[Row(q).flight] < 2 THEN "NOT_CANCELLABLE"
    ELSE "OK"

CancelVerdict(q) ==
    IF Subject(q) \notin Bookings THEN "BOOKING_NOT_FOUND"
    ELSE IF Row(q).status = "CANCELLED" THEN "ALREADY_CANCELLED"
    ELSE IF Row(q).status = "COMPLETED" \/ away[Row(q).flight] < 2 THEN "NOT_CANCELLABLE"
    ELSE "OK"

CancelLoads(q) ==
    /\ At(q, "cancel", "arrived")
    /\ IF CancelVerdict(q) = "OK" THEN GoesTo(q, "update") ELSE Reply(q, CancelVerdict(q))
    /\ UNCHANGED <<booking, refunds, away, carried, faults>>

Carry(q) == carried' = [carried EXCEPT ![requests[q].intent] = @ + 1]

\* Mutated form: the refund of a refundable fare is forgotten.
CancelUpdatesOnly(q) ==
    /\ At(q, "cancel", "update")
    /\ booking' = [booking EXCEPT ![Subject(q)] =
                     [@ EXCEPT !.status = "CANCELLED", !.cancelledAt = TRUE]]
    /\ Carry(q) /\ Reply(q, "OK")
    /\ UNCHANGED <<refunds, away, faults>>

CancelUpdates(q) ==
    /\ At(q, "cancel", "update")
    /\ booking' = [booking EXCEPT ![Subject(q)] =
                     [@ EXCEPT !.status = "CANCELLED", !.cancelledAt = TRUE]]
    /\ Carry(q)
    /\ IF Subject(q) \in Refundable THEN GoesTo(q, "refund") ELSE Reply(q, "OK")
    /\ UNCHANGED <<refunds, away, faults>>

InsertRefund(q) ==
    /\ At(q, "cancel", "refund")
    /\ refunds' = [refunds EXCEPT ![Subject(q)] = @ + 1]
    /\ Reply(q, "OK")
    /\ UNCHANGED <<booking, away, carried, faults>>

-----------------------------------------------------------------------------
(* GET .../reschedule-options and POST .../reschedule *)

LoadVerdict(q) ==
    IF Subject(q) \notin Bookings THEN "BOOKING_NOT_FOUND"
    ELSE IF Row(q).status # "CONFIRMED" THEN "NOT_RESCHEDULABLE"
    ELSE "OK"

\* The first SELECT of both: the row it returns is used to the end.
LoadBooking(q) ==
    /\ \E op \in {"options", "reschedule"} : At(q, op, "arrived")
    /\ IF LoadVerdict(q) = "OK"
         THEN requests' = [requests EXCEPT ![q].at = "loaded", ![q].seen = Row(q).flight]
         ELSE Reply(q, LoadVerdict(q))
    /\ UNCHANGED <<booking, refunds, away, carried, faults>>

\* Departs in more than three hours, serves the route, and is not the booked flight.
Alternatives(seen) ==
    {f \in Flights \ (Grounded \cup {seen}) : RouteOf[f] = RouteOf[seen] /\ away[f] = 3}

ListOptions(q) ==
    /\ At(q, "options", "loaded")
    /\ LET options == Alternatives(requests[q].seen) IN
         Reply(q, IF options = {} THEN "NO_ALTERNATIVES"
                  ELSE IF Wanted(q) \in options THEN "OK" ELSE "NOT_LISTED")
    /\ UNCHANGED <<booking, refunds, away, carried, faults>>

TargetVerdict(q) ==
    IF Wanted(q) \notin Flights THEN "FLIGHT_NOT_FOUND"
    ELSE IF \/ RouteOf[Wanted(q)] # RouteOf[requests[q].seen]
            \/ Wanted(q) \in Grounded \/ away[Wanted(q)] = 0
      THEN "NOT_RESCHEDULABLE"
    ELSE "OK"

CheckTarget(q) ==
    /\ At(q, "reschedule", "loaded")
    /\ IF TargetVerdict(q) = "OK" THEN GoesTo(q, "update") ELSE Reply(q, TargetVerdict(q))
    /\ UNCHANGED <<booking, refunds, away, carried, faults>>

\* Mutated form: the table has no bookings_cancelled_consistency.
RescheduleUnchecked(q) ==
    /\ At(q, "reschedule", "update")
    /\ booking' = [booking EXCEPT ![Subject(q)] =
                     [@ EXCEPT !.status = "RESCHEDULED", !.flight = Wanted(q)]]
    /\ Carry(q) /\ Reply(q, "OK")
    /\ UNCHANGED <<refunds, away, faults>>

\* The UPDATE leaves cancelled_at alone, so on a booking cancelled since the SELECT
\* the table's CHECK refuses it, and the exception is a bare 500.
RescheduleUpdates(q) ==
    /\ At(q, "reschedule", "update")
    /\ IF Row(q).cancelledAt
         THEN Reply(q, "CRASHED") /\ UNCHANGED <<booking, carried>>
         ELSE /\ booking' = [booking EXCEPT ![Subject(q)] =
                               [@ EXCEPT !.status = "RESCHEDULED", !.flight = Wanted(q)]]
              /\ Carry(q) /\ Reply(q, "OK")
    /\ UNCHANGED <<refunds, away, faults>>

-----------------------------------------------------------------------------
\* A statement raises (the database is away, the pool is empty, a random refund
\* reference is taken), or the process dies: nothing of the handler follows.
HandlerFails(q) ==
    /\ Busy(q) /\ requests[q].at \in Handling /\ faults < MaxFaults
    /\ \E a \in {"CRASHED", "LOST"} : Reply(q, a)
    /\ faults' = faults + 1
    /\ UNCHANGED <<booking, refunds, away, carried>>

TimePasses(f) ==
    /\ away[f] > Horizon
    /\ away' = [away EXCEPT ![f] = @ - 1]
    /\ UNCHANGED <<booking, refunds, requests, carried, faults>>

HandlerStep(q) ==
    \/ ChaosAnswers(q) \/ ChaosHangs(q) \/ HangEnds(q)
    \/ CancelLoads(q) \/ CancelUpdates(q) \/ InsertRefund(q)
    \/ LoadBooking(q) \/ ListOptions(q) \/ CheckTarget(q) \/ RescheduleUpdates(q)

ServiceNext == \/ \E q \in Requests : HandlerStep(q) \/ HandlerFails(q)
               \/ \E f \in Flights : TimePasses(f)
=============================================================================
