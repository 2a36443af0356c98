---------------------------- MODULE ServicingProofs ----------------------------
(***************************************************************************)
(* Theorems about Servicing, for any bookings, flights, intents, requests, *)
(* chaos, faults and bounds.  The inductive invariant says, beside types,  *)
(* who belongs to a running request, that cancelled_at is set exactly on   *)
(* cancelled rows, and, while callers are patient, that an intent has one  *)
(* request at a time and that its booking remembers a change carried out.  *)
(* The last part is the termination argument, patient or not: a bound on   *)
(* what is left to be done for an intent, which each of its steps lowers;  *)
(* and, without corrupt answers, that a job done is a change made.         *)
(***************************************************************************)
EXTENDS Servicing, TLAPS

\* A request's place fits its operation, and someone waits for it unless it was
\* abandoned while its handler ran.
Sound(q, r) ==
    /\ r.attended => waits[r.intent] = q
    /\ ~r.attended => r.at \in Handling
    /\ r.op = "cancel" <=> OpOf[r.intent] = "cancel"
    /\ r.at = "loaded" => r.op \in {"options", "reschedule"}
    /\ r.at = "update" => r.op \in {"cancel", "reschedule"}
    /\ r.at = "refund" => r.op = "cancel"
    /\ r.at \in {"loaded", "update", "refund"} => BookingOf[r.intent] \in Bookings
    /\ r.at = "update" /\ r.op = "reschedule" => WantedOf[r.intent] \in Flights

RequestsOK == \A q \in Requests : Busy(q) => Sound(q, requests[q])

RowsOK == \A b \in Bookings : booking[b].status = "CANCELLED" <=> booking[b].cancelledAt

\* Patient callers: nobody tries again while an earlier try still runs.
OneTry ==
    /\ \A q \in Requests :
         Busy(q) /\ ~requests[q].attended
           => phase[requests[q].intent] \in {"declined", "orphaned"}
    /\ \A p, q \in Requests :
         Busy(p) /\ Busy(q) /\ requests[p].intent = requests[q].intent => p = q

\* What a booking's status says once an intent has been carried out.
Marked(i) == booking[BookingOf[i]].status \in
               (IF OpOf[i] = "cancel" THEN {"CANCELLED"} ELSE {"RESCHEDULED", "CANCELLED"})

\* A request that has passed the check of the booking's status.
Admitted(r) == r.at = "update" \/ (r.at = "loaded" /\ r.op = "reschedule")

Remembered ==
    \A i \in Intents : carried[i] # 0 =>
      /\ carried[i] = 1 /\ BookingOf[i] \in Bookings /\ Marked(i)
      /\ \A q \in Requests : Busy(q) /\ requests[q].intent = i => ~Admitted(requests[q])

IInv == TypeOK /\ RequestsOK /\ RowsOK

Once == Patient => OneTry /\ Remembered

-----------------------------------------------------------------------------
(* What a step does to the requests. *)

\* A handler's step moves one request on, keeping whose it is, or ends one that
\* nobody waits for.
Progress(q, r) ==
    /\ Busy(q)
    /\ requests' = [requests EXCEPT ![q] = r]
    /\ r = Free => ~requests[q].attended
    /\ r # Free => /\ r \in Request /\ Sound(q, r)
                   /\ r.intent = requests[q].intent /\ r.op = requests[q].op
                   /\ r.attended = requests[q].attended

\* Free is no request: only its place has this name.
LEMMA FreeIsNoRequest == Free \notin Request
  <1>1. \A r \in Request : r.at # "free"
    BY SMT DEF Request, Handling
  <1>2. Free.at = "free"
    BY DEF Free
  <1> QED BY <1>1, <1>2, Zenon

LEMMA BusyIsRequest ==
  ASSUME TypeOK, NEW q \in Requests, Busy(q)
  PROVE  requests[q] \in Request
  BY Zenon DEF TypeOK, ServiceTypeOK, Busy

\* The ways a request changes: it is answered, or goes on, with a flight in hand.
WithAnswer(r, a) == [r EXCEPT !.at = "answered", !.answer = a]
WithFlight(r, f) == [r EXCEPT !.at = "loaded", !.seen = f]
WithPlace(r, place) == [r EXCEPT !.at = place]

LEMMA AnswerKeepsRest ==
  ASSUME NEW r \in Request, NEW a \in Answers \cup ClientErrors
  PROVE  LET new == WithAnswer(r, a) IN
           /\ new \in Request /\ new.at = "answered" /\ new.intent = r.intent
           /\ new.op = r.op /\ new.attended = r.attended /\ new # Free
  <1>1. \A s \in Request : [s EXCEPT !.at = "answered"] \in Request
    BY SMT DEF Request, Handling
  <1>2. \A s \in Request : [s EXCEPT !.answer = a] \in Request
    BY SMT DEF Request
  <1>3. [[r EXCEPT !.at = "answered"] EXCEPT !.answer = a] \in Request
    BY <1>1, <1>2, Zenon
  <1>4. WithAnswer(r, a) = [[r EXCEPT !.at = "answered"] EXCEPT !.answer = a]
    BY SMT DEF Request, WithAnswer
  <1>5. WithAnswer(r, a) \in Request
    BY <1>3, <1>4, Zenon
  <1>6. /\ WithAnswer(r, a).at = "answered" /\ WithAnswer(r, a).intent = r.intent
        /\ WithAnswer(r, a).op = r.op /\ WithAnswer(r, a).attended = r.attended
    BY SMT DEF Request, WithAnswer
  <1> QED BY <1>5, <1>6, FreeIsNoRequest, Zenon

LEMMA FlightKeepsRest ==
  ASSUME NEW r \in Request, NEW f \in Flights
  PROVE  LET new == WithFlight(r, f) IN
           /\ new \in Request /\ new.at = "loaded" /\ new.intent = r.intent
           /\ new.op = r.op /\ new.attended = r.attended /\ new # Free
  <1>1. \A s \in Request : [s EXCEPT !.at = "loaded"] \in Request
    BY SMT DEF Request, Handling
  <1>2. \A s \in Request : [s EXCEPT !.seen = f] \in Request
    BY SMT DEF Request
  <1>3. [[r EXCEPT !.at = "loaded"] EXCEPT !.seen = f] \in Request
    BY <1>1, <1>2, Zenon
  <1>4. WithFlight(r, f) = [[r EXCEPT !.at = "loaded"] EXCEPT !.seen = f]
    BY SMT DEF Request, WithFlight
  <1>5. WithFlight(r, f) \in Request
    BY <1>3, <1>4, Zenon
  <1>6. /\ WithFlight(r, f).at = "loaded" /\ WithFlight(r, f).intent = r.intent
        /\ WithFlight(r, f).op = r.op /\ WithFlight(r, f).attended = r.attended
    BY SMT DEF Request, WithFlight
  <1> QED BY <1>5, <1>6, FreeIsNoRequest, Zenon

LEMMA PlaceKeepsRest ==
  ASSUME NEW r \in Request,
         NEW place \in Handling \cup {"hung", "answered"}
  PROVE  LET new == WithPlace(r, place) IN
           /\ new \in Request /\ new.at = place /\ new.intent = r.intent
           /\ new.op = r.op /\ new.attended = r.attended /\ new # Free
  <1>1. \A s \in Request : [s EXCEPT !.at = place] \in Request
    BY SMT DEF Request, Handling
  <1>5. WithPlace(r, place) \in Request
    BY <1>1, Zenon DEF WithPlace
  <1>6. /\ WithPlace(r, place).at = place /\ WithPlace(r, place).intent = r.intent
        /\ WithPlace(r, place).op = r.op /\ WithPlace(r, place).attended = r.attended
    BY SMT DEF Request, WithPlace
  <1> QED BY <1>5, <1>6, FreeIsNoRequest, Zenon

\* A place that suits a request.
Fits(q, place) ==
    LET r == requests[q] IN
    /\ place \notin Handling => r.attended
    /\ place = "loaded" => r.op \in {"options", "reschedule"}
    /\ place = "update" => r.op \in {"cancel", "reschedule"}
    /\ place = "refund" => r.op = "cancel"
    /\ place \in {"loaded", "update", "refund"} => Subject(q) \in Bookings
    /\ place = "update" /\ r.op = "reschedule" => Wanted(q) \in Flights

LEMMA FittingProgress ==
  ASSUME TypeOK, RequestsOK, NEW q \in Requests, Busy(q), NEW new \in Request,
         requests' = [requests EXCEPT ![q] = new], Fits(q, new.at),
         new.intent = requests[q].intent, new.op = requests[q].op,
         new.attended = requests[q].attended
  PROVE  Progress(q, new)
  <1>1. requests[q] \in Request /\ Sound(q, requests[q])
    BY BusyIsRequest, Zenon DEF RequestsOK
  <1>2. Sound(q, new)
    BY <1>1, SMT DEF Sound, Fits, Handling, Subject, Wanted
  <1>3. new # Free
    BY FreeIsNoRequest, Zenon
  <1> QED BY <1>2, <1>3, Zenon DEF Progress

LEMMA GoesToProgress ==
  ASSUME TypeOK, RequestsOK, NEW q \in Requests, Busy(q),
         NEW place \in Handling \cup {"hung", "answered"}, GoesTo(q, place),
         Fits(q, place)
  PROVE  \E r : Progress(q, r)
  <1>1. requests[q] \in Request
    BY BusyIsRequest, Zenon
  <1>2. requests' = [requests EXCEPT ![q] = WithPlace(requests[q], place)]
    BY Zenon DEF GoesTo, WithPlace
  <1> QED BY <1>1, <1>2, PlaceKeepsRest, FittingProgress, Zenon

\* An answer is the last step of a handler.
LEMMA ReplyProgress ==
  ASSUME TypeOK, RequestsOK, NEW q \in Requests, Busy(q),
         NEW a \in Answers \cup ClientErrors, Reply(q, a)
  PROVE  \E r : Progress(q, r)
  <1>1. requests[q] \in Request
    BY BusyIsRequest, Zenon
  <1>2. CASE requests[q].attended
    <2>1. requests' = [requests EXCEPT ![q] = WithAnswer(requests[q], a)]
      BY <1>2, Zenon DEF Reply, WithAnswer
    <2>2. Fits(q, "answered")
      BY <1>2, SMT DEF Fits
    <2> QED BY <1>1, <2>1, <2>2, AnswerKeepsRest, FittingProgress, Zenon
  <1>3. CASE ~requests[q].attended
    <2>1. requests' = [requests EXCEPT ![q] = Free]
      BY <1>3, Zenon DEF Reply
    <2> QED BY <2>1, <1>3, Zenon DEF Progress
  <1> QED BY <1>2, <1>3, Zenon

\* Every step of a handler is progress, whatever it does to the tables.
LEMMA HandlerProgress ==
  ASSUME TypeOK, RequestsOK, NEW q \in Requests, HandlerStep(q) \/ HandlerFails(q)
  PROVE  \E r : Progress(q, r)
  <1>a. /\ "answered" \in Handling \cup {"hung", "answered"}
        /\ "hung" \in Handling \cup {"hung", "answered"}
        /\ "update" \in Handling \cup {"hung", "answered"}
        /\ "refund" \in Handling \cup {"hung", "answered"}
    BY Zenon DEF Handling
  <1>b. Busy(q)
    BY Zenon DEF HandlerStep, HandlerFails, ChaosAnswers, ChaosHangs, HangEnds, CancelLoads,
      CancelUpdates, InsertRefund, LoadBooking, ListOptions, CheckTarget, RescheduleUpdates, At
  <1>c. requests[q] \in Request /\ Sound(q, requests[q])
    BY <1>b, BusyIsRequest, Zenon DEF RequestsOK
  <1>1. CASE ChaosAnswers(q)
    <2>1. PICK a \in ChaosKinds \ {"hang"} : Reply(q, a)
      BY <1>1, Zenon DEF ChaosAnswers
    <2>2. a \in Answers \cup ClientErrors
      BY <2>1, ChaosAssumption, SMT DEF Answers
    <2> QED BY <1>b, <2>1, <2>2, ReplyProgress, Zenon
  <1>2. CASE ChaosHangs(q)
    <2>1. CASE requests[q].attended
      <3>1. Fits(q, "hung")
        BY <2>1, SMT DEF Fits
      <3>2. GoesTo(q, "hung")
        BY <1>2, <2>1, Zenon DEF ChaosHangs
      <3> QED BY <1>a, <1>b, <3>1, <3>2, GoesToProgress, Zenon
    <2>2. CASE ~requests[q].attended
      <3>1. requests' = [requests EXCEPT ![q] = Free]
        BY <1>2, <2>2, Zenon DEF ChaosHangs
      <3> QED BY <1>b, <2>2, <3>1, Zenon DEF Progress
    <2> QED BY <2>1, <2>2, Zenon
  <1>3. CASE HangEnds(q)
    <2>1. "UPSTREAM_TIMEOUT" \in Answers
      BY SMT DEF Answers, ChaosErrors
    <2> QED BY <1>b, <1>3, <2>1, ReplyProgress, Zenon DEF HangEnds
  <1>4. CASE CancelLoads(q)
    <2>1. CASE CancelVerdict(q) = "OK"
      <3>1. Fits(q, "update")
        BY <1>4, <2>1, SMT DEF CancelLoads, At, Fits, CancelVerdict, Handling
      <3> QED BY <1>a, <1>b, <1>4, <2>1, <3>1, GoesToProgress, Zenon DEF CancelLoads
    <2>2. CASE CancelVerdict(q) # "OK"
      <3>1. CancelVerdict(q) \in Answers
        BY SMT DEF CancelVerdict, Answers, Refusals
      <3> QED BY <1>b, <1>4, <2>2, <3>1, ReplyProgress, Zenon DEF CancelLoads
    <2> QED BY <2>1, <2>2, Zenon
  <1>d. "OK" \in Answers
    BY SMT DEF Answers
  <1>5. CASE CancelUpdates(q)
    <2>1. CASE Subject(q) \in Refundable
      <3>1. Fits(q, "refund")
        BY <1>5, <2>1, BookingsAssumption, SMT DEF CancelUpdates, At, Fits, Handling
      <3> QED BY <1>a, <1>b, <1>5, <2>1, <3>1, GoesToProgress, Zenon DEF CancelUpdates
    <2>2. CASE Subject(q) \notin Refundable
      BY <1>b, <1>d, <1>5, <2>2, ReplyProgress, Zenon DEF CancelUpdates
    <2> QED BY <2>1, <2>2, Zenon
  <1>6. CASE InsertRefund(q)
    BY <1>b, <1>d, <1>6, ReplyProgress, Zenon DEF InsertRefund
  <1>7. CASE LoadBooking(q)
    <2>1. CASE LoadVerdict(q) = "OK"
      <3>1. Subject(q) \in Bookings
        BY <2>1, SMT DEF LoadVerdict
      <3>2. Row(q).flight \in Flights
        BY <3>1, SMT DEF TypeOK, ServiceTypeOK, Row
      <3>3. Fits(q, "loaded")
        BY <1>7, <3>1, SMT DEF LoadBooking, At, Fits, Handling
      <3>4. requests' = [requests EXCEPT ![q] = WithFlight(requests[q], Row(q).flight)]
        BY <1>7, <2>1, Zenon DEF LoadBooking, WithFlight
      <3> QED BY <1>b, <1>c, <3>2, <3>3, <3>4, FlightKeepsRest, FittingProgress, Zenon
    <2>2. CASE LoadVerdict(q) # "OK"
      <3>1. LoadVerdict(q) \in Answers
        BY SMT DEF LoadVerdict, Answers, Refusals
      <3> QED BY <1>b, <1>7, <2>2, <3>1, ReplyProgress, Zenon DEF LoadBooking
    <2> QED BY <2>1, <2>2, Zenon
  <1>8. CASE ListOptions(q)
    <2>1. PICK a \in {"OK", "NOT_LISTED", "NO_ALTERNATIVES"} : Reply(q, a)
      BY <1>8, Zenon DEF ListOptions
    <2>2. a \in Answers
      BY <2>1, SMT DEF Answers, Refusals
    <2> QED BY <1>b, <2>1, <2>2, ReplyProgress, Zenon
  <1>9. CASE CheckTarget(q)
    <2>1. CASE TargetVerdict(q) = "OK"
      <3>1. Wanted(q) \in Flights
        BY <2>1, SMT DEF TargetVerdict
      <3>2. Subject(q) \in Bookings
        BY <1>c, <1>9, SMT DEF CheckTarget, At, Sound, Subject
      <3>3. Fits(q, "update")
        BY <1>9, <3>1, <3>2, SMT DEF CheckTarget, At, Fits, Handling
      <3> QED BY <1>a, <1>b, <1>9, <2>1, <3>3, GoesToProgress, Zenon DEF CheckTarget
    <2>2. CASE TargetVerdict(q) # "OK"
      <3>1. TargetVerdict(q) \in Answers
        BY SMT DEF TargetVerdict, Answers, Refusals
      <3> QED BY <1>b, <1>9, <2>2, <3>1, ReplyProgress, Zenon DEF CheckTarget
    <2> QED BY <2>1, <2>2, Zenon
  <1>10. CASE RescheduleUpdates(q)
    <2>1. "CRASHED" \in Answers
      BY SMT DEF Answers
    <2>2. Reply(q, "CRASHED") \/ Reply(q, "OK")
      BY <1>10, Zenon DEF RescheduleUpdates
    <2> QED BY <1>b, <1>d, <2>1, <2>2, ReplyProgress, Zenon
  <1>11. CASE HandlerFails(q)
    <2>1. PICK a \in {"CRASHED", "LOST"} : Reply(q, a)
      BY <1>11, Zenon DEF HandlerFails
    <2>2. a \in Answers \cup ClientErrors
      BY <2>1, SMT DEF Answers, ClientErrors
    <2> QED BY <1>b, <2>1, <2>2, ReplyProgress, Zenon
  <1> QED BY <1>1, <1>2, <1>3, <1>4, <1>5, <1>6, <1>7, <1>8, <1>9, <1>10, <1>11, Zenon
        DEF HandlerStep

-----------------------------------------------------------------------------
(* The requests and their callers stay well-typed and sound. *)

RequestsTyped == requests \in [Requests -> {Free} \cup Request]
CallersTyped == /\ phase \in [Intents -> Phases]
                /\ waits \in [Intents -> Requests \cup {NoRequest}]
                /\ \A i \in Intents : Attends(i)

LEMMA OthersAttend ==
  ASSUME NEW j \in Intents, Attends(j), waits'[j] = waits[j], phase'[j] = phase[j],
         waits[j] # NoRequest => requests'[waits[j]] = requests[waits[j]]
  PROVE  Attends(j)'
  <1>1. CASE waits[j] = NoRequest
    BY <1>1, Zenon DEF Attends
  <1>2. CASE waits[j] # NoRequest
    <2>1. requests'[waits'[j]] = requests[waits[j]]
      BY <1>2, Zenon
    <2> QED BY <1>2, <2>1, Zenon DEF Attends, Busy
  <1> QED BY <1>1, <1>2, Zenon

LEMMA ProgressKeepsRequests ==
  ASSUME TypeOK, RequestsOK, NEW q \in Requests, NEW r, Progress(q, r),
         UNCHANGED <<phase, waits>>
  PROVE  RequestsTyped' /\ CallersTyped' /\ RequestsOK'
  <1>1. r \in {Free} \cup Request /\ requests' = [requests EXCEPT ![q] = r]
    BY Zenon DEF Progress
  <1>2. requests \in [Requests -> {Free} \cup Request]
    BY Zenon DEF TypeOK, ServiceTypeOK
  <1>3. RequestsTyped'
    BY <1>1, <1>2, SMT DEF RequestsTyped
  <1>4. requests'[q] = r /\ \A p \in Requests \ {q} : requests'[p] = requests[p]
    BY <1>1, <1>2, SMT
  <1>5. ASSUME NEW i \in Intents PROVE Attends(i)'
    <2>1. Attends(i) /\ waits[i] \in Requests \cup {NoRequest}
      BY Zenon DEF TypeOK
    <2>2. CASE waits[i] = q
      BY <1>4, <2>1, <2>2, Zenon DEF Attends, Busy, Progress
    <2>3. CASE waits[i] # q
      BY <1>4, <2>1, <2>3, Zenon DEF Attends, Busy
    <2> QED BY <2>2, <2>3, Zenon
  <1>6. CallersTyped'
    BY <1>5, Zenon DEF CallersTyped, TypeOK
  <1>7. ASSUME NEW p \in Requests, Busy(p)' PROVE Sound(p, requests[p])'
    <2>1. CASE p = q
      BY <1>4, <1>7, <2>1, Zenon DEF Progress, Busy, Sound
    <2>2. CASE p # q
      BY <1>4, <1>7, <2>2, Zenon DEF RequestsOK, Busy, Sound
    <2> QED BY <2>1, <2>2, Zenon
  <1> QED BY <1>3, <1>6, <1>7, Zenon DEF RequestsOK

\* A caller's call: a free request becomes its own.
LEMMA CallKeepsRequests ==
  ASSUME TypeOK, RequestsOK, NEW i \in Intents, waits[i] = NoRequest, Calls(i),
         NEW to \in {"turn", "working"}, phase' = [phase EXCEPT ![i] = to]
  PROVE  RequestsTyped' /\ CallersTyped' /\ RequestsOK'
  <1> DEFINE new == [at |-> "arrived", op |-> FirstOp(i), intent |-> i, attended |-> TRUE,
                     answer |-> "OK", seen |-> CHOOSE f \in Flights : TRUE]
  <1>1. PICK q \in Requests : /\ requests[q] = Free
                              /\ requests' = [requests EXCEPT ![q] = new]
                              /\ waits' = [waits EXCEPT ![i] = q]
    BY Zenon DEF Calls, Arrive
  <1>2. /\ requests \in [Requests -> {Free} \cup Request]
        /\ phase \in [Intents -> Phases]
        /\ waits \in [Intents -> Requests \cup {NoRequest}]
    BY Zenon DEF TypeOK, ServiceTypeOK
  <1>3. (CHOOSE f \in Flights : TRUE) \in Flights
    BY BookingsAssumption, Zenon
  <1>4. new \in Request
    BY <1>3, SMT DEF Request, Handling, Ops, FirstOp, Answers
  <1>5. new # Free
    BY <1>4, FreeIsNoRequest, Zenon
  <1>6. requests'[q] = new /\ \A p \in Requests \ {q} : requests'[p] = requests[p]
    BY <1>1, <1>2, SMT
  <1>7. /\ waits'[i] = q /\ phase'[i] = to
        /\ \A j \in Intents \ {i} : waits'[j] = waits[j] /\ phase'[j] = phase[j]
    BY <1>1, <1>2, SMT
  <1>8. RequestsTyped'
    BY <1>1, <1>2, <1>4, SMT DEF RequestsTyped
  <1>9. ASSUME NEW j \in Intents PROVE Attends(j)'
    <2>1. Attends(j) /\ waits[j] \in Requests \cup {NoRequest}
      BY Zenon DEF TypeOK
    <2>2. CASE j = i
      <3>1. waits'[j] = q /\ q # NoRequest /\ phase'[j] \in {"turn", "working"}
        BY <1>7, <2>2, IntentsAssumption, Zenon
      <3>2. new.intent = j /\ new.attended
        BY <2>2, SMT
      <3>3. requests'[waits'[j]] = new
        BY <1>6, <3>1, Zenon
      <3> HIDE DEF new
      <3>4. requests'[waits'[j]].intent = j /\ requests'[waits'[j]].attended
              /\ requests'[waits'[j]] # Free
        BY <1>5, <3>2, <3>3, Zenon
      <3> QED BY <3>1, <3>4, Zenon DEF Attends, Busy
    <2>3. CASE j # i
      <3>1. waits[j] # q
        BY <1>1, <2>1, IntentsAssumption, Zenon DEF Attends, Busy
      <3>2. waits[j] # NoRequest => requests'[waits[j]] = requests[waits[j]]
        BY <1>6, <2>1, <3>1, Zenon
      <3> QED BY <1>7, <2>1, <2>3, <3>2, OthersAttend, Zenon
    <2> QED BY <2>2, <2>3, Zenon
  <1>10. phase' \in [Intents -> Phases] /\ waits' \in [Intents -> Requests \cup {NoRequest}]
    BY <1>1, <1>2, SMT DEF Phases
  <1>11. CallersTyped'
    BY <1>9, <1>10, Zenon DEF CallersTyped
  <1>12. ASSUME NEW p \in Requests, Busy(p)' PROVE Sound(p, requests[p])'
    <2>1. CASE p = q
      BY <1>6, <1>7, <2>1, IntentsAssumption, SMT DEF Sound, FirstOp, Handling
    <2>2. CASE p # q
      <3>1. Busy(p) /\ Sound(p, requests[p]) /\ requests[p] \in Request
        BY <1>6, <1>12, <2>2, BusyIsRequest, Zenon DEF RequestsOK, Busy
      <3>2. requests[p].intent \in Intents
        BY <3>1, SMT DEF Request
      <3>3. requests[p].attended => requests[p].intent # i
        BY <3>1, IntentsAssumption, Zenon DEF Sound
      <3> QED BY <1>6, <1>7, <2>2, <3>1, <3>2, <3>3, Zenon DEF Sound
    <2> QED BY <2>1, <2>2, Zenon
  <1> QED BY <1>8, <1>11, <1>12, Zenon DEF RequestsOK

LEMMA AbandonedIsRequest ==
  ASSUME NEW r \in Request
  PROVE  [r EXCEPT !.attended = FALSE] \in Request
  <1>1. \A v \in BOOLEAN : [r EXCEPT !.attended = v] \in Request
    BY SMT DEF Request
  <1> QED BY <1>1, Zenon

\* A caller leaves its request, which goes on if its handler is running.
LEMMA EndKeepsRequests ==
  ASSUME TypeOK, RequestsOK, NEW i \in Intents, waits[i] # NoRequest,
         NEW to \in Phases \ {"turn", "working"}, Ends(i, to)
  PROVE  RequestsTyped' /\ CallersTyped' /\ RequestsOK'
  <1> DEFINE q == waits[i]
             new == IF requests[q].at \in Handling
                      THEN [requests[q] EXCEPT !.attended = FALSE] ELSE Free
  <1>1. /\ requests \in [Requests -> {Free} \cup Request]
        /\ phase \in [Intents -> Phases]
        /\ waits \in [Intents -> Requests \cup {NoRequest}]
        /\ q \in Requests /\ Attends(i)
    BY Zenon DEF TypeOK, ServiceTypeOK
  <1>2. /\ Busy(q) /\ requests[q] \in Request /\ Sound(q, requests[q])
        /\ requests[q].intent = i /\ requests[q].attended
    BY <1>1, BusyIsRequest, Zenon DEF Attends, RequestsOK
  <1>3. /\ requests' = [requests EXCEPT ![q] = new] /\ requests'[q] = new
        /\ \A p \in Requests \ {q} : requests'[p] = requests[p]
    <2>1. requests' = [requests EXCEPT ![q] = new]
      BY Zenon DEF Ends, Abandon
    <2> HIDE DEF new
    <2> QED BY <1>1, <2>1, SMT
  <1>4. /\ waits'[i] = NoRequest /\ phase'[i] = to
        /\ \A j \in Intents \ {i} : waits'[j] = waits[j] /\ phase'[j] = phase[j]
    BY <1>1, SMT DEF Ends
  <1>5. [requests[q] EXCEPT !.attended = FALSE] \in Request
    BY <1>2, AbandonedIsRequest, Zenon
  <1>6. new \in {Free} \cup Request
    BY <1>5, Zenon
  <1>7. RequestsTyped'
    <2> HIDE DEF new
    <2> QED BY <1>1, <1>3, <1>6, SMT DEF RequestsTyped
  <1>8. ASSUME NEW j \in Intents PROVE Attends(j)'
    <2>1. Attends(j) /\ waits[j] \in Requests \cup {NoRequest}
      BY Zenon DEF TypeOK
    <2>2. CASE j = i
      BY <1>4, <2>2, Zenon DEF Attends
    <2>3. CASE j # i
      <3>1. waits[j] # q
        BY <1>2, <2>1, <2>3, Zenon DEF Attends
      <3>2. waits[j] # NoRequest => requests'[waits[j]] = requests[waits[j]]
        BY <1>3, <2>1, <3>1, Zenon
      <3> QED BY <1>4, <2>1, <2>3, <3>2, OthersAttend, Zenon
    <2> QED BY <2>2, <2>3, Zenon
  <1>9. phase' \in [Intents -> Phases] /\ waits' \in [Intents -> Requests \cup {NoRequest}]
    BY <1>1, SMT DEF Ends
  <1>10. CallersTyped'
    BY <1>8, <1>9, Zenon DEF CallersTyped
  <1>11. ASSUME NEW p \in Requests, Busy(p)' PROVE Sound(p, requests[p])'
    <2>1. CASE p = q
      <3>1. requests[q].at \in Handling
        BY <1>3, <1>11, <2>1, Zenon DEF Busy
      <3>2. requests'[q] = [requests[q] EXCEPT !.attended = FALSE]
        BY <1>3, <3>1, Zenon
      <3> QED BY <1>2, <2>1, <3>1, <3>2, SMT DEF Sound, Request
    <2>2. CASE p # q
      <3>1. Busy(p) /\ Sound(p, requests[p]) /\ requests[p] \in Request
        BY <1>3, <1>11, <2>2, BusyIsRequest, Zenon DEF RequestsOK, Busy
      <3>2. requests[p].intent \in Intents
        BY <3>1, SMT DEF Request
      <3>3. requests[p].attended => requests[p].intent # i
        BY <2>2, <3>1, Zenon DEF Sound
      <3> QED BY <1>3, <1>4, <2>2, <3>1, <3>2, <3>3, Zenon DEF Sound
    <2> QED BY <2>1, <2>2, Zenon
  <1> QED BY <1>7, <1>10, <1>11, Zenon DEF RequestsOK

\* The second call of a reschedule takes the first one's place.
LEMMA GoesOnKeepsRequests ==
  ASSUME TypeOK, RequestsOK, NEW i \in Intents, GoesOn(i)
  PROVE  RequestsTyped' /\ CallersTyped' /\ RequestsOK'
  <1> DEFINE q == waits[i]
             new == [at |-> "arrived", op |-> "reschedule", intent |-> i, attended |-> TRUE,
                     answer |-> "OK", seen |-> CHOOSE f \in Flights : TRUE]
  <1>1. /\ requests \in [Requests -> {Free} \cup Request]
        /\ q \in Requests /\ Attends(i)
    BY Zenon DEF TypeOK, ServiceTypeOK, GoesOn, Answered
  <1>2. /\ Busy(q) /\ requests[q] \in Request /\ Sound(q, requests[q])
        /\ requests[q].intent = i
    BY <1>1, BusyIsRequest, Zenon DEF Attends, RequestsOK, GoesOn, Answered
  <1>3. requests[q].op = "options" /\ OpOf[i] # "cancel"
    BY <1>2, SMT DEF GoesOn, OnOptions, Sound
  <1>4. (CHOOSE f \in Flights : TRUE) \in Flights
    BY BookingsAssumption, Zenon
  <1>5. new \in Request
    BY <1>2, <1>4, SMT DEF Request, Handling, Ops, Answers
  <1>6. new # Free
    BY <1>5, FreeIsNoRequest, Zenon
  <1>7. requests' = [requests EXCEPT ![q] = new] /\ UNCHANGED <<phase, waits>>
    BY Zenon DEF GoesOn, Arrive, callers
  <1>8. requests'[q] = new /\ \A p \in Requests \ {q} : requests'[p] = requests[p]
    BY <1>1, <1>7, SMT
  <1>9. RequestsTyped'
    BY <1>1, <1>5, <1>7, SMT DEF RequestsTyped
  <1>10. ASSUME NEW j \in Intents PROVE Attends(j)'
    <2>1. Attends(j) /\ waits[j] \in Requests \cup {NoRequest}
      BY Zenon DEF TypeOK
    <2>2. CASE j = i
      <3>1. new.intent = j /\ new.attended
        BY <2>2, SMT
      <3>2. requests'[waits[j]] = new
        BY <1>8, <2>2, Zenon
      <3> HIDE DEF new
      <3>3. requests'[waits[j]].intent = j /\ requests'[waits[j]].attended
              /\ requests'[waits[j]] # Free
        BY <1>6, <3>1, <3>2, Zenon
      <3> QED BY <1>7, <2>1, <3>3, Zenon DEF Attends, Busy
    <2>3. CASE j # i
      <3>1. waits[j] # q \/ waits[j] = NoRequest
        BY <1>2, <2>1, <2>3, Zenon DEF Attends
      <3> QED BY <1>7, <1>8, <2>1, <3>1, Zenon DEF Attends, Busy
    <2> QED BY <2>2, <2>3, Zenon
  <1>11. CallersTyped'
    BY <1>7, <1>10, Zenon DEF CallersTyped, TypeOK
  <1>12. ASSUME NEW p \in Requests, Busy(p)' PROVE Sound(p, requests[p])'
    <2>1. CASE p = q
      BY <1>3, <1>7, <1>8, <2>1, SMT DEF Sound, Handling
    <2>2. CASE p # q
      BY <1>7, <1>8, <1>12, <2>2, Zenon DEF RequestsOK, Busy, Sound
    <2> QED BY <2>1, <2>2, Zenon
  <1> QED BY <1>9, <1>11, <1>12, Zenon DEF RequestsOK

-----------------------------------------------------------------------------
(* The tables stay well-typed, and cancelled_at is set exactly on cancelled rows. *)

BookingRow == [status : BookingStatus, flight : Flights, cancelledAt : BOOLEAN]

TablesTyped == /\ booking \in [Bookings -> BookingRow]
               /\ refunds \in [Bookings -> Nat] /\ away \in [Flights -> 0..3]
               /\ carried \in [Intents -> Nat] /\ faults \in 0..MaxFaults

\* The two UPDATEs, as they change a row.
Cancelled(r) == [r EXCEPT !.status = "CANCELLED", !.cancelledAt = TRUE]
Rescheduled(r, f) == [r EXCEPT !.status = "RESCHEDULED", !.flight = f]

LEMMA CancelledRow ==
  ASSUME NEW r \in BookingRow
  PROVE  /\ Cancelled(r) \in BookingRow /\ Cancelled(r).status = "CANCELLED"
         /\ Cancelled(r).cancelledAt /\ Cancelled(r).flight = r.flight
  <1>1. \A s \in BookingRow : [s EXCEPT !.status = "CANCELLED"] \in BookingRow
    BY SMT DEF BookingRow, BookingStatus
  <1>2. \A s \in BookingRow, v \in BOOLEAN : [s EXCEPT !.cancelledAt = v] \in BookingRow
    BY SMT DEF BookingRow
  <1>3. Cancelled(r) = [[r EXCEPT !.status = "CANCELLED"] EXCEPT !.cancelledAt = TRUE]
    BY SMT DEF Cancelled, BookingRow
  <1>4. Cancelled(r) \in BookingRow
    BY <1>1, <1>2, <1>3, Zenon
  <1>5. /\ Cancelled(r).status = "CANCELLED" /\ Cancelled(r).cancelledAt = TRUE
        /\ Cancelled(r).flight = r.flight
    BY SMT DEF Cancelled, BookingRow
  <1> QED BY <1>4, <1>5, Zenon

LEMMA RescheduledRow ==
  ASSUME NEW r \in BookingRow, NEW f \in Flights
  PROVE  /\ Rescheduled(r, f) \in BookingRow
         /\ Rescheduled(r, f).status = "RESCHEDULED"
         /\ Rescheduled(r, f).cancelledAt = r.cancelledAt
  <1>1. \A s \in BookingRow : [s EXCEPT !.status = "RESCHEDULED"] \in BookingRow
    BY SMT DEF BookingRow, BookingStatus
  <1>2. \A s \in BookingRow : [s EXCEPT !.flight = f] \in BookingRow
    BY SMT DEF BookingRow
  <1>3. Rescheduled(r, f) = [[r EXCEPT !.status = "RESCHEDULED"] EXCEPT !.flight = f]
    BY SMT DEF Rescheduled, BookingRow
  <1>4. Rescheduled(r, f) \in BookingRow
    BY <1>1, <1>2, <1>3, Zenon
  <1>5. /\ Rescheduled(r, f).status = "RESCHEDULED"
        /\ Rescheduled(r, f).cancelledAt = r.cancelledAt
    BY SMT DEF Rescheduled, BookingRow
  <1> QED BY <1>4, <1>5, Zenon

\* What an admitted request is about is a booking, and an intent's.
LEMMA RequestSubject ==
  ASSUME TypeOK, RequestsOK, NEW q \in Requests, Busy(q)
  PROVE  /\ requests[q].intent \in Intents
         /\ requests[q].at \in {"loaded", "update", "refund"} => Subject(q) \in Bookings
         /\ requests[q].at = "update" /\ requests[q].op = "reschedule" => Wanted(q) \in Flights
  <1>1. requests[q] \in Request /\ Sound(q, requests[q])
    BY BusyIsRequest, Zenon DEF RequestsOK
  <1> QED BY <1>1, SMT DEF Sound, Subject, Wanted, Request

LEMMA CarryTyped ==
  ASSUME TypeOK, RequestsOK, NEW q \in Requests, Busy(q), Carry(q)
  PROVE  carried' \in [Intents -> Nat]
  BY RequestSubject, SMT DEF Carry, TypeOK, ServiceTypeOK

LEMMA RowUpdateTyped ==
  ASSUME NEW rows \in [Bookings -> BookingRow], NEW b \in Bookings, NEW r \in BookingRow
  PROVE  [rows EXCEPT ![b] = r] \in [Bookings -> BookingRow]
  BY SMT

LEMMA CancelKeepsTables ==
  ASSUME TypeOK, RequestsOK, RowsOK, NEW q \in Requests, CancelUpdates(q)
  PROVE  TablesTyped' /\ RowsOK'
  <1>1. Busy(q) /\ Subject(q) \in Bookings
    BY RequestSubject, SMT DEF CancelUpdates, At
  <1>2. booking \in [Bookings -> BookingRow]
    BY Zenon DEF TypeOK, ServiceTypeOK, BookingRow
  <1>3. booking' = [booking EXCEPT ![Subject(q)] = Cancelled(booking[Subject(q)])]
    BY Zenon DEF CancelUpdates, Cancelled
  <1>4. booking[Subject(q)] \in BookingRow
    BY <1>1, <1>2, Zenon
  <1>5. booking' \in [Bookings -> BookingRow]
    <2>1. Cancelled(booking[Subject(q)]) \in BookingRow
      BY <1>4, CancelledRow, Zenon
    <2> QED BY <1>1, <1>2, <1>3, <2>1, RowUpdateTyped, Zenon
  <1>6. RowsOK'
    BY <1>1, <1>2, <1>3, <1>4, CancelledRow, Zenon DEF RowsOK
  <1>7. carried' \in [Intents -> Nat]
    BY <1>1, CarryTyped, Zenon DEF CancelUpdates
  <1> QED BY <1>5, <1>6, <1>7, Zenon DEF TablesTyped, TypeOK, ServiceTypeOK, CancelUpdates

LEMMA RescheduleKeepsTables ==
  ASSUME TypeOK, RequestsOK, RowsOK, NEW q \in Requests, RescheduleUpdates(q)
  PROVE  TablesTyped' /\ RowsOK'
  <1>1. Busy(q) /\ Subject(q) \in Bookings /\ Wanted(q) \in Flights
    BY RequestSubject, SMT DEF RescheduleUpdates, At
  <1>2. booking \in [Bookings -> BookingRow]
    BY Zenon DEF TypeOK, ServiceTypeOK, BookingRow
  <1>3. CASE Row(q).cancelledAt
    BY <1>2, <1>3, Zenon
      DEF RescheduleUpdates, TablesTyped, RowsOK, TypeOK, ServiceTypeOK
  <1>4. CASE ~Row(q).cancelledAt
    <2>1. booking' = [booking EXCEPT ![Subject(q)] = Rescheduled(booking[Subject(q)], Wanted(q))]
      BY <1>4, Zenon DEF RescheduleUpdates, Rescheduled
    <2>2. booking[Subject(q)] \in BookingRow
      BY <1>1, <1>2, Zenon
    <2>3. booking' \in [Bookings -> BookingRow]
      <3>1. Rescheduled(booking[Subject(q)], Wanted(q)) \in BookingRow
        BY <1>1, <2>2, RescheduledRow, Zenon
      <3> QED BY <1>1, <1>2, <2>1, <3>1, RowUpdateTyped, Zenon
    <2>4. "RESCHEDULED" # "CANCELLED"
      OBVIOUS
    <2>5. RowsOK'
      BY <1>1, <1>2, <1>4, <2>1, <2>2, <2>4, RescheduledRow, Zenon DEF RowsOK, Row
    <2>6. carried' \in [Intents -> Nat]
      BY <1>1, <1>4, CarryTyped, Zenon DEF RescheduleUpdates
    <2> QED BY <2>3, <2>5, <2>6, Zenon DEF TablesTyped, TypeOK, ServiceTypeOK, RescheduleUpdates
  <1> QED BY <1>3, <1>4, Zenon

LEMMA ServiceKeepsTables ==
  ASSUME TypeOK, RequestsOK, RowsOK, ServiceNext
  PROVE  TablesTyped' /\ RowsOK'
  <1>1. TablesTyped
    BY Zenon DEF TablesTyped, TypeOK, ServiceTypeOK, BookingRow
  <1>2. ASSUME NEW q \in Requests, HandlerStep(q) PROVE TablesTyped' /\ RowsOK'
    <2>1. CASE CancelUpdates(q)
      BY <2>1, CancelKeepsTables, Zenon
    <2>2. CASE RescheduleUpdates(q)
      BY <2>2, RescheduleKeepsTables, Zenon
    <2>3. CASE InsertRefund(q)
      <3>1. Subject(q) \in Bookings
        BY <2>3, RequestSubject, SMT DEF InsertRefund, At
      <3>2. refunds' \in [Bookings -> Nat]
        BY <1>1, <2>3, <3>1, SMT DEF InsertRefund, TablesTyped
      <3> QED BY <1>1, <2>3, <3>2, Zenon DEF InsertRefund, TablesTyped, RowsOK
    <2>4. CASE UNCHANGED <<booking, refunds, away, carried, faults>>
      BY <1>1, <2>4, Zenon DEF TablesTyped, RowsOK
    <2> QED BY <1>2, <2>1, <2>2, <2>3, <2>4, Zenon
          DEF HandlerStep, ChaosAnswers, ChaosHangs, HangEnds, CancelLoads, LoadBooking,
              ListOptions, CheckTarget
  <1>3. ASSUME NEW q \in Requests, HandlerFails(q) PROVE TablesTyped' /\ RowsOK'
    <2>1. faults' \in 0..MaxFaults
      BY <1>1, <1>3, BoundsAssumption, SMT DEF HandlerFails, TablesTyped
    <2> QED BY <1>1, <1>3, <2>1, Zenon DEF HandlerFails, TablesTyped, RowsOK
  <1>4. ASSUME NEW f \in Flights, TimePasses(f) PROVE TablesTyped' /\ RowsOK'
    <2>1. away' \in [Flights -> 0..3]
      BY <1>1, <1>4, BoundsAssumption, SMT DEF TimePasses, TablesTyped
    <2> QED BY <1>1, <1>4, <2>1, Zenon DEF TimePasses, TablesTyped, RowsOK
  <1> QED BY <1>2, <1>3, <1>4, Zenon DEF ServiceNext

-----------------------------------------------------------------------------
(* The inductive invariant. *)

LEMMA InitEstablishesInvariant == Init => IInv
  <1> SUFFICES ASSUME Init PROVE IInv
    OBVIOUS
  <1>1. PICK s \in [Bookings -> {"CONFIRMED", "CANCELLED", "COMPLETED"}] :
          /\ booking = [b \in Bookings |-> [status |-> s[b], flight |-> FlightOf[b],
                                             cancelledAt |-> s[b] = "CANCELLED"]]
          /\ refunds = [b \in Bookings |->
                           IF s[b] = "CANCELLED" /\ b \in Refundable THEN 1 ELSE 0]
    BY Zenon DEF Init, ServiceInit
  <1>2. ASSUME NEW b \in Bookings
        PROVE  /\ booking[b] \in BookingRow /\ refunds[b] \in Nat
               /\ booking[b].status = "CANCELLED" <=> booking[b].cancelledAt
    <2>1. s[b] \in BookingStatus /\ FlightOf[b] \in Flights
      BY BookingsAssumption, SMT DEF BookingStatus
    <2>2. \A c \in BOOLEAN : [status |-> s[b], flight |-> FlightOf[b], cancelledAt |-> c]
                               \in BookingRow
      BY <2>1, SMT DEF BookingRow
    <2>3. (s[b] = "CANCELLED") \in BOOLEAN
      OBVIOUS
    <2>4. booking[b] = [status |-> s[b], flight |-> FlightOf[b],
                        cancelledAt |-> s[b] = "CANCELLED"]
      BY <1>1, Zenon
    <2>5. booking[b] \in BookingRow
      BY <2>2, <2>3, <2>4, Zenon
    <2>6. booking[b].status = s[b]
      BY <2>4, SMT
    <2>7. booking[b].cancelledAt = (s[b] = "CANCELLED")
      BY <2>4, SMT
    <2>8. refunds[b] \in Nat
      BY <1>1, SMT
    <2> QED BY <2>5, <2>6, <2>7, <2>8, Zenon
  <1>3. booking \in [Bookings -> BookingRow] /\ refunds \in [Bookings -> Nat]
    BY <1>1, <1>2, SMT
  <1>4. /\ away \in [Flights -> 0..3] /\ carried \in [Intents -> Nat]
        /\ faults \in 0..MaxFaults /\ attempt \in [Intents -> Nat]
        /\ crashes \in 0..MaxCrashes /\ requeues \in 0..MaxRequeues
    BY BoundsAssumption, AttemptsAssumption, SMT DEF Init, ServiceInit
  <1>5. /\ requests = [q \in Requests |-> Free] /\ phase = [i \in Intents |-> "unasked"]
        /\ waits = [i \in Intents |-> NoRequest]
    BY Zenon DEF Init, ServiceInit
  <1>6. requests \in [Requests -> {Free} \cup Request] /\ \A q \in Requests : ~Busy(q)
    BY <1>5, Zenon DEF Busy
  <1>7. phase \in [Intents -> Phases] /\ waits \in [Intents -> Requests \cup {NoRequest}]
    BY <1>5, SMT DEF Phases
  <1>8. \A i \in Intents : Attends(i)
    <2>1. \A i \in Intents : phase[i] = "unasked" /\ waits[i] = NoRequest
      BY <1>5, Zenon
    <2>2. "unasked" \notin {"turn", "working"}
      OBVIOUS
    <2> QED BY <2>1, <2>2, Zenon DEF Attends
  <1> QED BY <1>2, <1>3, <1>4, <1>6, <1>7, <1>8, Zenon
        DEF IInv, TypeOK, ServiceTypeOK, BookingRow, RequestsOK, RowsOK

\* Untouched tables and counters that stay typed: the rest of a caller's step.
CountersTyped == /\ attempt \in [Intents -> Nat]
                 /\ crashes \in 0..MaxCrashes /\ requeues \in 0..MaxRequeues

LEMMA PartsMakeInvariant ==
  ASSUME IInv, RequestsTyped', CallersTyped', RequestsOK', CountersTyped',
         UNCHANGED <<booking, refunds, away, carried, faults>>
  PROVE  IInv'
  BY Zenon DEF IInv, TypeOK, ServiceTypeOK, RequestsTyped, CallersTyped, CountersTyped, RowsOK

LEMMA SettlingKeepsRequests ==
  ASSUME TypeOK, RequestsOK, NEW i \in Intents, phase[i] \notin {"turn", "working"},
         phase' = [phase EXCEPT ![i] = "waiting"], UNCHANGED <<requests, waits>>
  PROVE  RequestsTyped' /\ CallersTyped' /\ RequestsOK'
  <1>1. phase \in [Intents -> Phases]
    BY Zenon DEF TypeOK
  <1>2. phase'[i] = "waiting" /\ \A j \in Intents \ {i} : phase'[j] = phase[j]
    BY <1>1, SMT
  <1>3. phase' \in [Intents -> Phases]
    BY <1>1, SMT DEF Phases
  <1>4. ASSUME NEW j \in Intents PROVE Attends(j)'
    <2>1. Attends(j)
      BY Zenon DEF TypeOK
    <2>2. CASE j = i
      <3>1. waits'[j] = NoRequest
        BY <2>1, <2>2, Zenon DEF Attends
      <3>2. phase'[j] \notin {"turn", "working"}
        BY <1>2, <2>2, SMT
      <3> QED BY <3>1, <3>2, Zenon DEF Attends
    <2>3. CASE j # i
      BY <1>2, <2>1, <2>3, OthersAttend, Zenon
    <2> QED BY <2>2, <2>3, Zenon
  <1>5. CallersTyped' /\ RequestsTyped'
    BY <1>3, <1>4, Zenon DEF CallersTyped, RequestsTyped, TypeOK, ServiceTypeOK
  <1>6. RequestsOK'
    BY Zenon DEF RequestsOK, Busy, Sound
  <1> QED BY <1>5, <1>6, Zenon

LEMMA CallerKeepsInvariant ==
  ASSUME IInv, NEW i \in Intents,
         Ask(i) \/ CallerStep(i) \/ TurnDies(i) \/ WorkerDies(i) \/ Requeue(i)
  PROVE  IInv'
  <1>a. TypeOK /\ RequestsOK /\ Attends(i) /\ CountersTyped
    BY Zenon DEF IInv, TypeOK, CountersTyped
  <1>b. phase[i] \in {"turn", "working"} => waits[i] # NoRequest
    BY <1>a, Zenon DEF Attends
  <1>c. \A n \in Nat : [attempt EXCEPT ![i] = n] \in [Intents -> Nat]
    BY <1>a, SMT DEF CountersTyped
  <1>d. 0 \in Nat /\ attempt[i] + 1 \in Nat
    BY <1>a, SMT DEF CountersTyped
  <1>e. /\ crashes < MaxCrashes => crashes + 1 \in 0..MaxCrashes
        /\ requeues < MaxRequeues => requeues + 1 \in 0..MaxRequeues
    BY <1>a, AttemptsAssumption, SMT DEF CountersTyped
  <1>f. /\ "turn" \in {"turn", "working"} /\ "working" \in {"turn", "working"}
        /\ {"confirmed", "declined", "waiting", "orphaned", "done", "failed", "dead"}
              \subseteq Phases \ {"turn", "working"}
    BY SMT DEF Phases
  <1>1. CASE Ask(i)
    <2>1. phase[i] = "unasked" /\ phase' = [phase EXCEPT ![i] = "turn"] /\ Calls(i)
      BY <1>1, Zenon DEF Ask
    <2>2. waits[i] = NoRequest
      <3>1. phase[i] \notin {"turn", "working"}
        BY <2>1, SMT
      <3> QED BY <1>a, <3>1, Zenon DEF Attends
    <2>3. CountersTyped' /\ UNCHANGED <<booking, refunds, away, carried, faults>>
      BY <1>a, <1>1, Zenon DEF Ask, CountersTyped
    <2> QED BY <1>a, <1>f, <2>1, <2>2, <2>3, CallKeepsRequests, PartsMakeInvariant, Zenon
  <1>2. CASE Take(i)
    <2>1. phase[i] = "waiting" /\ phase' = [phase EXCEPT ![i] = "working"] /\ Calls(i)
      BY <1>2, Zenon DEF Take
    <2>2. waits[i] = NoRequest
      <3>1. phase[i] \notin {"turn", "working"}
        BY <2>1, SMT
      <3> QED BY <1>a, <3>1, Zenon DEF Attends
    <2>3. CountersTyped' /\ UNCHANGED <<booking, refunds, away, carried, faults>>
      BY <1>a, <1>c, <1>d, <1>2, Zenon DEF Take, CountersTyped
    <2> QED BY <1>a, <1>f, <2>1, <2>2, <2>3, CallKeepsRequests, PartsMakeInvariant, Zenon
  <1>3. CASE GoesOn(i)
    <2>1. CountersTyped' /\ UNCHANGED <<booking, refunds, away, carried, faults>>
      BY <1>a, <1>3, Zenon DEF GoesOn, callers, CountersTyped
    <2> QED BY <1>a, <1>3, <2>1, GoesOnKeepsRequests, PartsMakeInvariant, Zenon
  <1>4. ASSUME NEW to \in Phases \ {"turn", "working"}, Ends(i, to),
               phase[i] \in {"turn", "working"}, CountersTyped'
        PROVE  IInv'
    <2>1. UNCHANGED <<booking, refunds, away, carried, faults>>
      BY <1>4, Zenon DEF Ends
    <2> QED BY <1>a, <1>b, <1>4, <2>1, EndKeepsRequests, PartsMakeInvariant, Zenon
  <1>5. CASE TurnSucceeds(i)
    BY <1>a, <1>f, <1>4, <1>5, Zenon DEF TurnSucceeds, CountersTyped
  <1>6. CASE TurnFails(i)
    BY <1>a, <1>f, <1>4, <1>6, Zenon DEF TurnFails, CountersTyped
  <1>7. CASE TurnEnqueues(i)
    BY <1>a, <1>f, <1>4, <1>7, Zenon DEF TurnEnqueues, CountersTyped
  <1>8. CASE TurnDies(i)
    BY <1>a, <1>e, <1>f, <1>4, <1>8, Zenon DEF TurnDies, CountersTyped
  <1>9. CASE JobSucceeds(i)
    BY <1>a, <1>f, <1>4, <1>9, Zenon DEF JobSucceeds, CountersTyped
  <1>10. CASE JobFails(i)
    <2>1. PICK f \in Failures :
            Ends(i, IF ~Classify(f) THEN "failed"
                    ELSE IF attempt[i] < MaxAttempts THEN "waiting" ELSE "dead")
      BY <1>10, Zenon DEF JobFails
    <2>2. Ends(i, "failed") \/ Ends(i, "waiting") \/ Ends(i, "dead")
      BY <2>1, Zenon
    <2> QED BY <1>a, <1>f, <1>4, <1>10, <2>2, Zenon DEF JobFails, CountersTyped
  <1>11. CASE WorkerDies(i)
    BY <1>a, <1>e, <1>f, <1>4, <1>11, Zenon DEF WorkerDies, CountersTyped
  <1>12. CASE Recover(i)
    <2>1. phase[i] \notin {"turn", "working"}
      BY <1>12, SMT DEF Recover
    <2>2. /\ phase' = [phase EXCEPT ![i] = "waiting"] /\ UNCHANGED <<requests, waits>>
          /\ CountersTyped' /\ UNCHANGED <<booking, refunds, away, carried, faults>>
      BY <1>a, <1>12, Zenon DEF Recover, service, CountersTyped
    <2> QED BY <1>a, <2>1, <2>2, SettlingKeepsRequests, PartsMakeInvariant, Zenon
  <1>13. CASE Requeue(i)
    <2>1. phase[i] \notin {"turn", "working"}
      BY <1>13, SMT DEF Requeue
    <2>2. /\ phase' = [phase EXCEPT ![i] = "waiting"] /\ UNCHANGED <<requests, waits>>
          /\ UNCHANGED <<booking, refunds, away, carried, faults>>
      BY <1>13, Zenon DEF Requeue, service
    <2>3. CountersTyped'
      BY <1>a, <1>c, <1>d, <1>e, <1>13, Zenon DEF Requeue, CountersTyped
    <2> QED BY <1>a, <2>1, <2>2, <2>3, SettlingKeepsRequests, PartsMakeInvariant, Zenon
  <1> QED BY <1>1, <1>2, <1>3, <1>5, <1>6, <1>7, <1>8, <1>9, <1>10, <1>11, <1>12, <1>13, Zenon
        DEF CallerStep

LEMMA ServiceKeepsInvariant ==
  ASSUME IInv, ServiceNext, UNCHANGED callers
  PROVE  IInv'
  <1>1. TypeOK /\ RequestsOK /\ RowsOK
    BY Zenon DEF IInv
  <1>2. RequestsTyped' /\ CallersTyped' /\ RequestsOK'
    <2>1. UNCHANGED <<phase, waits>>
      BY Zenon DEF callers
    <2>2. CASE \E q \in Requests : HandlerStep(q) \/ HandlerFails(q)
      BY <1>1, <2>1, <2>2, HandlerProgress, ProgressKeepsRequests, Zenon
    <2>3. CASE \E f \in Flights : TimePasses(f)
      <3>1. UNCHANGED requests
        BY <2>3, Zenon DEF TimePasses
      <3> QED BY <1>1, <2>1, <3>1, Zenon DEF RequestsTyped, CallersTyped, RequestsOK, TypeOK,
                ServiceTypeOK, Attends, Busy, Sound
    <2> QED BY <2>2, <2>3, Zenon DEF ServiceNext
  <1>3. TablesTyped' /\ RowsOK'
    BY <1>1, ServiceKeepsTables, Zenon
  <1> QED BY <1>1, <1>2, <1>3, Zenon DEF callers, IInv, TypeOK, ServiceTypeOK, TablesTyped,
        BookingRow, RequestsTyped, CallersTyped

LEMMA StutterKeepsInvariant ==
  ASSUME IInv, UNCHANGED vars
  PROVE  IInv'
  BY Zenon DEF vars, service, callers, IInv, TypeOK, ServiceTypeOK, RequestsOK, RowsOK,
    Attends, Busy, Sound

LEMMA StepKeepsInvariant == IInv /\ [Next]_vars => IInv'
  BY CallerKeepsInvariant, ServiceKeepsInvariant, StutterKeepsInvariant, Zenon DEF Next

\* The state of the service and of its callers is well-typed, whatever fails or dies.
THEOREM TypeCorrect == Spec => []TypeOK
  <1>1. IInv => TypeOK
    BY Zenon DEF IInv
  <1> QED BY <1>1, InitEstablishesInvariant, StepKeepsInvariant, PTL DEF Spec

LEMMA InvariantHolds == Spec => []IInv
  BY InitEstablishesInvariant, StepKeepsInvariant, PTL DEF Spec

\* However late a handler finishes, and whatever it read before, no step revives or
\* moves a cancelled booking.
THEOREM CancelledStaysFinal == Spec => CancelledIsFinal
  <1> DEFINE Stays(b) == booking[b].status = "CANCELLED" =>
                           booking'[b].status = "CANCELLED" /\ booking'[b].flight = booking[b].flight
  <1>1. ASSUME IInv, Next, NEW b \in Bookings PROVE Stays(b)
    <2>1. booking \in [Bookings -> BookingRow] /\ (booking[b].status = "CANCELLED" => booking[b].cancelledAt)
      BY <1>1, Zenon DEF IInv, TypeOK, ServiceTypeOK, BookingRow, RowsOK
    <2>2. CASE \E q \in Requests : CancelUpdates(q)
      <3>1. PICK q \in Requests : CancelUpdates(q)
        BY <2>2
      <3>2. booking' = [booking EXCEPT ![Subject(q)] = Cancelled(booking[Subject(q)])]
        BY <3>1, Zenon DEF CancelUpdates, Cancelled
      <3>3. booking'[b] = booking[b] \/ booking'[b] = Cancelled(booking[b])
        BY <2>1, <3>2, Zenon
      <3>4. booking[b] \in BookingRow
        BY <2>1, Zenon
      <3> QED BY <3>3, <3>4, CancelledRow, Zenon
    <2>3. CASE \E q \in Requests : RescheduleUpdates(q)
      <3>1. PICK q \in Requests : RescheduleUpdates(q)
        BY <2>3
      <3>2. CASE Row(q).cancelledAt
        BY <3>1, <3>2, Zenon DEF RescheduleUpdates
      <3>3. CASE ~Row(q).cancelledAt
        <4>1. booking' = [booking EXCEPT ![Subject(q)] =
                            [booking[Subject(q)] EXCEPT !.status = "RESCHEDULED", !.flight = Wanted(q)]]
          BY <3>1, <3>3, Zenon DEF RescheduleUpdates
        <4>2. b # Subject(q) => booking'[b] = booking[b]
          BY <2>1, <4>1, Zenon
        <4> QED BY <2>1, <3>3, <4>2, Zenon DEF Row
      <3> QED BY <3>2, <3>3, Zenon
    <2>4. CASE UNCHANGED booking
      BY <2>4, Zenon
    <2> QED BY <1>1, <2>2, <2>3, <2>4, Zenon
          DEF Next, ServiceNext, HandlerStep, HandlerFails, TimePasses, ChaosAnswers, ChaosHangs,
              HangEnds, CancelLoads, InsertRefund, LoadBooking, ListOptions, CheckTarget,
              Ask, CallerStep, TurnDies, WorkerDies, Requeue, GoesOn, TurnSucceeds, TurnFails,
              TurnEnqueues, Take, JobSucceeds, JobFails, Recover, Ends, service
  <1>2. IInv /\ [Next]_vars => [\A b \in Bookings : Stays(b)]_vars
    BY <1>1, Zenon
  <1> QED BY <1>2, InvariantHolds, PTL DEF Spec, CancelledIsFinal

-----------------------------------------------------------------------------
(* Patient callers: one try at a time. *)

LEMMA ProgressKeepsOneTry ==
  ASSUME TypeOK, OneTry, NEW q \in Requests, NEW r, Progress(q, r), UNCHANGED phase
  PROVE  OneTry'
  <1>1. requests'[q] = r /\ \A p \in Requests \ {q} : requests'[p] = requests[p]
    BY SMT DEF Progress, TypeOK, ServiceTypeOK
  <1>2. \A p \in Requests : Busy(p)' =>
          /\ Busy(p) /\ requests'[p].intent = requests[p].intent
          /\ requests'[p].attended = requests[p].attended
    BY <1>1, Zenon DEF Busy, Progress
  <1> QED BY <1>2, Zenon DEF OneTry

\* A call of an intent that neither calls nor has left a request running.
LEMMA CallKeepsOneTry ==
  ASSUME TypeOK, RequestsOK, OneTry, NEW i \in Intents, Calls(i), waits[i] = NoRequest,
         phase[i] \notin {"declined", "orphaned"},
         NEW to, phase' = [phase EXCEPT ![i] = to]
  PROVE  OneTry'
  <1>1. \A p \in Requests : Busy(p) => requests[p].intent # i
    BY IntentsAssumption, Zenon DEF RequestsOK, Sound, OneTry
  <1>2. PICK q \in Requests :
          /\ requests[q] = Free
          /\ requests' = [requests EXCEPT ![q] =
               [at |-> "arrived", op |-> FirstOp(i), intent |-> i, attended |-> TRUE,
                answer |-> "OK", seen |-> CHOOSE f \in Flights : TRUE]]
    BY Zenon DEF Calls, Arrive
  <1>3. /\ requests'[q].intent = i /\ requests'[q].attended
        /\ \A p \in Requests \ {q} : requests'[p] = requests[p]
    BY <1>2, SMT DEF TypeOK, ServiceTypeOK
  <1>4. \A p \in Requests \ {q} : Busy(p) => /\ requests[p].intent \in Intents
                                           /\ requests[p].intent # i
    BY <1>1, BusyIsRequest, SMT DEF Request
  <1>5. \A j \in Intents \ {i} : phase'[j] = phase[j]
    BY SMT DEF TypeOK
  <1>6. \A p \in Requests \ {q} : Busy(p)' =>
          /\ Busy(p) /\ requests'[p] = requests[p] /\ requests[p].intent # i
          /\ phase'[requests[p].intent] = phase[requests[p].intent]
    BY <1>3, <1>4, <1>5, Zenon DEF Busy
  <1>7. ASSUME NEW p \in Requests, Busy(p)', ~requests'[p].attended
        PROVE  phase'[requests'[p].intent] \in {"declined", "orphaned"}
    <2>1. p # q
      BY <1>3, <1>7, Zenon
    <2>2. Busy(p) /\ ~requests[p].attended /\ requests'[p] = requests[p]
      BY <1>6, <1>7, <2>1, Zenon
    <2>3. phase[requests[p].intent] \in {"declined", "orphaned"}
      BY <2>2, Zenon DEF OneTry
    <2>4. phase'[requests[p].intent] = phase[requests[p].intent]
      BY <1>6, <1>7, <2>1, Zenon
    <2> QED BY <2>2, <2>3, <2>4, Zenon
  <1>8. ASSUME NEW o \in Requests, NEW p \in Requests, Busy(o)', Busy(p)',
               requests'[o].intent = requests'[p].intent
        PROVE  o = p
    <2>1. CASE o # q /\ p # q
      BY <1>6, <1>8, <2>1, Zenon DEF OneTry
    <2>2. CASE o = q /\ p # q
      BY <1>3, <1>6, <1>8, <2>2, Zenon
    <2>3. CASE o # q /\ p = q
      BY <1>3, <1>6, <1>8, <2>3, Zenon
    <2> QED BY <2>1, <2>2, <2>3, Zenon
  <1> QED BY <1>7, <1>8, Zenon DEF OneTry

\* A caller leaves a running handler behind only if it will not call again.
LEMMA EndKeepsOneTry ==
  ASSUME TypeOK, RequestsOK, OneTry, NEW i \in Intents, waits[i] # NoRequest,
         NEW to, Ends(i, to),
         to \in {"declined", "orphaned"} \/ requests[waits[i]].at \notin Handling
  PROVE  OneTry'
  <1>0. PICK q \in Requests : q = waits[i]
    BY Zenon DEF TypeOK
  <1>1. /\ requests \in [Requests -> {Free} \cup Request] /\ q \in Requests
        /\ Busy(q) /\ requests[q].intent = i /\ phase \in [Intents -> Phases]
    BY <1>0, Zenon DEF TypeOK, ServiceTypeOK, Attends
  <1>2. requests[q] \in Request
    BY <1>1, BusyIsRequest, Zenon
  <1>3. \A p \in Requests \ {q} : requests'[p] = requests[p]
    BY <1>0, <1>1, Zenon DEF Ends, Abandon
  <1>4. phase'[i] = to /\ \A j \in Intents \ {i} : phase'[j] = phase[j]
    BY <1>1, Zenon DEF Ends
  <1>5. Busy(q)' => requests'[q].intent = i /\ to \in {"declined", "orphaned"}
    <2>1. CASE requests[q].at \in Handling
      <3>1. requests'[q] = [requests[q] EXCEPT !.attended = FALSE]
        BY <1>0, <1>1, <2>1, Zenon DEF Ends, Abandon
      <3> QED BY <1>0, <1>1, <1>2, <2>1, <3>1, SMT DEF Request
    <2>2. CASE requests[q].at \notin Handling
      <3>1. requests'[q] = Free
        BY <1>0, <1>1, <2>2, Zenon DEF Ends, Abandon
      <3> QED BY <3>1, Zenon DEF Busy
    <2> QED BY <2>1, <2>2, Zenon
  <1>6. \A p \in Requests \ {q} : Busy(p) => /\ requests[p].intent \in Intents
                                           /\ requests[p].intent # i
    <2>1. \A p \in Requests : Busy(p) => requests[p].intent \in Intents
      BY BusyIsRequest, SMT DEF Request
    <2> QED BY <1>1, <2>1, Zenon DEF OneTry
  <1>7. ASSUME NEW p \in Requests, Busy(p)', ~requests'[p].attended
        PROVE  phase'[requests'[p].intent] \in {"declined", "orphaned"}
    <2>1. CASE p = q
      BY <1>4, <1>5, <1>7, <2>1, Zenon
    <2>2. CASE p # q
      <3>1. Busy(p) /\ requests'[p] = requests[p]
        BY <1>3, <1>7, <2>2, Zenon DEF Busy
      <3>2. phase[requests[p].intent] \in {"declined", "orphaned"}
        BY <1>7, <3>1, Zenon DEF OneTry
      <3>3. phase'[requests[p].intent] = phase[requests[p].intent]
        BY <1>4, <1>6, <2>2, <3>1, Zenon
      <3> QED BY <3>1, <3>2, <3>3, Zenon
    <2> QED BY <2>1, <2>2, Zenon
  <1>8. ASSUME NEW o \in Requests, NEW p \in Requests, Busy(o)', Busy(p)',
               requests'[o].intent = requests'[p].intent
        PROVE  o = p
    <2>1. ASSUME NEW n \in Requests, Busy(n)'
          PROVE  Busy(n) /\ requests'[n].intent = requests[n].intent
      <3>1. CASE n = q
        BY <1>1, <1>5, <2>1, <3>1, Zenon
      <3>2. CASE n # q
        BY <1>3, <2>1, <3>2, Zenon DEF Busy
      <3> QED BY <3>1, <3>2, Zenon
    <2> QED BY <1>8, <2>1, Zenon DEF OneTry
  <1> QED BY <1>7, <1>8, Zenon DEF OneTry

LEMMA GoesOnKeepsOneTry ==
  ASSUME TypeOK, OneTry, NEW i \in Intents, GoesOn(i)
  PROVE  OneTry'
  <1> DEFINE q == waits[i]
  <1>1. /\ requests \in [Requests -> {Free} \cup Request] /\ q \in Requests
        /\ Busy(q) /\ requests[q].intent = i
    BY Zenon DEF TypeOK, ServiceTypeOK, Attends, GoesOn, Answered
  <1>2. /\ requests'[q].intent = i /\ requests'[q].attended
        /\ \A p \in Requests \ {q} : requests'[p] = requests[p]
    <2>1. requests' = [requests EXCEPT ![q] =
             [at |-> "arrived", op |-> "reschedule", intent |-> i, attended |-> TRUE,
              answer |-> "OK", seen |-> CHOOSE f \in Flights : TRUE]]
      BY Zenon DEF GoesOn, Arrive
    <2> QED BY <1>1, <2>1, SMT
  <1>3. UNCHANGED phase
    BY Zenon DEF GoesOn, callers
  <1>4. \A p \in Requests : Busy(p)' =>
          /\ Busy(p) /\ requests'[p].intent = requests[p].intent
          /\ requests'[p].attended \/ requests'[p].attended = requests[p].attended
    BY <1>1, <1>2, Zenon DEF Busy
  <1> QED BY <1>3, <1>4, Zenon DEF OneTry

\* A job put back has no request of its own running.
LEMMA SettlingKeepsOneTry ==
  ASSUME TypeOK, OneTry, NEW i \in Intents, phase' = [phase EXCEPT ![i] = "waiting"],
         UNCHANGED requests,
         \A q \in Requests : Busy(q) /\ ~requests[q].attended => requests[q].intent # i
  PROVE  OneTry'
  <1>1. \A j \in Intents \ {i} : phase'[j] = phase[j]
    BY SMT DEF TypeOK
  <1>2. \A q \in Requests : Busy(q) => requests[q].intent \in Intents
    BY BusyIsRequest, SMT DEF Request
  <1> QED BY <1>1, <1>2, Zenon DEF OneTry, Busy

-----------------------------------------------------------------------------
(* Patient callers: the booking remembers, and lets no second try through. *)

\* Only a request that passed the check, or that nobody need remember, is admitted.
AdmitsNoMore ==
    \A q \in Requests : Busy(q)' /\ Admitted(requests[q])' =>
      carried[requests'[q].intent] = 0

LEMMA ForgetsNothing ==
  ASSUME Remembered, AdmitsNoMore, UNCHANGED <<booking, carried>>
  PROVE  Remembered'
  BY Zenon DEF Remembered, AdmitsNoMore, Marked

\* An admitted request's intent is not carried out yet.
LEMMA AdmittedIsNew ==
  ASSUME TypeOK, Remembered, NEW q \in Requests, Busy(q), Admitted(requests[q])
  PROVE  carried[requests[q].intent] = 0
  <1>1. requests[q].intent \in Intents
    BY BusyIsRequest, SMT DEF Request
  <1> QED BY <1>1, Zenon DEF Remembered

\* Steps that change requests only, and admit none.
LEMMA NoneAdmitted ==
  ASSUME TypeOK, Remembered, NEW q \in Requests,
         \A p \in Requests \ {q} : requests'[p] = requests[p],
         Busy(q)' /\ Admitted(requests[q])' => carried[requests'[q].intent] = 0
  PROVE  AdmitsNoMore
  <1> SUFFICES ASSUME NEW p \in Requests, Busy(p)', Admitted(requests[p])'
               PROVE  carried[requests'[p].intent] = 0
    BY Zenon DEF AdmitsNoMore
  <1>1. CASE p = q
    BY <1>1, Zenon
  <1>2. CASE p # q
    <2>1. requests'[p] = requests[p] /\ Busy(p) /\ Admitted(requests[p])
      BY <1>2, Zenon DEF Busy, Admitted
    <2> QED BY <2>1, AdmittedIsNew, Zenon
  <1> QED BY <1>1, <1>2, Zenon

LEMMA ReplyAdmitsNone ==
  ASSUME TypeOK, Remembered, NEW q \in Requests, Busy(q), NEW a, Reply(q, a)
  PROVE  AdmitsNoMore
  <1>1. requests \in [Requests -> {Free} \cup Request] /\ requests[q] \in Request
    BY BusyIsRequest, Zenon DEF TypeOK, ServiceTypeOK
  <1>2. \A p \in Requests \ {q} : requests'[p] = requests[p]
    BY <1>1, Zenon DEF Reply
  <1>3. requests'[q] = Free \/ requests'[q] = [requests[q] EXCEPT !.at = "answered", !.answer = a]
    BY <1>1, Zenon DEF Reply
  <1>4. CASE requests'[q] = [requests[q] EXCEPT !.at = "answered", !.answer = a]
    <2>1. requests'[q].at = "answered"
      BY <1>1, <1>4, SMT DEF Request
    <2>2. ~Admitted(requests[q])'
      BY <2>1, SMT DEF Admitted
    <2> QED BY <1>2, <2>2, NoneAdmitted, Zenon
  <1>5. CASE requests'[q] = Free
    <2>1. ~Busy(q)'
      BY <1>5, Zenon DEF Busy
    <2> QED BY <1>2, <2>1, NoneAdmitted, Zenon
  <1> QED BY <1>3, <1>4, <1>5, Zenon

\* A request goes on to a place where it is admitted for an intent not carried out.
LEMMA PlaceAdmits ==
  ASSUME TypeOK, Remembered, NEW q \in Requests, Busy(q), NEW place, GoesTo(q, place),
         place \in {"update", "loaded"} => carried[requests[q].intent] = 0
  PROVE  AdmitsNoMore
  <1>1. requests \in [Requests -> {Free} \cup Request] /\ requests[q] \in Request
    BY BusyIsRequest, Zenon DEF TypeOK, ServiceTypeOK
  <1>2. /\ \A p \in Requests \ {q} : requests'[p] = requests[p]
        /\ requests'[q] = [requests[q] EXCEPT !.at = place]
    BY <1>1, Zenon DEF GoesTo
  <1>3. requests'[q].at = place /\ requests'[q].intent = requests[q].intent
    BY <1>1, <1>2, SMT DEF Request
  <1>4. Admitted(requests[q])' => carried[requests'[q].intent] = 0
    BY <1>3, SMT DEF Admitted
  <1> QED BY <1>2, <1>4, NoneAdmitted, Zenon

\* What the check of the status sees of an intent carried out: the mark.
LEMMA MarkRefuses ==
  ASSUME TypeOK, RequestsOK, Remembered, NEW q \in Requests, Busy(q),
         Subject(q) \in Bookings,
         \/ requests[q].op = "cancel" /\ Row(q).status # "CANCELLED"
         \/ requests[q].op # "cancel" /\ Row(q).status = "CONFIRMED"
  PROVE  carried[requests[q].intent] = 0
  <1>1. requests[q].intent \in Intents /\ Sound(q, requests[q])
    BY BusyIsRequest, SMT DEF Request, RequestsOK
  <1>2. OpOf[requests[q].intent] = "cancel" <=> requests[q].op = "cancel"
    BY <1>1, Zenon DEF Sound
  <1>3. ~Marked(requests[q].intent)
    BY <1>2, SMT DEF Marked, Row, Subject
  <1> QED BY <1>1, <1>3, Zenon DEF Remembered

LEMMA LoadAdmits ==
  ASSUME TypeOK, RequestsOK, Remembered, NEW q \in Requests, LoadBooking(q)
  PROVE  AdmitsNoMore
  <1>1. Busy(q)
    BY Zenon DEF LoadBooking, At
  <1>2. CASE LoadVerdict(q) # "OK"
    BY <1>1, <1>2, ReplyAdmitsNone, Zenon DEF LoadBooking
  <1>3. CASE LoadVerdict(q) = "OK"
    <2>1. requests \in [Requests -> {Free} \cup Request] /\ requests[q] \in Request
      BY <1>1, BusyIsRequest, Zenon DEF TypeOK, ServiceTypeOK
    <2>2. requests' = [requests EXCEPT ![q].at = "loaded", ![q].seen = Row(q).flight]
      BY <1>3, Zenon DEF LoadBooking
    <2>3. /\ \A p \in Requests \ {q} : requests'[p] = requests[p]
          /\ requests'[q].intent = requests[q].intent
      BY <2>1, <2>2, SMT DEF Request
    <2>4. /\ Subject(q) \in Bookings /\ Row(q).status = "CONFIRMED"
          /\ requests[q].op # "cancel"
      BY <1>3, SMT DEF LoadVerdict, LoadBooking, At
    <2>5. carried[requests[q].intent] = 0
      BY <1>1, <2>4, MarkRefuses, Zenon
    <2> QED BY <2>3, <2>5, NoneAdmitted, Zenon
  <1> QED BY <1>2, <1>3, Zenon

LEMMA CancelRemembered ==
  ASSUME TypeOK, RequestsOK, OneTry, Remembered, NEW q \in Requests, CancelUpdates(q)
  PROVE  Remembered'
  <1> DEFINE mine == requests[q].intent
  <1>1. /\ Busy(q) /\ Admitted(requests[q]) /\ mine \in Intents /\ Subject(q) \in Bookings
        /\ Subject(q) = BookingOf[mine]
    <2>1. Busy(q) /\ requests[q].at = "update"
      BY Zenon DEF CancelUpdates, At
    <2>2. requests[q].intent \in Intents /\ Subject(q) \in Bookings
      BY <2>1, RequestSubject, SMT
    <2>3. Admitted(requests[q])
      BY <2>1, Zenon DEF Admitted
    <2>4. Subject(q) = BookingOf[mine]
      BY Zenon DEF Subject
    <2> QED BY <2>1, <2>2, <2>3, <2>4, Zenon
  <1>2. carried[mine] = 0 /\ carried \in [Intents -> Nat]
    BY <1>1, AdmittedIsNew, Zenon DEF TypeOK, ServiceTypeOK
  <1>3. carried'[mine] = 1 /\ \A j \in Intents \ {mine} : carried'[j] = carried[j]
    BY <1>1, <1>2, SMT DEF CancelUpdates, Carry
  <1>4. booking \in [Bookings -> BookingRow]
    BY Zenon DEF TypeOK, ServiceTypeOK, BookingRow
  <1>5. /\ booking'[Subject(q)].status = "CANCELLED"
        /\ \A b \in Bookings \ {Subject(q)} : booking'[b] = booking[b]
    <2>1. booking' = [booking EXCEPT ![Subject(q)] = Cancelled(booking[Subject(q)])]
      BY Zenon DEF CancelUpdates, Cancelled
    <2> QED BY <1>1, <1>4, <2>1, CancelledRow, Zenon
  <1>6. /\ \A p \in Requests \ {q} : requests'[p] = requests[p]
        /\ Busy(q)' => requests'[q].intent = mine /\ ~Admitted(requests'[q])
    <2>1. requests \in [Requests -> {Free} \cup Request] /\ requests[q] \in Request
      BY <1>1, BusyIsRequest, Zenon DEF TypeOK, ServiceTypeOK
    <2>2. CASE GoesTo(q, "refund")
      <3>1. /\ \A p \in Requests \ {q} : requests'[p] = requests[p]
            /\ requests'[q] = [requests[q] EXCEPT !.at = "refund"]
        BY <2>1, <2>2, Zenon DEF GoesTo
      <3> QED BY <2>1, <3>1, SMT DEF Request, Admitted
    <2>3. CASE Reply(q, "OK")
      <3>1. /\ \A p \in Requests \ {q} : requests'[p] = requests[p]
            /\ requests'[q] = Free \/ requests'[q] = WithAnswer(requests[q], "OK")
        BY <2>1, <2>3, Zenon DEF Reply, WithAnswer
      <3>2. "OK" \in Answers \cup ClientErrors
        BY SMT DEF Answers
      <3>3. CASE requests'[q] = WithAnswer(requests[q], "OK")
        <4>1. requests'[q].at = "answered" /\ requests'[q].intent = mine
          <5>1. WithAnswer(requests[q], "OK").at = "answered"
            BY <2>1, <3>2, AnswerKeepsRest, Zenon
          <5>2. WithAnswer(requests[q], "OK").intent = mine
            BY <2>1, <3>2, AnswerKeepsRest, Zenon
          <5> QED BY <3>3, <5>1, <5>2, Zenon
        <4>2. ~Admitted(requests'[q])
          BY <4>1, SMT DEF Admitted
        <4> QED BY <3>1, <4>1, <4>2, Zenon
      <3> QED BY <3>1, <3>3, Zenon DEF Busy
    <2> QED BY <2>2, <2>3, Zenon DEF CancelUpdates
  <1>7. ASSUME NEW j \in Intents, carried'[j] # 0
        PROVE  /\ carried'[j] = 1 /\ BookingOf[j] \in Bookings /\ Marked(j)'
               /\ \A p \in Requests : Busy(p)' /\ requests'[p].intent = j => ~Admitted(requests'[p])
    <2>1. CASE j = mine
      <3>1. Marked(j)'
        BY <1>1, <1>5, <2>1, SMT DEF Marked
      <3>2. ASSUME NEW p \in Requests, Busy(p)', requests'[p].intent = j
            PROVE  ~Admitted(requests'[p])
        <4>1. CASE p = q
          BY <1>6, <3>2, <4>1, Zenon
        <4>2. CASE p # q
          <5>1. Busy(p) /\ requests[p].intent = mine
            BY <1>6, <2>1, <3>2, <4>2, Zenon DEF Busy
          <5> QED BY <1>1, <4>2, <5>1, Zenon DEF OneTry
        <4> QED BY <4>1, <4>2, Zenon
      <3> QED BY <1>1, <1>3, <2>1, <3>1, <3>2, Zenon
    <2>2. CASE j # mine
      <3>1. carried'[j] = carried[j]
        BY <1>3, <2>2, Zenon
      <3>2. /\ carried[j] = 1 /\ BookingOf[j] \in Bookings /\ Marked(j)
            /\ \A p \in Requests : Busy(p) /\ requests[p].intent = j => ~Admitted(requests[p])
        BY <1>7, <3>1, Zenon DEF Remembered
      <3>3. Marked(j)'
        <4>1. CASE BookingOf[j] = Subject(q)
          BY <1>5, <4>1, SMT DEF Marked
        <4>2. CASE BookingOf[j] # Subject(q)
          BY <1>5, <3>2, <4>2, Zenon DEF Marked
        <4> QED BY <4>1, <4>2, Zenon
      <3>4. ASSUME NEW p \in Requests, Busy(p)', requests'[p].intent = j
            PROVE  ~Admitted(requests'[p])
        <4>1. p # q
          BY <1>6, <2>2, <3>4, Zenon
        <4> QED BY <1>6, <3>2, <3>4, <4>1, Zenon DEF Busy
      <3> QED BY <3>1, <3>2, <3>3, <3>4, Zenon
    <2> QED BY <2>1, <2>2, Zenon
  <1> QED BY <1>7, Zenon DEF Remembered

LEMMA RescheduleRemembered ==
  ASSUME TypeOK, RequestsOK, RowsOK, OneTry, Remembered, NEW q \in Requests,
         RescheduleUpdates(q)
  PROVE  Remembered'
  <1> DEFINE mine == requests[q].intent
  <1>1. /\ Busy(q) /\ Admitted(requests[q]) /\ mine \in Intents /\ Subject(q) \in Bookings
        /\ Subject(q) = BookingOf[mine]
    <2>1. Busy(q) /\ requests[q].at = "update"
      BY Zenon DEF RescheduleUpdates, At
    <2>2. requests[q].intent \in Intents /\ Subject(q) \in Bookings
      BY <2>1, RequestSubject, SMT
    <2>3. Admitted(requests[q])
      BY <2>1, Zenon DEF Admitted
    <2>4. Subject(q) = BookingOf[mine]
      BY Zenon DEF Subject
    <2> QED BY <2>1, <2>2, <2>3, <2>4, Zenon
  <1>2. CASE Row(q).cancelledAt
    <2>1. Reply(q, "CRASHED") /\ UNCHANGED <<booking, carried>>
      BY <1>2, Zenon DEF RescheduleUpdates
    <2> QED BY <1>1, <2>1, ReplyAdmitsNone, ForgetsNothing, Zenon
  <1>3. CASE ~Row(q).cancelledAt
    <2>1. carried[mine] = 0 /\ carried \in [Intents -> Nat]
      BY <1>1, AdmittedIsNew, Zenon DEF TypeOK, ServiceTypeOK
    <2>2. carried'[mine] = 1 /\ \A j \in Intents \ {mine} : carried'[j] = carried[j]
      BY <1>1, <1>3, <2>1, SMT DEF RescheduleUpdates, Carry
    <2>3. booking \in [Bookings -> BookingRow] /\ Row(q).status # "CANCELLED"
      BY <1>1, <1>3, Zenon DEF TypeOK, ServiceTypeOK, BookingRow, RowsOK, Row
    <2>4. /\ booking'[Subject(q)].status = "RESCHEDULED"
          /\ \A b \in Bookings \ {Subject(q)} : booking'[b] = booking[b]
      <3>1. Wanted(q) \in Flights
        BY <1>1, RequestSubject, Zenon DEF RescheduleUpdates, At
      <3>2. booking' = [booking EXCEPT ![Subject(q)] = Rescheduled(booking[Subject(q)], Wanted(q))]
        BY <1>3, Zenon DEF RescheduleUpdates, Rescheduled
      <3> QED BY <1>1, <2>3, <3>1, <3>2, RescheduledRow, Zenon
    <2>5. OpOf[mine] # "cancel"
      <3>1. Sound(q, requests[q]) /\ requests[q].op = "reschedule"
        BY <1>1, Zenon DEF RescheduleUpdates, At, RequestsOK
      <3> QED BY <3>1, SMT DEF Sound
    <2>6. AdmitsNoMore /\ \A p \in Requests \ {q} : requests'[p] = requests[p]
      <3>1. Reply(q, "OK")
        BY <1>3, Zenon DEF RescheduleUpdates
      <3>2. requests \in [Requests -> {Free} \cup Request]
        BY Zenon DEF TypeOK, ServiceTypeOK
      <3> QED BY <1>1, <3>1, <3>2, ReplyAdmitsNone, Zenon DEF Reply
    <2>7. Busy(q)' => ~Admitted(requests'[q])
      <3>1. requests[q] \in Request /\ requests \in [Requests -> {Free} \cup Request]
        BY <1>1, BusyIsRequest, Zenon DEF TypeOK, ServiceTypeOK
      <3>2. "OK" \in Answers \cup ClientErrors
        BY SMT DEF Answers
      <3>3. requests'[q] = Free \/ requests'[q] = WithAnswer(requests[q], "OK")
        BY <1>3, <3>1, Zenon DEF RescheduleUpdates, Reply, WithAnswer
      <3>4. WithAnswer(requests[q], "OK").at = "answered"
        BY <3>1, <3>2, AnswerKeepsRest, Zenon
      <3>5. requests'[q].at = "answered" => ~Admitted(requests'[q])
        BY SMT DEF Admitted
      <3> QED BY <3>3, <3>4, <3>5, Zenon DEF Busy
    <2>8. ASSUME NEW j \in Intents, carried'[j] # 0
          PROVE  /\ carried'[j] = 1 /\ BookingOf[j] \in Bookings /\ Marked(j)'
                 /\ \A p \in Requests : Busy(p)' /\ requests'[p].intent = j => ~Admitted(requests'[p])
      <3>1. CASE j = mine
        <4>1. Marked(j)'
          BY <1>1, <2>4, <2>5, <3>1, SMT DEF Marked
        <4>2. ASSUME NEW p \in Requests, Busy(p)', requests'[p].intent = j
              PROVE  ~Admitted(requests'[p])
          <5>1. CASE p = q
            BY <2>7, <4>2, <5>1, Zenon
          <5>2. CASE p # q
            <6>1. Busy(p) /\ requests[p].intent = mine
              BY <2>6, <3>1, <4>2, <5>2, Zenon DEF Busy
            <6> QED BY <1>1, <5>2, <6>1, Zenon DEF OneTry
          <5> QED BY <5>1, <5>2, Zenon
        <4> QED BY <1>1, <2>2, <3>1, <4>1, <4>2, Zenon
      <3>2. CASE j # mine
        <4>1. carried'[j] = carried[j]
          BY <2>2, <3>2, Zenon
        <4>2. carried[j] # 0 /\ carried[j] = 1 /\ BookingOf[j] \in Bookings /\ Marked(j)
          BY <2>8, <4>1, Zenon DEF Remembered
        <4>3. Marked(j)'
          <5>1. CASE BookingOf[j] = Subject(q)
            <6>1. OpOf[j] # "cancel"
              BY <2>3, <4>2, <5>1, SMT DEF Marked, Row
            <6> QED BY <2>4, <5>1, <6>1, SMT DEF Marked
          <5>2. CASE BookingOf[j] # Subject(q)
            BY <2>4, <4>2, <5>2, Zenon DEF Marked
          <5> QED BY <5>1, <5>2, Zenon
        <4>4. ASSUME NEW p \in Requests, Busy(p)', requests'[p].intent = j
              PROVE  ~Admitted(requests'[p])
          <5>1. Admitted(requests[p])' => carried[j] = 0
            BY <2>6, <4>4, Zenon DEF AdmitsNoMore
          <5> QED BY <4>2, <5>1, Zenon
        <4> QED BY <4>1, <4>2, <4>3, <4>4, Zenon
      <3> QED BY <3>1, <3>2, Zenon
    <2> QED BY <2>8, Zenon DEF Remembered
  <1> QED BY <1>2, <1>3, Zenon

-----------------------------------------------------------------------------
(* Every step, while callers are patient. *)

LEMMA HandlerKeepsOnce ==
  ASSUME IInv, OneTry, Remembered, NEW q \in Requests, HandlerStep(q) \/ HandlerFails(q),
         UNCHANGED callers
  PROVE  OneTry' /\ Remembered'
  <1>a. TypeOK /\ RequestsOK /\ RowsOK
    BY Zenon DEF IInv
  <1>b. Busy(q)
    BY Zenon DEF HandlerStep, HandlerFails, ChaosAnswers, ChaosHangs, HangEnds, CancelLoads,
      CancelUpdates, InsertRefund, LoadBooking, ListOptions, CheckTarget, RescheduleUpdates, At
  <1>c. OneTry'
    BY <1>a, HandlerProgress, ProgressKeepsOneTry, Zenon DEF callers
  <1>1. CASE CancelUpdates(q)
    BY <1>a, <1>c, <1>1, CancelRemembered, Zenon
  <1>2. CASE RescheduleUpdates(q)
    BY <1>a, <1>c, <1>2, RescheduleRemembered, Zenon
  <1>3. ASSUME UNCHANGED <<booking, carried>>, AdmitsNoMore PROVE Remembered'
    BY <1>3, ForgetsNothing, Zenon
  <1>4. CASE LoadBooking(q)
    BY <1>a, <1>c, <1>3, <1>4, LoadAdmits, Zenon DEF LoadBooking
  <1>5. CASE CancelLoads(q)
    <2>1. CASE CancelVerdict(q) # "OK"
      BY <1>a, <1>b, <1>c, <1>3, <1>5, <2>1, ReplyAdmitsNone, Zenon DEF CancelLoads
    <2>2. CASE CancelVerdict(q) = "OK"
      <3>1. /\ Subject(q) \in Bookings /\ Row(q).status # "CANCELLED"
            /\ requests[q].op = "cancel"
        BY <1>5, <2>2, SMT DEF CancelVerdict, CancelLoads, At
      <3>2. carried[requests[q].intent] = 0
        BY <1>a, <1>b, <3>1, MarkRefuses, Zenon
      <3> QED BY <1>a, <1>b, <1>c, <1>3, <1>5, <2>2, <3>2, PlaceAdmits, Zenon DEF CancelLoads
    <2> QED BY <2>1, <2>2, Zenon
  <1>6. CASE CheckTarget(q)
    <2>1. CASE TargetVerdict(q) # "OK"
      BY <1>a, <1>b, <1>c, <1>3, <1>6, <2>1, ReplyAdmitsNone, Zenon DEF CheckTarget
    <2>2. CASE TargetVerdict(q) = "OK"
      <3>1. Admitted(requests[q])
        BY <1>6, Zenon DEF CheckTarget, At, Admitted
      <3>2. carried[requests[q].intent] = 0
        BY <1>a, <1>b, <3>1, AdmittedIsNew, Zenon
      <3> QED BY <1>a, <1>b, <1>c, <1>3, <1>6, <2>2, <3>2, PlaceAdmits, Zenon DEF CheckTarget
    <2> QED BY <2>1, <2>2, Zenon
  <1>7. CASE ChaosHangs(q)
    <2>1. CASE requests[q].attended
      <3>1. "hung" \notin {"update", "loaded"}
        OBVIOUS
      <3> QED BY <1>a, <1>b, <1>c, <1>3, <1>7, <2>1, <3>1, PlaceAdmits, Zenon DEF ChaosHangs
    <2>2. CASE ~requests[q].attended
      <3>1. requests' = [requests EXCEPT ![q] = Free] /\ UNCHANGED <<booking, carried>>
        BY <1>7, <2>2, Zenon DEF ChaosHangs
      <3>2. requests \in [Requests -> {Free} \cup Request]
        BY <1>a, Zenon DEF TypeOK, ServiceTypeOK
      <3>3. ~Busy(q)' /\ \A p \in Requests \ {q} : requests'[p] = requests[p]
        BY <3>1, <3>2, Zenon DEF Busy
      <3> QED BY <1>a, <1>c, <1>3, <3>1, <3>3, NoneAdmitted, Zenon
    <2> QED BY <2>1, <2>2, Zenon
  <1>8. CASE ChaosAnswers(q) \/ HangEnds(q) \/ InsertRefund(q) \/ ListOptions(q) \/ HandlerFails(q)
    <2>1. (\E a : Reply(q, a)) /\ UNCHANGED <<booking, carried>>
      BY <1>8, Zenon DEF ChaosAnswers, HangEnds, InsertRefund, ListOptions, HandlerFails
    <2> QED BY <1>a, <1>b, <1>c, <1>3, <2>1, ReplyAdmitsNone, Zenon
  <1> QED BY <1>1, <1>2, <1>4, <1>5, <1>6, <1>7, <1>8, Zenon DEF HandlerStep

\* A caller admits nothing: its requests have just arrived, or it leaves them.
LEMMA CallAdmitsNone ==
  ASSUME TypeOK, Remembered, NEW i \in Intents, Calls(i)
  PROVE  AdmitsNoMore
  <1>1. PICK q \in Requests :
          requests' = [requests EXCEPT ![q] =
               [at |-> "arrived", op |-> FirstOp(i), intent |-> i, attended |-> TRUE,
                answer |-> "OK", seen |-> CHOOSE f \in Flights : TRUE]]
    BY Zenon DEF Calls, Arrive
  <1>2. /\ requests'[q].at = "arrived"
        /\ \A p \in Requests \ {q} : requests'[p] = requests[p]
    BY <1>1, SMT DEF TypeOK, ServiceTypeOK
  <1>3. ~Admitted(requests[q])'
    BY <1>2, SMT DEF Admitted
  <1> QED BY <1>2, <1>3, NoneAdmitted, Zenon

LEMMA GoesOnAdmitsNone ==
  ASSUME TypeOK, Remembered, NEW i \in Intents, GoesOn(i)
  PROVE  AdmitsNoMore
  <1>0. PICK q \in Requests : q = waits[i]
    BY Zenon DEF TypeOK, GoesOn, Answered
  <1>1. requests' = [requests EXCEPT ![q] =
               [at |-> "arrived", op |-> "reschedule", intent |-> i, attended |-> TRUE,
                answer |-> "OK", seen |-> CHOOSE f \in Flights : TRUE]]
    BY <1>0, Zenon DEF GoesOn, Arrive
  <1>2. /\ requests'[q].at = "arrived"
        /\ \A p \in Requests \ {q} : requests'[p] = requests[p]
    BY <1>1, SMT DEF TypeOK, ServiceTypeOK
  <1>3. ~Admitted(requests[q])'
    BY <1>2, SMT DEF Admitted
  <1> QED BY <1>2, <1>3, NoneAdmitted, Zenon

LEMMA EndAdmitsNone ==
  ASSUME TypeOK, Remembered, NEW i \in Intents, waits[i] # NoRequest, NEW to, Ends(i, to)
  PROVE  AdmitsNoMore
  <1>0. PICK q \in Requests : q = waits[i]
    BY Zenon DEF TypeOK
  <1>1. requests \in [Requests -> {Free} \cup Request] /\ Busy(q) /\ requests[q] \in Request
    BY <1>0, BusyIsRequest, Zenon DEF TypeOK, ServiceTypeOK, Attends
  <1>2. /\ \A p \in Requests \ {q} : requests'[p] = requests[p]
        /\ requests'[q] = Free \/ requests'[q] = [requests[q] EXCEPT !.attended = FALSE]
    BY <1>0, <1>1, Zenon DEF Ends, Abandon
  <1>3. CASE requests'[q] = Free
    BY <1>2, <1>3, NoneAdmitted, Zenon DEF Busy
  <1>4. CASE requests'[q] = [requests[q] EXCEPT !.attended = FALSE]
    <2>1. /\ requests'[q].at = requests[q].at /\ requests'[q].op = requests[q].op
          /\ requests'[q].intent = requests[q].intent
      BY <1>1, <1>4, SMT DEF Request
    <2>2. Admitted(requests[q])' => carried[requests'[q].intent] = 0
      BY <1>1, <2>1, AdmittedIsNew, Zenon DEF Admitted
    <2> QED BY <1>2, <2>2, NoneAdmitted, Zenon
  <1> QED BY <1>2, <1>3, <1>4, Zenon

LEMMA SameRequestsAdmitNone ==
  ASSUME TypeOK, Remembered, UNCHANGED requests
  PROVE  AdmitsNoMore
  BY AdmittedIsNew, Zenon DEF AdmitsNoMore, Busy, Admitted

\* A patient caller that gives up leaves no handler running.
LEMMA PatientOutcome ==
  ASSUME Patient, TypeOK, NEW i \in Intents, NEW a, Outcome(i, a)
  PROVE  requests[waits[i]].at \notin Handling
  BY SMT DEF Outcome, Answered, Handling

LEMMA CallerKeepsOnce ==
  ASSUME Patient, IInv, OneTry, Remembered, NEW i \in Intents,
         Ask(i) \/ CallerStep(i) \/ TurnDies(i) \/ WorkerDies(i) \/ Requeue(i)
  PROVE  OneTry' /\ Remembered'
  <1>a. TypeOK /\ RequestsOK /\ Attends(i)
    BY Zenon DEF IInv, TypeOK
  <1>b. phase[i] \in {"turn", "working"} => waits[i] # NoRequest
    BY <1>a, Zenon DEF Attends
  <1>c. "turn" \in {"turn", "working"} /\ "working" \in {"turn", "working"}
    OBVIOUS
  <1>1. ASSUME NEW from, NEW to, phase[i] = from, from \in {"unasked", "waiting"},
               Calls(i), phase' = [phase EXCEPT ![i] = to], UNCHANGED <<booking, carried>>
        PROVE  OneTry' /\ Remembered'
    <2>1. phase[i] \notin {"turn", "working"} /\ phase[i] \notin {"declined", "orphaned"}
      BY <1>1, SMT
    <2>2. waits[i] = NoRequest
      BY <1>a, <2>1, Zenon DEF Attends
    <2> QED BY <1>a, <1>1, <2>1, <2>2, CallKeepsOneTry, CallAdmitsNone, ForgetsNothing, Zenon
  <1>2. ASSUME NEW to, Ends(i, to), phase[i] \in {"turn", "working"},
               to \in {"declined", "orphaned"} \/ requests[waits[i]].at \notin Handling
        PROVE  OneTry' /\ Remembered'
    <2>1. UNCHANGED <<booking, carried>>
      BY <1>2, Zenon DEF Ends
    <2> QED BY <1>a, <1>b, <1>2, <2>1, EndKeepsOneTry, EndAdmitsNone, ForgetsNothing, Zenon
  <1>3. Answered(i) => requests[waits[i]].at \notin Handling
    BY SMT DEF Answered, Handling
  <1>4. \A a : Outcome(i, a) => requests[waits[i]].at \notin Handling
    BY <1>a, PatientOutcome, Zenon
  <1>5. CASE Ask(i)
    <2>1. "unasked" \in {"unasked", "waiting"}
      OBVIOUS
    <2> QED BY <1>1, <1>5, <2>1, Zenon DEF Ask
  <1>6. CASE Take(i)
    <2>1. "waiting" \in {"unasked", "waiting"}
      OBVIOUS
    <2> QED BY <1>1, <1>6, <2>1, Zenon DEF Take
  <1>7. CASE GoesOn(i)
    <2>1. UNCHANGED <<booking, carried>>
      BY <1>7, Zenon DEF GoesOn
    <2> QED BY <1>a, <1>7, <2>1, GoesOnKeepsOneTry, GoesOnAdmitsNone, ForgetsNothing, Zenon
  <1>8. CASE TurnSucceeds(i)
    BY <1>c, <1>2, <1>3, <1>8, Zenon DEF TurnSucceeds
  <1>9. CASE TurnFails(i)
    BY <1>c, <1>2, <1>9, Zenon DEF TurnFails
  <1>10. CASE TurnEnqueues(i)
    BY <1>c, <1>2, <1>4, <1>10, Zenon DEF TurnEnqueues
  <1>11. CASE TurnDies(i)
    BY <1>c, <1>2, <1>11, Zenon DEF TurnDies
  <1>12. CASE JobSucceeds(i)
    BY <1>c, <1>2, <1>3, <1>12, Zenon DEF JobSucceeds
  <1>13. CASE JobFails(i)
    <2>1. PICK f \in Failures :
            JobFailure(i, f) /\
            Ends(i, IF ~Classify(f) THEN "failed"
                    ELSE IF attempt[i] < MaxAttempts THEN "waiting" ELSE "dead")
      BY <1>13, Zenon DEF JobFails
    <2>2. requests[waits[i]].at \notin Handling
      BY <1>4, <2>1, Zenon DEF JobFailure
    <2> QED BY <1>c, <1>2, <1>13, <2>1, <2>2, Zenon DEF JobFails
  <1>14. CASE WorkerDies(i)
    BY <1>c, <1>2, <1>14, Zenon DEF WorkerDies
  <1>15. ASSUME phase' = [phase EXCEPT ![i] = "waiting"], UNCHANGED service,
                \A q \in Requests : Busy(q) /\ ~requests[q].attended => requests[q].intent # i
         PROVE  OneTry' /\ Remembered'
    BY <1>a, <1>15, SettlingKeepsOneTry, SameRequestsAdmitNone, ForgetsNothing, Zenon DEF service
  <1>16. CASE Recover(i)
    <2>1. ~Running(i)
      BY <1>16, Zenon DEF Recover
    <2>2. \A q \in Requests : Busy(q) /\ ~requests[q].attended => requests[q].at \in Handling
      BY <1>a, Zenon DEF RequestsOK, Sound
    <2> QED BY <1>15, <1>16, <2>1, <2>2, Zenon DEF Recover, Running
  <1>17. CASE Requeue(i)
    <2>1. phase[i] \notin {"declined", "orphaned"}
      BY <1>17, SMT DEF Requeue
    <2> QED BY <1>15, <1>17, <2>1, Zenon DEF Requeue, OneTry
  <1> QED BY <1>5, <1>6, <1>7, <1>8, <1>9, <1>10, <1>11, <1>12, <1>13, <1>14, <1>16, <1>17, Zenon
        DEF CallerStep

LEMMA StepKeepsOnce == IInv /\ Once /\ [Next]_vars => Once'
  <1> SUFFICES ASSUME Patient, IInv, OneTry, Remembered, [Next]_vars
               PROVE  OneTry' /\ Remembered'
    BY Zenon DEF Once
  <1>a. TypeOK
    BY Zenon DEF IInv
  <1>1. CASE \E i \in Intents : Ask(i) \/ CallerStep(i) \/ TurnDies(i) \/ WorkerDies(i) \/ Requeue(i)
    BY <1>1, CallerKeepsOnce, Zenon
  <1>2. CASE (\E q \in Requests : HandlerStep(q) \/ HandlerFails(q)) /\ UNCHANGED callers
    BY <1>2, HandlerKeepsOnce, Zenon
  <1>3. CASE UNCHANGED <<requests, phase, booking, carried>>
    <2>1. OneTry'
      BY <1>3, Zenon DEF OneTry, Busy
    <2> QED BY <1>a, <1>3, <2>1, SameRequestsAdmitNone, ForgetsNothing, Zenon
  <1> QED BY <1>1, <1>2, <1>3, Zenon DEF Next, ServiceNext, TimePasses, vars, service, callers

LEMMA InitEstablishesOnce == Init => Once
  <1> SUFFICES ASSUME Init PROVE OneTry /\ Remembered
    BY Zenon DEF Once
  <1>1. \A q \in Requests : ~Busy(q)
    BY Zenon DEF Init, ServiceInit, Busy
  <1>2. \A i \in Intents : carried[i] = 0
    BY Zenon DEF Init, ServiceInit
  <1> QED BY <1>1, <1>2, Zenon DEF OneTry, Remembered

LEMMA OnceHolds == Spec => []Once
  BY InitEstablishesOnce, StepKeepsOnce, InvariantHolds, PTL DEF Spec

\* A change asked for once is carried out at most once, whatever fails, dies, is lost
\* or is delivered again, as long as no handler outlives its caller's patience.
THEOREM ChangeOnlyOnce ==
  ASSUME Patient
  PROVE  Spec => []CarriedOutOnce
  <1>1. IInv /\ Once => CarriedOutOnce
    <2> SUFFICES ASSUME IInv, Remembered, NEW i \in Intents PROVE carried[i] <= 1
      BY Zenon DEF Once, CarriedOutOnce
    <2>1. carried[i] \in Nat /\ (carried[i] = 0 \/ carried[i] = 1)
      BY Zenon DEF Remembered, IInv, TypeOK, ServiceTypeOK
    <2> QED BY <2>1, SMT
  <1> QED BY <1>1, InvariantHolds, OnceHolds, PTL

-----------------------------------------------------------------------------
(* What the callers are told. *)

\* A request that tells, or will tell, that a change was made.
Claims(r) == \/ r.at = "refund"
             \/ r.at = "answered" /\ r.op # "options" /\ WellShaped(r.answer)

\* What is claimed, and what the customer was told, has been carried out.
Truthful ==
    /\ \A q \in Requests : Busy(q) /\ Claims(requests[q]) => carried[requests[q].intent] # 0
    /\ \A i \in Intents : phase[i] = "confirmed" => carried[i] # 0

\* No step takes back what was carried out, or forgets who claims what.
Grows == \A i \in Intents : carried[i] # 0 => carried'[i] # 0

\* One request changed, and claims only what has been carried out.
LEMMA OneClaims ==
  ASSUME TypeOK, Truthful, Grows, NEW q,
         \A p \in Requests \ {q} : requests'[p] = requests[p],
         Busy(q)' /\ Claims(requests[q])' => carried'[requests'[q].intent] # 0,
         \A i \in Intents : phase'[i] = "confirmed" => phase[i] = "confirmed" \/ carried[i] # 0
  PROVE  Truthful'
  <1>1. ASSUME NEW p \in Requests, Busy(p)', Claims(requests[p])'
        PROVE  carried'[requests'[p].intent] # 0
    <2>1. CASE p = q
      BY <1>1, <2>1, Zenon
    <2>2. CASE p # q
      <3>1. Busy(p) /\ Claims(requests[p]) /\ requests'[p] = requests[p]
        BY <1>1, <2>2, Zenon DEF Busy, Claims
      <3>2. requests[p].intent \in Intents
        BY <3>1, BusyIsRequest, SMT DEF Request
      <3> QED BY <3>1, <3>2, Zenon DEF Truthful, Grows
    <2> QED BY <2>1, <2>2, Zenon
  <1>2. \A i \in Intents : phase'[i] = "confirmed" => carried'[i] # 0
    BY Zenon DEF Truthful, Grows
  <1> QED BY <1>1, <1>2, Zenon DEF Truthful

LEMMA ReplyClaims ==
  ASSUME TypeOK, Truthful, Grows, UNCHANGED phase, NEW q \in Requests, Busy(q),
         NEW a \in Answers \cup ClientErrors, Reply(q, a),
         WellShaped(a) /\ requests[q].op # "options" => carried'[requests[q].intent] # 0
  PROVE  Truthful'
  <1>1. requests \in [Requests -> {Free} \cup Request] /\ requests[q] \in Request
    BY BusyIsRequest, Zenon DEF TypeOK, ServiceTypeOK
  <1>2. /\ \A p \in Requests \ {q} : requests'[p] = requests[p]
        /\ requests'[q] = Free \/ requests'[q] = WithAnswer(requests[q], a)
    BY <1>1, Zenon DEF Reply, WithAnswer
  <1>3. CASE requests'[q] = WithAnswer(requests[q], a)
    <2> DEFINE new == WithAnswer(requests[q], a)
    <2>a. /\ new.at = "answered" /\ new.op = requests[q].op
          /\ new.intent = requests[q].intent
      BY <1>1, AnswerKeepsRest, Zenon
    <2>1. /\ requests'[q].at = "answered" /\ requests'[q].op = requests[q].op
          /\ requests'[q].intent = requests[q].intent
      BY <1>3, <2>a, Zenon
    <2>2. requests'[q].answer = a
      BY <1>1, <1>3, SMT DEF Request, WithAnswer
    <2>3. Claims(requests[q])' => WellShaped(a) /\ requests[q].op # "options"
      BY <2>1, <2>2, SMT DEF Claims
    <2> QED BY <1>2, <2>1, <2>3, OneClaims, Zenon
  <1>4. CASE requests'[q] = Free
    BY <1>2, <1>4, OneClaims, Zenon DEF Busy
  <1> QED BY <1>2, <1>3, <1>4, Zenon

LEMMA PlaceClaims ==
  ASSUME TypeOK, Truthful, Grows, UNCHANGED phase, NEW q \in Requests, Busy(q),
         NEW place \in Handling \cup {"hung"}, GoesTo(q, place),
         place = "refund" => carried'[requests[q].intent] # 0
  PROVE  Truthful'
  <1>1. requests \in [Requests -> {Free} \cup Request] /\ requests[q] \in Request
    BY BusyIsRequest, Zenon DEF TypeOK, ServiceTypeOK
  <1>2. /\ \A p \in Requests \ {q} : requests'[p] = requests[p]
        /\ requests'[q] = [requests[q] EXCEPT !.at = place]
    BY <1>1, Zenon DEF GoesTo
  <1>3. requests'[q].at = place /\ requests'[q].intent = requests[q].intent
    BY <1>1, <1>2, SMT DEF Request
  <1>4. Claims(requests[q])' => place = "refund"
    BY <1>3, SMT DEF Claims, Handling
  <1> QED BY <1>2, <1>3, <1>4, OneClaims, Zenon

LEMMA CarryGrows ==
  ASSUME TypeOK, NEW q \in Requests, Busy(q), Carry(q)
  PROVE  Grows /\ carried'[requests[q].intent] # 0
  <1>1. requests[q].intent \in Intents /\ carried \in [Intents -> Nat]
    BY BusyIsRequest, SMT DEF Request, TypeOK, ServiceTypeOK
  <1> QED BY <1>1, SMT DEF Carry, Grows

LEMMA HandlerKeepsTruth ==
  ASSUME IInv, Truthful, NEW q \in Requests, HandlerStep(q) \/ HandlerFails(q), UNCHANGED phase
  PROVE  Truthful'
  <1>a. TypeOK
    BY Zenon DEF IInv
  <1>b. Busy(q)
    BY Zenon DEF HandlerStep, HandlerFails, ChaosAnswers, ChaosHangs, HangEnds, CancelLoads,
      CancelUpdates, InsertRefund, LoadBooking, ListOptions, CheckTarget, RescheduleUpdates, At
  <1>c. UNCHANGED carried => Grows
    BY Zenon DEF Grows
  <1>d. /\ "OK" \in Answers \cup ClientErrors /\ "CRASHED" \in Answers \cup ClientErrors
        /\ ~WellShaped("CRASHED")
    BY SMT DEF Answers, WellShaped
  <1>1. ASSUME NEW a \in Answers \cup ClientErrors, Reply(q, a), ~WellShaped(a), UNCHANGED carried
        PROVE  Truthful'
    BY <1>a, <1>b, <1>c, <1>1, ReplyClaims, Zenon
  <1>2. ASSUME NEW place \in Handling \cup {"hung"}, GoesTo(q, place), place # "refund",
               UNCHANGED carried
        PROVE  Truthful'
    BY <1>a, <1>b, <1>c, <1>2, PlaceClaims, Zenon
  <1>e. /\ "hung" \in Handling \cup {"hung"} /\ "update" \in Handling \cup {"hung"}
        /\ "hung" # "refund" /\ "update" # "refund"
        /\ "refund" \in Handling \cup {"hung"}
    BY SMT DEF Handling
  <1>f. \A a \in Refusals \cup ChaosErrors \cup {"MALFORMED", "CRASHED", "LOST"} :
           a \in Answers \cup ClientErrors /\ ~WellShaped(a)
    BY SMT DEF Refusals, ChaosErrors, Answers, ClientErrors, WellShaped
  <1>3. CASE ChaosAnswers(q)
    <2>1. PICK a \in ChaosKinds \ {"hang"} : Reply(q, a)
      BY <1>3, Zenon DEF ChaosAnswers
    <2>2. a \in Refusals \cup ChaosErrors \cup {"MALFORMED", "CRASHED", "LOST"}
      BY <2>1, ChaosAssumption, Zenon
    <2> QED BY <1>1, <1>3, <1>f, <2>1, <2>2, Zenon DEF ChaosAnswers
  <1>4. CASE ChaosHangs(q)
    <2>1. CASE requests[q].attended
      BY <1>2, <1>4, <1>e, <2>1, Zenon DEF ChaosHangs
    <2>2. CASE ~requests[q].attended
      <3>1. requests' = [requests EXCEPT ![q] = Free] /\ UNCHANGED carried
        BY <1>4, <2>2, Zenon DEF ChaosHangs
      <3>2. ~Busy(q)' /\ \A p \in Requests \ {q} : requests'[p] = requests[p]
        BY <1>a, <3>1, Zenon DEF Busy, TypeOK, ServiceTypeOK
      <3> QED BY <1>a, <1>c, <3>1, <3>2, OneClaims, Zenon
    <2> QED BY <2>1, <2>2, Zenon
  <1>5. CASE HangEnds(q)
    <2>1. "UPSTREAM_TIMEOUT" \in Refusals \cup ChaosErrors \cup {"MALFORMED", "CRASHED", "LOST"}
      BY SMT DEF ChaosErrors
    <2> QED BY <1>1, <1>5, <1>f, <2>1, Zenon DEF HangEnds
  <1>6. CASE CancelLoads(q)
    <2>1. CASE CancelVerdict(q) = "OK"
      BY <1>2, <1>6, <1>e, <2>1, Zenon DEF CancelLoads
    <2>2. CASE CancelVerdict(q) # "OK"
      <3>1. CancelVerdict(q) \in Refusals \cup ChaosErrors \cup {"MALFORMED", "CRASHED", "LOST"}
        BY <2>2, SMT DEF CancelVerdict, Refusals
      <3> QED BY <1>1, <1>6, <1>f, <2>2, <3>1, Zenon DEF CancelLoads
    <2> QED BY <2>1, <2>2, Zenon
  <1>7. CASE CancelUpdates(q)
    <2>1. Grows /\ carried'[requests[q].intent] # 0
      BY <1>a, <1>b, <1>7, CarryGrows, Zenon DEF CancelUpdates
    <2>2. GoesTo(q, "refund") \/ Reply(q, "OK")
      BY <1>7, Zenon DEF CancelUpdates
    <2> QED BY <1>a, <1>b, <1>d, <1>e, <2>1, <2>2, ReplyClaims, PlaceClaims, Zenon
  <1>8. CASE InsertRefund(q)
    <2>1. Claims(requests[q])
      BY <1>8, Zenon DEF InsertRefund, At, Claims
    <2>2. carried[requests[q].intent] # 0
      BY <1>b, <2>1, Zenon DEF Truthful
    <2>3. Reply(q, "OK") /\ UNCHANGED carried
      BY <1>8, Zenon DEF InsertRefund
    <2> QED BY <1>a, <1>b, <1>c, <1>d, <2>2, <2>3, ReplyClaims, Zenon
  <1>9. CASE LoadBooking(q)
    <2>1. CASE LoadVerdict(q) = "OK"
      <3>1. requests \in [Requests -> {Free} \cup Request] /\ requests[q] \in Request
        BY <1>a, <1>b, BusyIsRequest, Zenon DEF TypeOK, ServiceTypeOK
      <3>2. requests' = [requests EXCEPT ![q] = WithFlight(requests[q], Row(q).flight)]
              /\ UNCHANGED carried
        BY <1>9, <2>1, Zenon DEF LoadBooking, WithFlight
      <3>3. requests'[q] = WithFlight(requests[q], Row(q).flight)
              /\ \A p \in Requests \ {q} : requests'[p] = requests[p]
        BY <3>1, <3>2, Zenon
      <3>4. requests'[q].at = "loaded"
        BY <3>1, <3>3, SMT DEF Request, WithFlight
      <3>5. ~Claims(requests[q])'
        BY <3>4, SMT DEF Claims
      <3> QED BY <1>a, <1>c, <3>2, <3>3, <3>5, OneClaims, Zenon
    <2>2. CASE LoadVerdict(q) # "OK"
      <3>1. LoadVerdict(q) \in Refusals \cup ChaosErrors \cup {"MALFORMED", "CRASHED", "LOST"}
        BY <2>2, SMT DEF LoadVerdict, Refusals
      <3> QED BY <1>1, <1>9, <1>f, <2>2, <3>1, Zenon DEF LoadBooking
    <2> QED BY <2>1, <2>2, Zenon
  <1>10. CASE ListOptions(q)
    <2>1. PICK a \in {"OK", "NOT_LISTED", "NO_ALTERNATIVES"} : Reply(q, a)
      BY <1>10, Zenon DEF ListOptions
    <2>2. a \in Answers \cup ClientErrors
      BY <2>1, SMT DEF Answers, Refusals
    <2>3. requests[q].op = "options" /\ UNCHANGED carried
      BY <1>10, Zenon DEF ListOptions, At
    <2> QED BY <1>a, <1>b, <1>c, <2>1, <2>2, <2>3, ReplyClaims, Zenon
  <1>11. CASE CheckTarget(q)
    <2>1. CASE TargetVerdict(q) = "OK"
      BY <1>2, <1>11, <1>e, <2>1, Zenon DEF CheckTarget
    <2>2. CASE TargetVerdict(q) # "OK"
      <3>1. TargetVerdict(q) \in Refusals \cup ChaosErrors \cup {"MALFORMED", "CRASHED", "LOST"}
        BY <2>2, SMT DEF TargetVerdict, Refusals
      <3> QED BY <1>1, <1>11, <1>f, <2>2, <3>1, Zenon DEF CheckTarget
    <2> QED BY <2>1, <2>2, Zenon
  <1>12. CASE RescheduleUpdates(q)
    <2>1. CASE Row(q).cancelledAt
      BY <1>1, <1>12, <1>d, <2>1, Zenon DEF RescheduleUpdates
    <2>2. CASE ~Row(q).cancelledAt
      <3>1. Carry(q) /\ Reply(q, "OK")
        BY <1>12, <2>2, Zenon DEF RescheduleUpdates
      <3>2. Grows /\ carried'[requests[q].intent] # 0
        BY <1>a, <1>b, <3>1, CarryGrows, Zenon
      <3> QED BY <1>a, <1>b, <1>d, <3>1, <3>2, ReplyClaims, Zenon
    <2> QED BY <2>1, <2>2, Zenon
  <1>13. CASE HandlerFails(q)
    <2>1. PICK a \in {"CRASHED", "LOST"} : Reply(q, a)
      BY <1>13, Zenon DEF HandlerFails
    <2>2. UNCHANGED carried
      BY <1>13, Zenon DEF HandlerFails
    <2> QED BY <1>1, <1>f, <2>1, <2>2, Zenon
  <1> QED BY <1>3, <1>4, <1>5, <1>6, <1>7, <1>8, <1>9, <1>10, <1>11, <1>12, <1>13, Zenon
        DEF HandlerStep

LEMMA CallerKeepsTruth ==
  ASSUME IInv, Truthful, NEW i \in Intents,
         Ask(i) \/ CallerStep(i) \/ TurnDies(i) \/ WorkerDies(i) \/ Requeue(i)
  PROVE  Truthful'
  <1>a. TypeOK /\ Attends(i) /\ phase \in [Intents -> Phases]
    BY Zenon DEF IInv, TypeOK
  <1>b. phase[i] \in {"turn", "working"} => waits[i] # NoRequest
    BY <1>a, Zenon DEF Attends
  <1>c. UNCHANGED carried => Grows
    BY Zenon DEF Grows
  <1>d. requests \in [Requests -> {Free} \cup Request] /\ waits \in [Intents -> Requests \cup {NoRequest}]
    BY <1>a, Zenon DEF TypeOK, ServiceTypeOK
  <1>1. ASSUME NEW to, phase' = [phase EXCEPT ![i] = to], to # "confirmed" \/ carried[i] # 0
        PROVE  \A j \in Intents : phase'[j] = "confirmed" => phase[j] = "confirmed" \/ carried[j] # 0
    BY <1>a, <1>1, Zenon
  \* A new call is made, of an intent that has not been confirmed.
  <1>2. ASSUME NEW to, phase' = [phase EXCEPT ![i] = to], to # "confirmed", Calls(i), UNCHANGED carried
        PROVE  Truthful'
    <2>1. PICK q \in Requests :
            requests' = [requests EXCEPT ![q] =
                 [at |-> "arrived", op |-> FirstOp(i), intent |-> i, attended |-> TRUE,
                  answer |-> "OK", seen |-> CHOOSE f \in Flights : TRUE]]
      BY <1>2, Zenon DEF Calls, Arrive
    <2>2. requests'[q].at = "arrived" /\ \A p \in Requests \ {q} : requests'[p] = requests[p]
      BY <1>d, <2>1, SMT
    <2>3. ~Claims(requests[q])'
      BY <2>2, SMT DEF Claims
    <2> QED BY <1>a, <1>c, <1>1, <1>2, <2>2, <2>3, OneClaims, Zenon
  \* The caller is done with its request.
  <1>3. ASSUME NEW to, Ends(i, to), phase[i] \in {"turn", "working"},
               to # "confirmed" \/ carried[i] # 0
        PROVE  Truthful'
    <2>0. PICK q \in Requests : q = waits[i]
      BY <1>b, <1>d, <1>3, Zenon
    <2>1. Busy(q) /\ requests[q] \in Request
      BY <1>a, <1>b, <1>3, <2>0, BusyIsRequest, Zenon DEF Attends
    <2>2. /\ \A p \in Requests \ {q} : requests'[p] = requests[p]
          /\ requests'[q] = Free \/ requests'[q] = [requests[q] EXCEPT !.attended = FALSE]
      BY <1>d, <1>3, <2>0, Zenon DEF Ends, Abandon
    <2>3. phase' = [phase EXCEPT ![i] = to] /\ UNCHANGED carried
      BY <1>3, Zenon DEF Ends
    <2>4. Busy(q)' /\ Claims(requests[q])' => carried'[requests'[q].intent] # 0
      <3>1. CASE requests'[q] = Free
        BY <3>1, Zenon DEF Busy
      <3>2. CASE requests'[q] = [requests[q] EXCEPT !.attended = FALSE]
        <4>1. /\ requests'[q].at = requests[q].at /\ requests'[q].op = requests[q].op
              /\ requests'[q].answer = requests[q].answer
              /\ requests'[q].intent = requests[q].intent
          BY <2>1, <3>2, SMT DEF Request
        <4>2. Claims(requests[q])' => Claims(requests[q])
          BY <4>1, SMT DEF Claims
        <4> QED BY <2>1, <2>3, <4>1, <4>2, Zenon DEF Truthful
      <3> QED BY <2>2, <3>1, <3>2, Zenon
    <2>5. \A j \in Intents : phase'[j] = "confirmed" => phase[j] = "confirmed" \/ carried[j] # 0
      BY <1>1, <1>3, <2>3, Zenon
    <2> QED BY <1>a, <1>c, <2>2, <2>3, <2>4, <2>5, OneClaims, Zenon
  <1>4. ASSUME phase' = [phase EXCEPT ![i] = "waiting"], UNCHANGED <<requests, carried>>
        PROVE  Truthful'
    <2>1. "waiting" # "confirmed"
      OBVIOUS
    <2>2. \A j \in Intents : phase'[j] = "confirmed" => phase[j] = "confirmed" \/ carried[j] # 0
      BY <1>1, <1>4, <2>1, Zenon
    <2> QED BY <1>4, <2>2, Zenon DEF Truthful, Busy, Claims
  <1>e. /\ "turn" \in {"turn", "working"} /\ "working" \in {"turn", "working"}
        /\ \A to \in {"turn", "working", "declined", "waiting", "orphaned", "done", "failed", "dead"} :
             to # "confirmed"
    OBVIOUS
  <1>5. CASE Ask(i) \/ Take(i)
    BY <1>2, <1>5, <1>e, Zenon DEF Ask, Take
  <1>6. CASE GoesOn(i)
    <2>0. PICK q \in Requests : q = waits[i]
      BY <1>d, <1>6, Zenon DEF GoesOn, Answered
    <2>1. requests' = [requests EXCEPT ![q] =
                 [at |-> "arrived", op |-> "reschedule", intent |-> i, attended |-> TRUE,
                  answer |-> "OK", seen |-> CHOOSE f \in Flights : TRUE]]
            /\ UNCHANGED <<phase, carried>>
      BY <1>6, <2>0, Zenon DEF GoesOn, Arrive, callers
    <2>2. requests'[q].at = "arrived" /\ \A p \in Requests \ {q} : requests'[p] = requests[p]
      BY <1>d, <2>1, SMT
    <2>3. ~Claims(requests[q])'
      BY <2>2, SMT DEF Claims
    <2> QED BY <1>a, <1>c, <2>1, <2>2, <2>3, OneClaims, Zenon
  <1>7. CASE TurnSucceeds(i)
    <2>1. Claims(requests[waits[i]]) /\ waits[i] # NoRequest
      BY <1>7, Zenon DEF TurnSucceeds, Answered, OnOptions, AnswerTo, Claims
    <2>2. waits[i] \in Requests /\ Busy(waits[i]) /\ requests[waits[i]].intent = i
      BY <1>a, <1>d, <2>1, Zenon DEF Attends
    <2>3. carried[i] # 0
      BY <2>1, <2>2, Zenon DEF Truthful
    <2> QED BY <1>3, <1>7, <1>e, <2>3, Zenon DEF TurnSucceeds
  <1>8. CASE TurnFails(i) \/ TurnEnqueues(i) \/ TurnDies(i)
    BY <1>3, <1>8, <1>e, Zenon DEF TurnFails, TurnEnqueues, TurnDies
  <1>9. CASE JobSucceeds(i) \/ WorkerDies(i)
    BY <1>3, <1>9, <1>e, Zenon DEF JobSucceeds, WorkerDies
  <1>10. CASE JobFails(i)
    <2>1. Ends(i, "failed") \/ Ends(i, "waiting") \/ Ends(i, "dead")
      BY <1>10, Zenon DEF JobFails
    <2> QED BY <1>3, <1>10, <1>e, <2>1, Zenon DEF JobFails
  <1>11. CASE Recover(i) \/ Requeue(i)
    BY <1>4, <1>11, Zenon DEF Recover, Requeue, service
  <1> QED BY <1>5, <1>6, <1>7, <1>8, <1>9, <1>10, <1>11, Zenon DEF CallerStep

LEMMA TruthHolds == Spec => []Truthful
  <1>1. Init => Truthful
    <2> SUFFICES ASSUME Init PROVE Truthful
      OBVIOUS
    <2>1. \A q \in Requests : ~Busy(q)
      BY Zenon DEF Init, ServiceInit, Busy
    <2>2. \A i \in Intents : phase[i] = "unasked"
      BY Zenon DEF Init
    <2>3. "unasked" # "confirmed"
      OBVIOUS
    <2> QED BY <2>1, <2>2, <2>3, Zenon DEF Truthful
  <1>2. IInv /\ Truthful /\ [Next]_vars => Truthful'
    <2> SUFFICES ASSUME IInv, Truthful, [Next]_vars PROVE Truthful'
      OBVIOUS
    <2>1. CASE (\E q \in Requests : HandlerStep(q) \/ HandlerFails(q)) /\ UNCHANGED callers
      BY <2>1, HandlerKeepsTruth, Zenon DEF callers
    <2>2. CASE UNCHANGED <<requests, carried, phase>>
      BY <2>2, Zenon DEF Truthful, Busy, Claims
    <2> QED BY <2>1, <2>2, CallerKeepsTruth, Zenon
          DEF Next, ServiceNext, TimePasses, vars, service, callers
  <1> QED BY <1>1, <1>2, InvariantHolds, PTL DEF Spec

\* The agent never tells a customer of a change that was not made, whatever chaos puts in
\* the body of a 200: a well-shaped answer to a change comes only after its UPDATE.
THEOREM CustomerToldTheTruth ==
  ASSUME Patient
  PROVE  Spec => []ConfirmedIsCarriedOut
  <1>1. Once /\ Truthful => ConfirmedIsCarriedOut
    BY Zenon DEF Once, Remembered, Truthful, ConfirmedIsCarriedOut
  <1> QED BY <1>1, OnceHolds, TruthHolds, PTL

-----------------------------------------------------------------------------
(* Refunds. *)

\* At most one intent is to cancel a booking: two of them would be two customers' wishes, which
\* the service does not keep apart.
OneCancellation ==
    \A i, j \in Intents :
      OpOf[i] = "cancel" /\ OpOf[j] = "cancel" /\ BookingOf[i] = BookingOf[j] => i = j

\* A request past the check of the status, on its way to the refund.
Owing(r) == r.op = "cancel" /\ r.at \in {"update", "refund"}

\* A refund is there only once the booking is cancelled, not while a request is on its way
\* to it, and is missing only then or after a fault.
Settled ==
    /\ \A b \in Bookings :
         refunds[b] = 0 \/ (refunds[b] = 1 /\ b \in Refundable /\ booking[b].status = "CANCELLED")
    /\ \A q \in Requests : Busy(q) /\ Owing(requests[q]) => refunds[Subject(q)] = 0
    /\ \A q \in Requests :
         At(q, "cancel", "refund") => Subject(q) \in Refundable /\ Row(q).status = "CANCELLED"
    /\ \A b \in Refundable :
         booking[b].status = "CANCELLED" /\ faults = 0 /\ refunds[b] = 0 => Cancelling(b)

\* Nobody sets out for a refund, and nobody gives up on one.
NoneNew ==
    \A p \in Requests : Busy(p)' /\ Owing(requests[p])' =>
      /\ Busy(p) /\ requests'[p].at = requests[p].at /\ requests'[p].op = requests[p].op
      /\ requests'[p].intent = requests[p].intent

NoneGone ==
    \A p \in Requests : At(p, "cancel", "refund") =>
      At(p, "cancel", "refund")' /\ requests'[p].intent = requests[p].intent

LEMMA NothingOwed ==
  ASSUME Settled, NoneNew, NoneGone \/ faults' # 0, UNCHANGED <<booking, refunds>>,
         faults' = 0 => faults = 0
  PROVE  Settled'
  <1>1. \A p \in Requests : Busy(p)' /\ Owing(requests[p])' => Busy(p) /\ Owing(requests[p])
    BY Zenon DEF NoneNew, Owing
  <1>2. \A p \in Requests : Busy(p)' /\ Owing(requests[p])' => Subject(p)' = Subject(p)
    BY Zenon DEF NoneNew, Subject
  <1>3. \A p \in Requests : At(p, "cancel", "refund")' => Busy(p)' /\ Owing(requests[p])'
    BY SMT DEF At, Owing
  <1>4. \A p \in Requests : At(p, "cancel", "refund")' => At(p, "cancel", "refund")
    BY <1>3, Zenon DEF NoneNew, At
  <1>5. \A p \in Requests : At(p, "cancel", "refund")'
          => Subject(p)' \in Refundable /\ Row(p)'.status = "CANCELLED"
    BY <1>2, <1>3, <1>4, Zenon DEF Settled, Row
  <1>6. ASSUME NEW b \in Refundable, booking'[b].status = "CANCELLED", faults' = 0, refunds'[b] = 0
        PROVE  Cancelling(b)'
    <2>1. Cancelling(b)
      BY <1>6, Zenon DEF Settled
    <2> QED BY <1>6, <2>1, Zenon DEF Cancelling, NoneGone, Subject
  <1> QED BY <1>1, <1>2, <1>5, <1>6, Zenon DEF Settled

\* One request changed, that neither sets out for a refund nor gives up on one.
LEMMA OneUnowing ==
  ASSUME NEW q, \A p \in Requests \ {q} : requests'[p] = requests[p],
         Busy(q)' => ~Owing(requests[q])'
  PROVE  NoneNew /\ (~At(q, "cancel", "refund") => NoneGone)
  <1>1. \A p \in Requests \ {q} : Busy(p)' <=> Busy(p)
    BY Zenon DEF Busy
  <1> QED BY <1>1, Zenon DEF NoneNew, NoneGone, At

LEMMA ReplyOwesNothing ==
  ASSUME TypeOK, NEW q \in Requests, Busy(q), NEW a \in Answers \cup ClientErrors, Reply(q, a)
  PROVE  /\ \A p \in Requests \ {q} : requests'[p] = requests[p]
         /\ Busy(q)' => ~Owing(requests[q])'
  <1>1. requests \in [Requests -> {Free} \cup Request] /\ requests[q] \in Request
    BY BusyIsRequest, Zenon DEF TypeOK, ServiceTypeOK
  <1>2. /\ \A p \in Requests \ {q} : requests'[p] = requests[p]
        /\ requests'[q] = Free \/ requests'[q] = WithAnswer(requests[q], a)
    BY <1>1, Zenon DEF Reply, WithAnswer
  <1>3. CASE requests'[q] = WithAnswer(requests[q], a)
    <2>1. requests'[q].at = "answered"
      BY <1>1, <1>3, AnswerKeepsRest, Zenon
    <2> QED BY <1>2, <2>1, SMT DEF Owing
  <1> QED BY <1>2, <1>3, Zenon DEF Busy

LEMMA PlaceIs ==
  ASSUME TypeOK, NEW q \in Requests, Busy(q), NEW place, GoesTo(q, place)
  PROVE  /\ \A p \in Requests \ {q} : requests'[p] = requests[p]
         /\ requests'[q].at = place /\ requests'[q].op = requests[q].op
         /\ requests'[q].intent = requests[q].intent
         /\ place \in Handling => Busy(q)'
  <1>1. requests \in [Requests -> {Free} \cup Request] /\ requests[q] \in Request
    BY BusyIsRequest, Zenon DEF TypeOK, ServiceTypeOK
  <1>2. /\ \A p \in Requests \ {q} : requests'[p] = requests[p]
        /\ requests'[q] = WithPlace(requests[q], place)
    BY <1>1, Zenon DEF GoesTo, WithPlace
  <1>3. /\ requests'[q].at = place /\ requests'[q].op = requests[q].op
        /\ requests'[q].intent = requests[q].intent
    BY <1>1, <1>2, SMT DEF Request, WithPlace
  <1>4. place \in Handling => requests'[q] # Free
    <2>1. place \in Handling => WithPlace(requests[q], place) # Free
      BY <1>1, PlaceKeepsRest, Zenon
    <2> QED BY <1>2, <2>1, Zenon
  <1> QED BY <1>2, <1>3, <1>4, Zenon DEF Busy

LEMMA CancelLoadsSettled ==
  ASSUME TypeOK, RequestsOK, Settled, NEW q \in Requests, CancelLoads(q)
  PROVE  Settled'
  <1>1. /\ Busy(q) /\ requests[q].op = "cancel" /\ requests[q].at = "arrived"
        /\ UNCHANGED <<booking, refunds, faults>>
    BY Zenon DEF CancelLoads, At
  <1>2. ~At(q, "cancel", "refund")
    BY <1>1, SMT DEF At
  <1>3. CASE CancelVerdict(q) # "OK"
    <2>1. CancelVerdict(q) \in Answers \cup ClientErrors
      BY <1>3, SMT DEF CancelVerdict, Answers, Refusals
    <2>2. Reply(q, CancelVerdict(q))
      BY <1>3, Zenon DEF CancelLoads
    <2> QED BY <1>1, <1>2, <2>1, <2>2, ReplyOwesNothing, OneUnowing, NothingOwed, Zenon
  <1>4. CASE CancelVerdict(q) = "OK"
    <2>1. Subject(q) \in Bookings /\ Row(q).status # "CANCELLED"
      BY <1>4, SMT DEF CancelVerdict
    <2>2. refunds[Subject(q)] = 0
      BY <2>1, Zenon DEF Settled, Row
    <2>3. GoesTo(q, "update") /\ "update" # "refund"
      BY <1>4, Zenon DEF CancelLoads
    <2>4. /\ \A p \in Requests \ {q} : requests'[p] = requests[p]
          /\ requests'[q].at = "update" /\ requests'[q].intent = requests[q].intent
      BY <1>1, <2>3, PlaceIs, Zenon
    <2>5. \A p \in Requests \ {q} : /\ Busy(p)' <=> Busy(p)
                                    /\ Owing(requests[p])' <=> Owing(requests[p])
                                    /\ Subject(p)' = Subject(p)
                                    /\ At(p, "cancel", "refund")' <=> At(p, "cancel", "refund")
      BY <2>4, Zenon DEF Busy, Owing, Subject, At
    <2>6. Subject(q)' = Subject(q) /\ ~At(q, "cancel", "refund")'
      BY <2>3, <2>4, Zenon DEF Subject, At
    <2>7. \A p \in Requests : Busy(p)' /\ Owing(requests[p])' => refunds'[Subject(p)'] = 0
      BY <1>1, <2>2, <2>5, <2>6, Zenon DEF Settled
    <2>8. \A p \in Requests :
            At(p, "cancel", "refund")' => Subject(p)' \in Refundable /\ Row(p)'.status = "CANCELLED"
      BY <1>1, <2>5, <2>6, Zenon DEF Settled, Row
    <2>9. \A b \in Bookings : Cancelling(b) => Cancelling(b)'
      BY <1>2, <2>5, Zenon DEF Cancelling
    <2> QED BY <1>1, <2>7, <2>8, <2>9, BookingsAssumption, Zenon DEF Settled
  <1> QED BY <1>3, <1>4, Zenon

LEMMA CancelUpdatesSettled ==
  ASSUME TypeOK, RequestsOK, Settled, NEW q \in Requests, CancelUpdates(q)
  PROVE  Settled'
  <1>1. /\ Busy(q) /\ requests[q].op = "cancel" /\ requests[q].at = "update"
        /\ UNCHANGED <<refunds, faults>>
    BY Zenon DEF CancelUpdates, At
  <1>2. Subject(q) \in Bookings /\ ~At(q, "cancel", "refund") /\ Owing(requests[q])
    BY <1>1, RequestSubject, SMT DEF At, Owing
  <1>3. refunds[Subject(q)] = 0
    BY <1>1, <1>2, Zenon DEF Settled
  <1>4. /\ booking'[Subject(q)].status = "CANCELLED"
        /\ \A b \in Bookings \ {Subject(q)} : booking'[b] = booking[b]
    <2>1. booking \in [Bookings -> BookingRow]
      BY Zenon DEF TypeOK, ServiceTypeOK, BookingRow
    <2>2. booking' = [booking EXCEPT ![Subject(q)] = Cancelled(booking[Subject(q)])]
      BY Zenon DEF CancelUpdates, Cancelled
    <2> QED BY <1>2, <2>1, <2>2, CancelledRow, Zenon
  <1>5. \A p \in Requests \ {q} : requests'[p] = requests[p]
    <2>1. "OK" \in Answers \cup ClientErrors
      BY SMT DEF Answers
    <2> QED BY <1>1, <2>1, ReplyOwesNothing, PlaceIs, Zenon DEF CancelUpdates
  <1>6. \A p \in Requests \ {q} : /\ Busy(p)' <=> Busy(p)
                                  /\ Owing(requests[p])' <=> Owing(requests[p])
                                  /\ Subject(p)' = Subject(p)
                                  /\ At(p, "cancel", "refund")' <=> At(p, "cancel", "refund")
    BY <1>5, Zenon DEF Busy, Owing, Subject, At
  <1>7. \A b \in Bookings : booking[b].status = "CANCELLED" => booking'[b].status = "CANCELLED"
    BY <1>4, Zenon
  <1>8. \A b \in Bookings : Cancelling(b) => Cancelling(b)'
    BY <1>2, <1>6, Zenon DEF Cancelling
  <1>9. CASE Subject(q) \in Refundable
    <2>1. "refund" \in Handling
      BY Zenon DEF Handling
    <2>2. /\ requests'[q].at = "refund" /\ requests'[q].op = "cancel"
          /\ requests'[q].intent = requests[q].intent /\ Busy(q)'
      BY <1>1, <1>9, <2>1, PlaceIs, Zenon DEF CancelUpdates
    <2>3. Subject(q)' = Subject(q) /\ At(q, "cancel", "refund")'
      BY <2>2, Zenon DEF Subject, At
    <2>4. \A p \in Requests : Busy(p)' /\ Owing(requests[p])' => refunds'[Subject(p)'] = 0
      BY <1>1, <1>3, <1>6, <2>3, Zenon DEF Settled
    <2>5. \A p \in Requests :
            At(p, "cancel", "refund")' => Subject(p)' \in Refundable /\ Row(p)'.status = "CANCELLED"
      BY <1>4, <1>6, <1>7, <1>9, <2>3, BookingsAssumption, Zenon DEF Settled, Row
    <2>6. ASSUME NEW b \in Refundable, booking'[b].status = "CANCELLED", faults' = 0, refunds'[b] = 0
          PROVE  Cancelling(b)'
      <3>1. CASE b = Subject(q)
        BY <2>3, <3>1, Zenon DEF Cancelling
      <3>2. CASE b # Subject(q)
        <4>1. b \in Bookings /\ booking[b].status = "CANCELLED" /\ faults = 0 /\ refunds[b] = 0
          BY <1>1, <1>4, <2>6, <3>2, BookingsAssumption, Zenon
        <4>2. Cancelling(b)
          BY <4>1, Zenon DEF Settled
        <4> QED BY <1>8, <4>1, <4>2, Zenon
      <3> QED BY <3>1, <3>2, Zenon
    <2> QED BY <1>1, <1>7, <2>4, <2>5, <2>6, Zenon DEF Settled
  <1>10. CASE Subject(q) \notin Refundable
    <2>1. "OK" \in Answers \cup ClientErrors
      BY SMT DEF Answers
    <2>2. Busy(q)' => ~Owing(requests[q])'
      BY <1>1, <1>10, <2>1, ReplyOwesNothing, Zenon DEF CancelUpdates
    <2>3. ~At(q, "cancel", "refund")'
      BY <2>2, SMT DEF At, Owing
    <2>4. \A p \in Requests : Busy(p)' /\ Owing(requests[p])' => refunds'[Subject(p)'] = 0
      BY <1>1, <1>6, <2>2, Zenon DEF Settled
    <2>5. \A p \in Requests :
            At(p, "cancel", "refund")' => Subject(p)' \in Refundable /\ Row(p)'.status = "CANCELLED"
      BY <1>6, <1>7, <2>3, BookingsAssumption, Zenon DEF Settled, Row
    <2>6. \A b \in Refundable : booking'[b].status = "CANCELLED" /\ faults' = 0 /\ refunds'[b] = 0
                                  => Cancelling(b)'
      BY <1>1, <1>4, <1>8, <1>10, BookingsAssumption, Zenon DEF Settled
    <2> QED BY <1>1, <1>7, <2>4, <2>5, <2>6, Zenon DEF Settled
  <1> QED BY <1>9, <1>10, Zenon

LEMMA InsertRefundSettled ==
  ASSUME TypeOK, RequestsOK, OneTry, OneCancellation, Settled, NEW q \in Requests, InsertRefund(q)
  PROVE  Settled'
  <1>1. /\ At(q, "cancel", "refund") /\ Busy(q) /\ requests[q].at = "refund"
        /\ requests[q].op = "cancel" /\ UNCHANGED <<booking, faults>>
    BY Zenon DEF InsertRefund, At
  <1>2. /\ Subject(q) \in Bookings /\ Subject(q) \in Refundable /\ Row(q).status = "CANCELLED"
        /\ refunds[Subject(q)] = 0
    BY <1>1, BookingsAssumption, SMT DEF Settled, Owing
  <1>3. /\ refunds'[Subject(q)] = 1
        /\ \A b \in Bookings \ {Subject(q)} : refunds'[b] = refunds[b]
    BY <1>2, SMT DEF InsertRefund, TypeOK, ServiceTypeOK
  <1>4. /\ \A p \in Requests \ {q} : requests'[p] = requests[p]
        /\ Busy(q)' => ~Owing(requests[q])'
    <2>1. "OK" \in Answers \cup ClientErrors
      BY SMT DEF Answers
    <2> QED BY <1>1, <2>1, ReplyOwesNothing, Zenon DEF InsertRefund
  <1>5. \A p \in Requests \ {q} : /\ Busy(p)' <=> Busy(p)
                                  /\ Owing(requests[p])' <=> Owing(requests[p])
                                  /\ Subject(p)' = Subject(p)
                                  /\ At(p, "cancel", "refund")' <=> At(p, "cancel", "refund")
    BY <1>4, Zenon DEF Busy, Owing, Subject, At
  \* Nobody else is on the way to a refund of this booking.
  <1>6. ASSUME NEW p \in Requests \ {q}, Busy(p), Owing(requests[p])
        PROVE  Subject(p) # Subject(q) /\ Subject(p) \in Bookings
    <2>1. /\ requests[p].intent \in Intents /\ OpOf[requests[p].intent] = "cancel"
          /\ requests[q].intent \in Intents /\ OpOf[requests[q].intent] = "cancel"
      BY <1>1, <1>6, RequestSubject, Zenon DEF RequestsOK, Sound, Owing
    <2>2. requests[p].intent # requests[q].intent
      BY <1>1, <1>6, Zenon DEF OneTry
    <2>3. Subject(p) # Subject(q)
      BY <2>1, <2>2, Zenon DEF OneCancellation, Subject
    <2>4. Subject(p) \in Bookings
      BY <1>6, RequestSubject, SMT DEF Owing
    <2> QED BY <2>3, <2>4, Zenon
  <1>7. \A p \in Requests : Busy(p)' /\ Owing(requests[p])' => refunds'[Subject(p)'] = 0
    <2>1. TAKE p \in Requests
    <2>2. HAVE Busy(p)' /\ Owing(requests[p])'
    <2>3. p \in Requests \ {q} /\ Busy(p) /\ Owing(requests[p]) /\ Subject(p)' = Subject(p)
      BY <1>4, <1>5, <2>2, Zenon
    <2>4. Subject(p) \in Bookings \ {Subject(q)}
      BY <1>6, <2>3, Zenon
    <2>5. refunds[Subject(p)] = 0
      BY <2>3, Zenon DEF Settled
    <2> QED BY <1>3, <2>3, <2>4, <2>5, Zenon
  <1>8. ~At(q, "cancel", "refund")'
    BY <1>4, SMT DEF At, Owing
  <1>9. \A p \in Requests :
          At(p, "cancel", "refund")' => Subject(p)' \in Refundable /\ Row(p)'.status = "CANCELLED"
    BY <1>1, <1>5, <1>8, Zenon DEF Settled, Row
  <1>10. ASSUME NEW b \in Refundable, booking'[b].status = "CANCELLED", faults' = 0, refunds'[b] = 0
         PROVE  Cancelling(b)'
    <2>1. b # Subject(q)
      BY <1>3, <1>10, SMT
    <2>2. Cancelling(b)
      BY <1>1, <1>3, <1>10, <2>1, BookingsAssumption, Zenon DEF Settled
    <2> QED BY <1>5, <2>1, <2>2, Zenon DEF Cancelling
  <1>11. \A b \in Bookings :
           refunds'[b] = 0 \/ (refunds'[b] = 1 /\ b \in Refundable /\ booking'[b].status = "CANCELLED")
    BY <1>1, <1>2, <1>3, Zenon DEF Settled, Row
  <1> QED BY <1>7, <1>9, <1>10, <1>11, Zenon DEF Settled

LEMMA RescheduleSettled ==
  ASSUME TypeOK, RequestsOK, RowsOK, Settled, NEW q \in Requests, RescheduleUpdates(q)
  PROVE  Settled'
  <1>1. /\ Busy(q) /\ requests[q].at = "update" /\ requests[q].op = "reschedule"
        /\ Subject(q) \in Bookings /\ UNCHANGED <<refunds, faults>>
    BY RequestSubject, SMT DEF RescheduleUpdates, At
  <1>2. ~At(q, "cancel", "refund")
    BY <1>1, SMT DEF At
  <1>3. NoneNew /\ NoneGone
    <2>1. "OK" \in Answers \cup ClientErrors /\ "CRASHED" \in Answers \cup ClientErrors
      BY SMT DEF Answers
    <2>2. Reply(q, "OK") \/ Reply(q, "CRASHED")
      BY Zenon DEF RescheduleUpdates
    <2> QED BY <1>1, <1>2, <2>1, <2>2, ReplyOwesNothing, OneUnowing, Zenon
  <1>4. CASE Row(q).cancelledAt
    BY <1>1, <1>3, <1>4, NothingOwed, Zenon DEF RescheduleUpdates
  <1>5. CASE ~Row(q).cancelledAt
    <2>1. booking \in [Bookings -> BookingRow] /\ booking[Subject(q)].status # "CANCELLED"
      BY <1>1, <1>5, Zenon DEF TypeOK, ServiceTypeOK, BookingRow, RowsOK, Row
    <2>2. booking' = [booking EXCEPT ![Subject(q)] =
                        [booking[Subject(q)] EXCEPT !.status = "RESCHEDULED", !.flight = Wanted(q)]]
      BY <1>5, Zenon DEF RescheduleUpdates
    <2>3. /\ booking'[Subject(q)].status = "RESCHEDULED"
          /\ \A b \in Bookings \ {Subject(q)} : booking'[b] = booking[b]
      <3>1. booking[Subject(q)] \in BookingRow
        BY <1>1, <2>1, Zenon
      <3>2. [booking[Subject(q)] EXCEPT !.status = "RESCHEDULED", !.flight = Wanted(q)].status = "RESCHEDULED"
        BY <3>1, SMT DEF BookingRow
      <3> QED BY <1>1, <2>1, <2>2, <3>2, Zenon
    <2>4. \A b \in Bookings : booking[b].status = "CANCELLED" <=> booking'[b].status = "CANCELLED"
      <3>1. "RESCHEDULED" # "CANCELLED"
        OBVIOUS
      <3> QED BY <2>1, <2>3, <3>1, Zenon
    <2>5. \A p \in Requests : Busy(p)' /\ Owing(requests[p])' =>
            Busy(p) /\ Owing(requests[p]) /\ Subject(p)' = Subject(p)
      BY <1>3, Zenon DEF NoneNew, Owing, Subject
    <2>6. \A p \in Requests : At(p, "cancel", "refund")' =>
            At(p, "cancel", "refund") /\ Subject(p)' = Subject(p)
      <3>1. \A p \in Requests : At(p, "cancel", "refund")' => Busy(p)' /\ Owing(requests[p])'
        BY SMT DEF At, Owing
      <3> QED BY <1>3, <2>5, <3>1, Zenon DEF NoneNew, At
    <2>7. \A p \in Requests :
            At(p, "cancel", "refund")' => Subject(p)' \in Refundable /\ Row(p)'.status = "CANCELLED"
      BY <2>4, <2>6, BookingsAssumption, Zenon DEF Settled, Row
    <2>8. \A b \in Refundable : Cancelling(b) => Cancelling(b)'
      BY <1>3, Zenon DEF Cancelling, NoneGone, Subject
    <2> QED BY <1>1, <2>4, <2>5, <2>7, <2>8, BookingsAssumption, Zenon DEF Settled
  <1> QED BY <1>4, <1>5, Zenon

\* The other steps of a handler touch no table, and the refund only by failing.
LEMMA HandlerKeepsSettled ==
  ASSUME IInv, OneTry, OneCancellation, Settled, NEW q \in Requests,
         HandlerStep(q) \/ HandlerFails(q)
  PROVE  Settled'
  <1>a. TypeOK /\ RequestsOK /\ RowsOK
    BY Zenon DEF IInv
  <1>b. Busy(q)
    BY Zenon DEF HandlerStep, HandlerFails, ChaosAnswers, ChaosHangs, HangEnds, CancelLoads,
      CancelUpdates, InsertRefund, LoadBooking, ListOptions, CheckTarget, RescheduleUpdates, At
  <1>c. \A a \in Refusals \cup ChaosErrors \cup {"MALFORMED", "CRASHED", "LOST", "OK", "NOT_LISTED"} :
           a \in Answers \cup ClientErrors
    BY SMT DEF Refusals, ChaosErrors, Answers, ClientErrors
  <1>1. ASSUME NEW a \in Answers \cup ClientErrors, Reply(q, a), ~At(q, "cancel", "refund"),
               UNCHANGED <<booking, refunds, faults>>
        PROVE  Settled'
    BY <1>a, <1>b, <1>1, ReplyOwesNothing, OneUnowing, NothingOwed, Zenon
  <1>2. ASSUME \A p \in Requests \ {q} : requests'[p] = requests[p],
               Busy(q)' => ~Owing(requests[q])', ~At(q, "cancel", "refund"),
               UNCHANGED <<booking, refunds, faults>>
        PROVE  Settled'
    BY <1>2, OneUnowing, NothingOwed, Zenon
  <1>3. requests \in [Requests -> {Free} \cup Request] /\ requests[q] \in Request
    BY <1>a, <1>b, BusyIsRequest, Zenon DEF TypeOK, ServiceTypeOK
  <1>4. CASE ChaosAnswers(q)
    <2>1. PICK a \in ChaosKinds \ {"hang"} : Reply(q, a)
      BY <1>4, Zenon DEF ChaosAnswers
    <2>2. a \in Answers \cup ClientErrors
      BY <1>c, <2>1, ChaosAssumption, Zenon
    <2>3. ~At(q, "cancel", "refund")
      BY <1>4, SMT DEF ChaosAnswers, At
    <2> QED BY <1>1, <1>4, <2>1, <2>2, <2>3, Zenon DEF ChaosAnswers
  <1>5. CASE ChaosHangs(q)
    <2>1. ~At(q, "cancel", "refund") /\ UNCHANGED <<booking, refunds, faults>>
      BY <1>5, SMT DEF ChaosHangs, At
    <2>2. CASE requests[q].attended
      <3>1. /\ \A p \in Requests \ {q} : requests'[p] = requests[p]
            /\ requests'[q].at = "hung"
        BY <1>a, <1>b, <1>5, <2>2, PlaceIs, Zenon DEF ChaosHangs
      <3>2. ~Owing(requests[q])'
        BY <3>1, SMT DEF Owing
      <3> QED BY <1>2, <2>1, <3>1, <3>2, Zenon
    <2>3. CASE ~requests[q].attended
      <3>1. requests' = [requests EXCEPT ![q] = Free]
        BY <1>5, <2>3, Zenon DEF ChaosHangs
      <3>2. ~Busy(q)' /\ \A p \in Requests \ {q} : requests'[p] = requests[p]
        BY <1>3, <3>1, Zenon DEF Busy
      <3> QED BY <1>2, <2>1, <3>2, Zenon
    <2> QED BY <2>2, <2>3, Zenon
  <1>6. CASE HangEnds(q)
    <2>1. ~At(q, "cancel", "refund") /\ UNCHANGED <<booking, refunds, faults>>
      BY <1>6, SMT DEF HangEnds, At
    <2>2. "UPSTREAM_TIMEOUT" \in Answers \cup ClientErrors
      BY SMT DEF Answers, ChaosErrors
    <2> QED BY <1>1, <1>6, <2>1, <2>2, Zenon DEF HangEnds
  <1>7. CASE LoadBooking(q)
    <2>1. ~At(q, "cancel", "refund") /\ UNCHANGED <<booking, refunds, faults>>
      BY <1>7, SMT DEF LoadBooking, At
    <2>2. CASE LoadVerdict(q) = "OK"
      <3>1. requests' = [requests EXCEPT ![q] = WithFlight(requests[q], Row(q).flight)]
        BY <1>7, <2>2, Zenon DEF LoadBooking, WithFlight
      <3>2. /\ requests'[q] = WithFlight(requests[q], Row(q).flight)
            /\ \A p \in Requests \ {q} : requests'[p] = requests[p]
        BY <1>3, <3>1, Zenon
      <3>3. requests'[q].at = "loaded"
        BY <1>3, <3>2, SMT DEF Request, WithFlight
      <3>4. ~Owing(requests[q])'
        BY <3>3, SMT DEF Owing
      <3> QED BY <1>2, <2>1, <3>2, <3>4, Zenon
    <2>3. CASE LoadVerdict(q) # "OK"
      <3>1. LoadVerdict(q) \in Answers \cup ClientErrors
        BY <2>3, SMT DEF LoadVerdict, Answers, Refusals
      <3> QED BY <1>1, <1>7, <2>1, <2>3, <3>1, Zenon DEF LoadBooking
    <2> QED BY <2>2, <2>3, Zenon
  <1>8. CASE ListOptions(q)
    <2>1. ~At(q, "cancel", "refund") /\ UNCHANGED <<booking, refunds, faults>>
      BY <1>8, SMT DEF ListOptions, At
    <2>2. PICK a \in {"OK", "NOT_LISTED", "NO_ALTERNATIVES"} : Reply(q, a)
      BY <1>8, Zenon DEF ListOptions
    <2>3. a \in Answers \cup ClientErrors
      BY <2>2, SMT DEF Answers, Refusals
    <2> QED BY <1>1, <2>1, <2>2, <2>3, Zenon
  <1>9. CASE CheckTarget(q)
    <2>1. /\ ~At(q, "cancel", "refund") /\ UNCHANGED <<booking, refunds, faults>>
          /\ requests[q].op # "cancel"
      BY <1>9, SMT DEF CheckTarget, At
    <2>2. CASE TargetVerdict(q) = "OK"
      <3>1. /\ \A p \in Requests \ {q} : requests'[p] = requests[p]
            /\ requests'[q].op = requests[q].op
        BY <1>a, <1>b, <1>9, <2>2, PlaceIs, Zenon DEF CheckTarget
      <3>2. ~Owing(requests[q])'
        BY <2>1, <3>1, Zenon DEF Owing
      <3> QED BY <1>2, <2>1, <3>1, <3>2, Zenon
    <2>3. CASE TargetVerdict(q) # "OK"
      <3>1. TargetVerdict(q) \in Answers \cup ClientErrors
        BY <2>3, SMT DEF TargetVerdict, Answers, Refusals
      <3> QED BY <1>1, <1>9, <2>1, <2>3, <3>1, Zenon DEF CheckTarget
    <2> QED BY <2>2, <2>3, Zenon
  <1>10. CASE HandlerFails(q)
    <2>1. PICK a \in {"CRASHED", "LOST"} : Reply(q, a)
      BY <1>10, Zenon DEF HandlerFails
    <2>2. UNCHANGED <<booking, refunds>> /\ faults' = faults + 1
      BY <1>10, Zenon DEF HandlerFails
    <2>3. faults' # 0
      BY <1>a, <2>2, SMT DEF TypeOK, ServiceTypeOK
    <2>4. NoneNew
      BY <1>a, <1>b, <1>c, <2>1, ReplyOwesNothing, OneUnowing, Zenon
    <2> QED BY <2>2, <2>3, <2>4, NothingOwed, Zenon
  <1> QED BY <1>a, <1>4, <1>5, <1>6, <1>7, <1>8, <1>9, <1>10, CancelLoadsSettled,
        CancelUpdatesSettled, InsertRefundSettled, RescheduleSettled, Zenon DEF HandlerStep

LEMMA CallerKeepsSettled ==
  ASSUME IInv, Settled, NEW i \in Intents,
         Ask(i) \/ CallerStep(i) \/ TurnDies(i) \/ WorkerDies(i) \/ Requeue(i)
  PROVE  Settled'
  <1>a. TypeOK /\ Attends(i)
    BY Zenon DEF IInv, TypeOK
  <1>b. phase[i] \in {"turn", "working"} => waits[i] # NoRequest
    BY <1>a, Zenon DEF Attends
  <1>c. requests \in [Requests -> {Free} \cup Request] /\ waits \in [Intents -> Requests \cup {NoRequest}]
    BY <1>a, Zenon DEF TypeOK, ServiceTypeOK
  <1>1. ASSUME Calls(i), UNCHANGED <<booking, refunds, faults>> PROVE Settled'
    <2>1. PICK q \in Requests :
            /\ requests[q] = Free
            /\ requests' = [requests EXCEPT ![q] =
                 [at |-> "arrived", op |-> FirstOp(i), intent |-> i, attended |-> TRUE,
                  answer |-> "OK", seen |-> CHOOSE f \in Flights : TRUE]]
      BY <1>1, Zenon DEF Calls, Arrive
    <2>2. requests'[q].at = "arrived" /\ \A p \in Requests \ {q} : requests'[p] = requests[p]
      BY <1>c, <2>1, SMT
    <2>3. ~Owing(requests[q])' /\ ~At(q, "cancel", "refund")
      BY <2>1, <2>2, SMT DEF Owing, At, Busy
    <2> QED BY <1>1, <2>2, <2>3, OneUnowing, NothingOwed, Zenon
  <1>2. ASSUME NEW to, Ends(i, to), phase[i] \in {"turn", "working"} PROVE Settled'
    <2>0. PICK q \in Requests : q = waits[i]
      BY <1>b, <1>c, <1>2, Zenon
    <2>1. Busy(q) /\ requests[q] \in Request
      BY <1>a, <1>b, <1>2, <2>0, BusyIsRequest, Zenon DEF Attends
    <2>2. UNCHANGED <<booking, refunds, faults>>
      BY <1>2, Zenon DEF Ends
    <2>3. \A p \in Requests \ {q} : requests'[p] = requests[p]
      BY <1>c, <1>2, <2>0, Zenon DEF Ends, Abandon
    <2>4. CASE requests[q].at \in Handling
      <3>1. requests'[q] = [requests[q] EXCEPT !.attended = FALSE]
        BY <1>c, <1>2, <2>0, <2>4, Zenon DEF Ends, Abandon
      <3>2. /\ requests'[q].at = requests[q].at /\ requests'[q].op = requests[q].op
            /\ requests'[q].intent = requests[q].intent
        BY <2>1, <3>1, SMT DEF Request
      <3>3. Busy(q)'
        BY <2>1, <3>1, AbandonedIsRequest, FreeIsNoRequest, Zenon DEF Busy
      <3>4. NoneNew /\ NoneGone
        BY <2>1, <2>3, <3>2, <3>3, Zenon DEF NoneNew, NoneGone, At, Busy
      <3> QED BY <2>2, <3>4, NothingOwed, Zenon
    <2>5. CASE requests[q].at \notin Handling
      <3>1. requests'[q] = Free
        BY <1>c, <1>2, <2>0, <2>5, Zenon DEF Ends, Abandon
      <3>2. ~Busy(q)' /\ ~At(q, "cancel", "refund")
        BY <2>5, <3>1, Zenon DEF Busy, At, Handling
      <3> QED BY <2>2, <2>3, <3>2, OneUnowing, NothingOwed, Zenon
    <2> QED BY <2>4, <2>5, Zenon
  <1>3. ASSUME UNCHANGED <<requests, booking, refunds, faults>> PROVE Settled'
    <2>1. NoneNew /\ NoneGone
      BY <1>3, Zenon DEF NoneNew, NoneGone, Busy, At
    <2> QED BY <1>3, <2>1, NothingOwed, Zenon
  <1>e. "turn" \in {"turn", "working"} /\ "working" \in {"turn", "working"}
    OBVIOUS
  <1>4. CASE Ask(i) \/ Take(i)
    BY <1>1, <1>4, Zenon DEF Ask, Take
  <1>5. CASE GoesOn(i)
    <2>0. PICK q \in Requests : q = waits[i]
      BY <1>c, <1>5, Zenon DEF GoesOn, Answered
    <2>1. requests' = [requests EXCEPT ![q] =
                 [at |-> "arrived", op |-> "reschedule", intent |-> i, attended |-> TRUE,
                  answer |-> "OK", seen |-> CHOOSE f \in Flights : TRUE]]
            /\ UNCHANGED <<booking, refunds, faults>>
      BY <1>5, <2>0, Zenon DEF GoesOn, Arrive
    <2>2. requests'[q].at = "arrived" /\ \A p \in Requests \ {q} : requests'[p] = requests[p]
      BY <1>c, <2>1, SMT
    <2>3. ~Owing(requests[q])' /\ ~At(q, "cancel", "refund")
      BY <1>5, <2>0, <2>2, SMT DEF Owing, At, GoesOn, OnOptions
    <2> QED BY <2>1, <2>2, <2>3, OneUnowing, NothingOwed, Zenon
  <1>6. CASE TurnSucceeds(i) \/ TurnFails(i) \/ TurnEnqueues(i) \/ TurnDies(i)
    BY <1>2, <1>6, <1>e, Zenon DEF TurnSucceeds, TurnFails, TurnEnqueues, TurnDies
  <1>7. CASE JobSucceeds(i) \/ JobFails(i) \/ WorkerDies(i)
    BY <1>2, <1>7, <1>e, Zenon DEF JobSucceeds, JobFails, WorkerDies
  <1>8. CASE Recover(i) \/ Requeue(i)
    BY <1>3, <1>8, Zenon DEF Recover, Requeue, service
  <1> QED BY <1>4, <1>5, <1>6, <1>7, <1>8, Zenon DEF CallerStep

LEMMA SettledAtFirst == Init => Settled
  <1> SUFFICES ASSUME Init PROVE Settled
    OBVIOUS
  <1>1. PICK s \in [Bookings -> {"CONFIRMED", "CANCELLED", "COMPLETED"}] :
          /\ booking = [b \in Bookings |-> [status |-> s[b], flight |-> FlightOf[b],
                                             cancelledAt |-> s[b] = "CANCELLED"]]
          /\ refunds = [b \in Bookings |->
                           IF s[b] = "CANCELLED" /\ b \in Refundable THEN 1 ELSE 0]
    BY Zenon DEF Init, ServiceInit
  <1>2. ASSUME NEW b \in Bookings
        PROVE  /\ booking[b].status = s[b]
               /\ refunds[b] = IF s[b] = "CANCELLED" /\ b \in Refundable THEN 1 ELSE 0
    BY <1>1, SMT
  <1>3. \A q \in Requests : ~Busy(q)
    BY Zenon DEF Init, ServiceInit, Busy
  <1>4. \A b \in Bookings :
          refunds[b] = 0 \/ (refunds[b] = 1 /\ b \in Refundable /\ booking[b].status = "CANCELLED")
    BY <1>2, SMT
  <1>5. \A b \in Refundable : booking[b].status = "CANCELLED" => refunds[b] = 1
    BY <1>2, BookingsAssumption, SMT
  <1>6. 1 # 0
    OBVIOUS
  <1> QED BY <1>3, <1>4, <1>5, <1>6, Zenon DEF Settled, At

\* However a cancellation is tried again, cut off or raced by a move, a cancelled refundable
\* booking has one refund as soon as nobody is about to insert it, and no other has any.
THEOREM RefundsAlwaysMatch ==
  ASSUME Patient, OneCancellation
  PROVE  Spec => []RefundsMatch
  <1>1. IInv /\ Once /\ Settled /\ [Next]_vars => Settled'
    <2> SUFFICES ASSUME IInv, OneTry, Settled, [Next]_vars PROVE Settled'
      BY Zenon DEF Once
    <2>1. CASE \E q \in Requests : HandlerStep(q) \/ HandlerFails(q)
      BY <2>1, HandlerKeepsSettled, Zenon
    <2>2. CASE UNCHANGED <<requests, booking, refunds, faults>>
      <3>1. NoneNew /\ NoneGone
        BY <2>2, Zenon DEF NoneNew, NoneGone, Busy, At
      <3> QED BY <2>2, <3>1, NothingOwed, Zenon
    <2> QED BY <2>1, <2>2, CallerKeepsSettled, Zenon
          DEF Next, ServiceNext, TimePasses, vars, service, callers
  <1>2. Settled => RefundsMatch
    <2> SUFFICES ASSUME Settled, NEW b \in Bookings
                 PROVE  /\ refunds[b] <= 1
                        /\ refunds[b] = 1 => b \in Refundable /\ booking[b].status = "CANCELLED"
                        /\ booking[b].status = "CANCELLED" /\ b \in Refundable /\ faults = 0
                             /\ ~Cancelling(b) => refunds[b] = 1
      BY Zenon DEF RefundsMatch
    <2>1. refunds[b] = 0 \/ (refunds[b] = 1 /\ b \in Refundable /\ booking[b].status = "CANCELLED")
      BY Zenon DEF Settled
    <2>2. booking[b].status = "CANCELLED" /\ b \in Refundable /\ faults = 0 /\ refunds[b] = 0
            => Cancelling(b)
      BY Zenon DEF Settled
    <2> QED BY <2>1, <2>2, SMT
  <1> QED BY <1>1, <1>2, SettledAtFirst, InvariantHolds, OnceHolds, PTL DEF Spec

-----------------------------------------------------------------------------
(* The contract of the queue. *)

\* The state of a job and its worker, from the phase of its intent.
AsJob(p) == IF p \in {"unasked", "turn", "confirmed", "declined"} THEN "absent" ELSE p
HeldBy(i, p) == IF p = "working" THEN i ELSE NoRequest

JobState == [i \in Intents |-> AsJob(phase[i])]
JobHolder == [i \in Intents |-> HeldBy(i, phase[i])]

LEMMA PhaseMoves ==
  ASSUME TypeOK, NEW i \in Intents, NEW to, phase' = [phase EXCEPT ![i] = to]
  PROVE  /\ JobState' = [JobState EXCEPT ![i] = AsJob(to)]
         /\ JobHolder' = [JobHolder EXCEPT ![i] = HeldBy(i, to)]
         /\ JobState[i] = AsJob(phase[i])
  <1>1. phase'[i] = to /\ \A j \in Intents \ {i} : phase'[j] = phase[j]
    BY SMT DEF TypeOK
  <1>2. /\ JobState = [j \in Intents |-> AsJob(phase[j])]
        /\ JobState' = [j \in Intents |-> AsJob(phase'[j])]
        /\ JobHolder' = [j \in Intents |-> HeldBy(j, phase'[j])]
        /\ JobHolder = [j \in Intents |-> HeldBy(j, phase[j])]
    BY Zenon DEF JobState, JobHolder
  <1>3. JobState' = [JobState EXCEPT ![i] = AsJob(to)] /\ JobState[i] = AsJob(phase[i])
    BY <1>1, <1>2, SMT
  <1>4. JobHolder' = [JobHolder EXCEPT ![i] = HeldBy(i, to)]
    BY <1>1, <1>2, SMT
  <1> QED BY <1>3, <1>4, Zenon

LEMMA HolderUnmoved ==
  ASSUME TypeOK, NEW i \in Intents, NEW to, phase' = [phase EXCEPT ![i] = to],
         phase[i] = "working" <=> to = "working"
  PROVE  JobHolder' = JobHolder
  <1>1. phase'[i] = to /\ \A j \in Intents \ {i} : phase'[j] = phase[j]
    BY SMT DEF TypeOK
  <1> QED BY <1>1, SMT DEF JobHolder, HeldBy

\* A call, a turn and what the service does are no business of the queue.
LEMMA TurnIsNoJob ==
  ASSUME TypeOK, NEW i \in Intents,
         Ask(i) \/ GoesOn(i) \/ TurnSucceeds(i) \/ TurnFails(i) \/ TurnDies(i)
  PROVE  JobState' = JobState /\ JobHolder' = JobHolder
  <1>1. ASSUME NEW to \in {"turn", "confirmed", "declined"}, phase[i] \in {"unasked", "turn"},
               phase' = [phase EXCEPT ![i] = to]
        PROVE  JobState' = JobState /\ JobHolder' = JobHolder
    <2>1. phase'[i] = to /\ \A j \in Intents \ {i} : phase'[j] = phase[j]
      BY <1>1, SMT DEF TypeOK
    <2> QED BY <1>1, <2>1, SMT DEF JobState, JobHolder, AsJob, HeldBy
  <1>2. CASE GoesOn(i)
    BY <1>2, SMT DEF GoesOn, callers, JobState, JobHolder
  <1>3. CASE Ask(i)
    <2>1. phase[i] = "unasked" /\ phase' = [phase EXCEPT ![i] = "turn"]
      BY <1>3, Zenon DEF Ask
    <2> QED BY <1>1, <2>1, SMT
  <1>4. CASE TurnSucceeds(i) \/ TurnFails(i) \/ TurnDies(i)
    <2>1. PICK to \in {"confirmed", "declined"} : phase' = [phase EXCEPT ![i] = to]
      BY <1>4, Zenon DEF TurnSucceeds, TurnFails, TurnDies, Ends
    <2>2. phase[i] = "turn"
      BY <1>4, Zenon DEF TurnSucceeds, TurnFails, TurnDies
    <2> QED BY <1>1, <2>1, <2>2, Zenon
  <1> QED BY <1>2, <1>3, <1>4, Zenon

LEMMA SubmitsAndRevives ==
  ASSUME OnlyDeadLetters, TypeOK, NEW i \in Intents, TurnEnqueues(i) \/ Requeue(i)
  PROVE  Contract!Submit(i) \/ Contract!Revive(i)
  <1>1. phase' = [phase EXCEPT ![i] = "waiting"] /\ phase[i] \in {"turn", "dead"}
    BY Zenon DEF TurnEnqueues, Requeue, Ends
  <1>2. JobState' = [JobState EXCEPT ![i] = "waiting"] /\ JobState[i] \in {"absent", "dead"}
    <2>1. JobState' = [JobState EXCEPT ![i] = AsJob("waiting")] /\ JobState[i] = AsJob(phase[i])
      BY <1>1, PhaseMoves, Zenon
    <2>2. AsJob("waiting") = "waiting" /\ AsJob(phase[i]) \in {"absent", "dead"}
      BY <1>1, SMT DEF AsJob
    <2> QED BY <2>1, <2>2, Zenon
  <1>3. JobHolder' = JobHolder
    <2>1. phase[i] # "working" /\ "waiting" # "working"
      BY <1>1, SMT
    <2> QED BY <1>1, <2>1, HolderUnmoved, Zenon
  <1> QED BY <1>2, <1>3, Zenon
        DEF JobState, JobHolder, AsJob, HeldBy, Contract!Submit, Contract!Revive, Contract!Moves

LEMMA TakesAlone ==
  ASSUME TypeOK, NEW i \in Intents, Take(i)
  PROVE  Contract!Take(i, i)
  <1>1. phase' = [phase EXCEPT ![i] = "working"] /\ phase[i] = "waiting"
    BY Zenon DEF Take
  <1>2. /\ JobState' = [JobState EXCEPT ![i] = "working"] /\ JobState[i] = "waiting"
        /\ JobHolder' = [JobHolder EXCEPT ![i] = i]
    <2>1. /\ JobState' = [JobState EXCEPT ![i] = AsJob("working")] /\ JobState[i] = AsJob("waiting")
          /\ JobHolder' = [JobHolder EXCEPT ![i] = HeldBy(i, "working")]
      BY <1>1, PhaseMoves, Zenon
    <2>2. AsJob("working") = "working" /\ AsJob("waiting") = "waiting" /\ HeldBy(i, "working") = i
      BY SMT DEF AsJob, HeldBy
    <2> QED BY <2>1, <2>2, Zenon
  <1>3. \A j \in Intents : JobHolder[j] # i
    BY <1>1, IntentsAssumption, SMT DEF JobHolder, HeldBy
  <1> QED BY <1>2, <1>3, Zenon DEF JobState, JobHolder, AsJob, HeldBy, Contract!Take, Contract!Moves

LEMMA LetsGo ==
  ASSUME TypeOK, NEW i \in Intents, JobSucceeds(i) \/ JobFails(i) \/ WorkerDies(i)
  PROVE  Contract!Release(i) \/ Contract!Lose(i)
  <1>1. PICK to \in {"done", "failed", "dead", "waiting", "orphaned"} :
          phase' = [phase EXCEPT ![i] = to] /\ phase[i] = "working"
    <2>1. CASE JobSucceeds(i)
      BY <2>1, Zenon DEF JobSucceeds, Ends
    <2>2. CASE WorkerDies(i)
      BY <2>2, Zenon DEF WorkerDies, Ends
    <2>3. CASE JobFails(i)
      <3>1. PICK to : Ends(i, to) /\ to \in {"failed", "waiting", "dead"}
        BY <2>3, Zenon DEF JobFails
      <3> QED BY <2>3, <3>1, Zenon DEF JobFails, Ends
    <2> QED BY <2>1, <2>2, <2>3, Zenon
  <1>2. /\ JobState' = [JobState EXCEPT ![i] = to] /\ JobState[i] = "working"
        /\ JobHolder' = [JobHolder EXCEPT ![i] = NoRequest]
    <2>1. /\ JobState' = [JobState EXCEPT ![i] = AsJob(to)] /\ JobState[i] = AsJob("working")
          /\ JobHolder' = [JobHolder EXCEPT ![i] = HeldBy(i, to)]
      BY <1>1, PhaseMoves, Zenon
    <2>2. AsJob(to) = to /\ AsJob("working") = "working" /\ HeldBy(i, to) = NoRequest
      BY <1>1, SMT DEF AsJob, HeldBy
    <2> QED BY <2>1, <2>2, Zenon
  <1>3. CASE to = "orphaned"
    BY <1>2, <1>3, Zenon DEF JobState, JobHolder, AsJob, HeldBy, Contract!Lose, Contract!Moves
  <1>4. CASE to # "orphaned"
    <2>1. to \in {"done", "failed", "dead", "waiting"}
      BY <1>1, <1>4, Zenon
    <2> QED BY <1>2, <2>1, Zenon DEF JobState, JobHolder, AsJob, HeldBy, Contract!Release, Contract!Moves
  <1> QED BY <1>3, <1>4, Zenon

LEMMA RecoversOne ==
  ASSUME TypeOK, NEW i \in Intents, Recover(i)
  PROVE  Contract!RecoverSome
  <1>1. phase' = [phase EXCEPT ![i] = "waiting"] /\ phase[i] = "orphaned"
    BY Zenon DEF Recover
  <1>2. JobState' = [JobState EXCEPT ![i] = "waiting"] /\ JobState[i] = "orphaned"
    <2>1. JobState' = [JobState EXCEPT ![i] = AsJob("waiting")] /\ JobState[i] = AsJob("orphaned")
      BY <1>1, PhaseMoves, Zenon
    <2>2. AsJob("waiting") = "waiting" /\ AsJob("orphaned") = "orphaned"
      BY SMT DEF AsJob
    <2> QED BY <2>1, <2>2, Zenon
  <1>3. JobHolder' = JobHolder
    <2>1. phase[i] # "working" /\ "waiting" # "working"
      BY <1>1, SMT
    <2> QED BY <1>1, <2>1, HolderUnmoved, Zenon
  <1>4. JobState' = [j \in Intents |-> IF j \in {i} THEN "waiting" ELSE JobState[j]]
    <2>1. JobState' = [j \in Intents |-> AsJob(phase'[j])]
      BY Zenon DEF JobState
    <2>2. phase'[i] = "waiting" /\ \A j \in Intents \ {i} : phase'[j] = phase[j]
      BY <1>1, SMT DEF TypeOK
    <2>3. \A j \in Intents : JobState[j] = AsJob(phase[j])
      BY SMT DEF JobState
    <2>4. AsJob("waiting") = "waiting"
      BY SMT DEF AsJob
    <2>5. \A j \in Intents :
            AsJob(phase'[j]) = IF j \in {i} THEN "waiting" ELSE JobState[j]
      BY <2>2, <2>3, <2>4, SMT
    <2> QED BY <2>1, <2>5, SMT
  <1>5. {i} \in SUBSET {j \in Intents : JobState[j] = "orphaned"}
    BY <1>2, SMT
  <1> QED BY <1>3, <1>4, <1>5, Zenon DEF JobState, JobHolder, AsJob, HeldBy, Contract!RecoverSome

LEMMA ContractStep ==
  ASSUME OnlyDeadLetters, TypeOK, [Next]_vars
  PROVE  Contract!Next \/ UNCHANGED Contract!contract
  <1>1. ASSUME JobState' = JobState, JobHolder' = JobHolder
        PROVE  UNCHANGED Contract!contract
    BY <1>1, Zenon DEF JobState, JobHolder, AsJob, HeldBy, Contract!contract
  <1>2. CASE UNCHANGED callers
    BY <1>1, <1>2, SMT DEF callers, JobState, JobHolder
  <1>3. ASSUME NEW i \in Intents, \/ Ask(i) \/ CallerStep(i)
                                  \/ TurnDies(i) \/ WorkerDies(i) \/ Requeue(i)
        PROVE  Contract!Next \/ UNCHANGED Contract!contract
    <2>1. CASE Ask(i) \/ GoesOn(i) \/ TurnSucceeds(i) \/ TurnFails(i) \/ TurnDies(i)
      BY <1>1, <2>1, TurnIsNoJob, Zenon
    <2>2. CASE TurnEnqueues(i) \/ Requeue(i)
      BY <2>2, SubmitsAndRevives, Zenon DEF Contract!Next
    <2>3. CASE Take(i)
      BY <2>3, TakesAlone, Zenon DEF Contract!Next
    <2>4. CASE JobSucceeds(i) \/ JobFails(i) \/ WorkerDies(i)
      BY <2>4, LetsGo, Zenon DEF Contract!Next
    <2>5. CASE Recover(i)
      BY <2>5, RecoversOne, Zenon DEF Contract!Next
    <2> QED BY <1>3, <2>1, <2>2, <2>3, <2>4, <2>5, Zenon DEF CallerStep
  <1> QED BY <1>2, <1>3, Zenon DEF Next, vars

\* The jobs of this composition live as JobContract lets them, while operators retry only
\* what the dead-letter list holds: under that discipline, which Queue needs to keep the
\* contract too, the abstract queue here may be replaced by the real one.  Without it
\* requeue_dead_letter revives a job that is done or failed.
THEOREM ServicingKeepsContract ==
  ASSUME OnlyDeadLetters
  PROVE  Spec => KeepsContract
  <1>1. Init => Contract!Init
    <2> SUFFICES ASSUME Init PROVE Contract!Init
      OBVIOUS
    <2>1. phase = [i \in Intents |-> "unasked"]
      BY Zenon DEF Init
    <2> QED BY <2>1, SMT DEF Contract!Init
  <1>2. TypeOK /\ [Next]_vars => [Contract!Next]_(Contract!contract)
    BY ContractStep, Zenon
  <1> QED BY <1>1, <1>2, TypeCorrect, PTL DEF Spec, KeepsContract, Contract!Spec

-----------------------------------------------------------------------------
(* No retry storm: an intent is worked on a bounded number of times. *)

\* How often its job may still be taken: the attempts it has left, one more for each process
\* that may die, and a new set of attempts for each retry by an operator.
AttemptsLeft(i) == IF attempt[i] < MaxAttempts THEN MaxAttempts - attempt[i] ELSE 0
Revivals(n) == (MaxRequeues - n) * (MaxAttempts + 1)
TakesLeft(i) == AttemptsLeft(i) + (MaxCrashes - crashes) + Revivals(requeues)

\* Where it is between two takes.  A job that lost its last attempt to a crash is taken
\* once more, as the reserve script does not look at the count.
Stage(i) ==
    CASE phase[i] = "unasked"               -> 3
      [] phase[i] \in {"turn", "working"}   -> IF OnOptions(i) THEN 2 ELSE 1
      [] phase[i] = "waiting"               -> IF attempt[i] < MaxAttempts THEN 0 ELSE 3
      [] phase[i] = "orphaned"              -> IF attempt[i] < MaxAttempts THEN 1 ELSE 4
      [] OTHER                              -> 0

EffortLeft(i) == 4 * TakesLeft(i) + Stage(i)
Effort == 4 * (MaxAttempts + MaxCrashes + Revivals(0)) + 3

OwnStep(i) == Ask(i) \/ CallerStep(i) \/ TurnDies(i) \/ WorkerDies(i) \/ Requeue(i)

EffortBounded == \A i \in Intents : EffortLeft(i) \in 0..Effort

\* A job that nobody has taken has all its attempts.
Untried == \A i \in Intents : phase[i] \in {"unasked", "turn"} => attempt[i] = 0

Spends(i) ==
    /\ OwnStep(i) => EffortLeft(i)' < EffortLeft(i)
    /\ EffortLeft(i)' <= EffortLeft(i)

LEMMA RevivalFacts ==
  /\ MaxAttempts \in Nat /\ MaxAttempts >= 1 /\ MaxCrashes \in Nat
  /\ \A n \in 0..MaxRequeues :
       /\ Revivals(n) \in Nat /\ Revivals(n) <= Revivals(0)
       /\ n < MaxRequeues => Revivals(n) = Revivals(n + 1) + MaxAttempts + 1
  <1>1. MaxAttempts \in Nat /\ MaxAttempts >= 1 /\ MaxCrashes \in Nat /\ MaxRequeues \in Nat
    BY AttemptsAssumption, SMT
  <1> DEFINE k == MaxAttempts + 1
  <1>2. k \in Nat
    BY <1>1, SMT
  <1> HIDE DEF k
  <1>3. \A m \in Nat : m * k \in Nat /\ (m + 1) * k = m * k + k
    BY <1>2, SMT
  <1>4. \A l, m \in Nat : l <= m => l * k <= m * k
    <2>1. ASSUME NEW l \in Nat, NEW m \in Nat, l <= m PROVE l * k <= m * k
      <3>1. (m - l) * k >= 0 /\ (m - l) * k = m * k - l * k
        BY <1>2, <2>1, SMT
      <3>2. m * k \in Nat /\ l * k \in Nat
        BY <1>3, Zenon
      <3> QED BY <3>1, <3>2, SMT
    <2> QED BY <2>1
  <1>5. \A n : Revivals(n) = (MaxRequeues - n) * k
    BY Zenon DEF Revivals, k
  <1>6. ASSUME NEW n \in 0..MaxRequeues
        PROVE  /\ Revivals(n) \in Nat /\ Revivals(n) <= Revivals(0)
               /\ n < MaxRequeues => Revivals(n) = Revivals(n + 1) + k
    <2>1. /\ MaxRequeues - n \in Nat /\ MaxRequeues - 0 \in Nat
          /\ MaxRequeues - n <= MaxRequeues - 0
      BY <1>1, SMT
    <2>2. /\ (MaxRequeues - n) * k \in Nat
          /\ (MaxRequeues - n) * k <= (MaxRequeues - 0) * k
      BY <1>3, <1>4, <2>1, Zenon
    <2>3. ASSUME n < MaxRequeues PROVE Revivals(n) = Revivals(n + 1) + k
      <3>1. MaxRequeues - (n + 1) \in Nat /\ MaxRequeues - (n + 1) + 1 = MaxRequeues - n
        BY <1>1, <2>3, SMT
      <3>2. (MaxRequeues - (n + 1) + 1) * k = (MaxRequeues - (n + 1)) * k + k
        BY <1>3, <3>1, Zenon
      <3>3. (MaxRequeues - n) * k = (MaxRequeues - (n + 1)) * k + k
        BY <3>1, <3>2, Zenon
      <3> QED BY <1>5, <3>3, Zenon
    <2>4. Revivals(n) \in Nat /\ Revivals(n) <= Revivals(0)
      BY <1>5, <2>2, Zenon
    <2> QED BY <2>3, <2>4, Zenon
  <1>7. ASSUME NEW n \in 0..MaxRequeues, n < MaxRequeues
        PROVE  Revivals(n) = Revivals(n + 1) + MaxAttempts + 1
    <2>1. Revivals(n + 1) \in Nat /\ Revivals(n) = Revivals(n + 1) + k
      <3>1. n + 1 \in 0..MaxRequeues
        BY <1>1, <1>7, SMT
      <3> QED BY <1>6, <1>7, <3>1, Zenon
    <2> QED BY <1>1, <2>1, SMT DEF k
  <1> QED BY <1>1, <1>6, <1>7, Zenon

\* The numbers an intent's effort is made of.
LEMMA CountFacts ==
  ASSUME TypeOK, NEW i \in Intents
  PROVE  /\ attempt[i] \in Nat /\ crashes \in Nat /\ crashes <= MaxCrashes
         /\ requeues \in 0..MaxRequeues /\ Revivals(requeues) \in Nat
         /\ Revivals(requeues) <= Revivals(0) /\ Revivals(0) \in Nat
         /\ AttemptsLeft(i) \in 0..MaxAttempts
         /\ attempt[i] < MaxAttempts => AttemptsLeft(i) = MaxAttempts - attempt[i]
         /\ ~(attempt[i] < MaxAttempts) => AttemptsLeft(i) = 0
  <1>1. /\ attempt[i] \in Nat /\ crashes \in Nat /\ crashes <= MaxCrashes
        /\ requeues \in 0..MaxRequeues /\ 0 \in 0..MaxRequeues
    BY AttemptsAssumption, SMT DEF TypeOK
  <1>2. /\ attempt[i] < MaxAttempts => AttemptsLeft(i) = MaxAttempts - attempt[i]
        /\ ~(attempt[i] < MaxAttempts) => AttemptsLeft(i) = 0
    BY Zenon DEF AttemptsLeft
  <1>3. AttemptsLeft(i) \in 0..MaxAttempts
    BY <1>1, <1>2, AttemptsAssumption, SMT
  <1>4. /\ Revivals(requeues) \in Nat /\ Revivals(requeues) <= Revivals(0) /\ Revivals(0) \in Nat
    BY <1>1, RevivalFacts, Zenon
  <1> QED BY <1>1, <1>2, <1>3, <1>4, Zenon

LEMMA StageFacts ==
  ASSUME NEW i \in Intents
  PROVE  /\ phase[i] = "unasked" => Stage(i) = 3
         /\ phase[i] \in {"turn", "working"} =>
              Stage(i) = IF OnOptions(i) THEN 2 ELSE 1
         /\ phase[i] = "waiting" => Stage(i) = IF attempt[i] < MaxAttempts THEN 0 ELSE 3
         /\ phase[i] = "orphaned" => Stage(i) = IF attempt[i] < MaxAttempts THEN 1 ELSE 4
         /\ phase[i] \in {"confirmed", "declined", "done", "failed", "dead"} => Stage(i) = 0
  BY SMT DEF Stage

LEMMA EffortTyped ==
  ASSUME TypeOK, NEW i \in Intents
  PROVE  EffortLeft(i) \in 0..Effort
  <1>1. phase[i] \in Phases
    BY Zenon DEF TypeOK
  <1>2. Stage(i) \in 0..4 /\ (Stage(i) = 4 => ~(attempt[i] < MaxAttempts))
    <2>1. CASE phase[i] \in {"turn", "working"}
      BY <2>1, StageFacts, SMT
    <2>2. CASE phase[i] \in {"waiting", "orphaned"}
      BY <2>2, StageFacts, SMT
    <2>3. CASE phase[i] \in {"unasked", "confirmed", "declined", "done", "failed", "dead"}
      BY <2>3, StageFacts, SMT
    <2> QED BY <1>1, <2>1, <2>2, <2>3, SMT DEF Phases
  <1> QED BY <1>2, CountFacts, RevivalFacts, SMT DEF EffortLeft, TakesLeft, Effort

\* An intent that someone is calling for, and a call that ends.
LEMMA CallingStage ==
  ASSUME TypeOK, NEW i \in Intents, NEW p \in {"turn", "working"},
         phase' = [phase EXCEPT ![i] = p]
  PROVE  Stage(i)' \in {1, 2}
  <1>1. phase'[i] = p
    BY SMT DEF TypeOK
  <1> QED BY <1>1, SMT DEF Stage

LEMMA EndedStage ==
  ASSUME TypeOK, NEW i \in Intents, NEW to, Ends(i, to), phase[i] \in {"turn", "working"}
  PROVE  phase'[i] = to /\ Stage(i) \in {1, 2}
  <1>1. phase' = [phase EXCEPT ![i] = to]
    BY Zenon DEF Ends
  <1>2. phase'[i] = to
    BY <1>1, SMT DEF TypeOK
  <1> QED BY <1>2, SMT DEF Stage

LEMMA GoesOnStage ==
  ASSUME TypeOK, NEW i \in Intents, GoesOn(i)
  PROVE  Stage(i) = 2 /\ Stage(i)' = 1
  <1>1. /\ waits[i] # NoRequest /\ OnOptions(i) /\ UNCHANGED <<phase, waits, attempt>>
        /\ Arrive(waits[i], i, "reschedule")
    BY Zenon DEF GoesOn, Answered, callers
  <1>2. phase[i] \in {"turn", "working"} /\ waits[i] \in Requests
    BY <1>1, Zenon DEF TypeOK, Attends
  <1>3. requests'[waits[i]].op = "reschedule"
    BY <1>1, <1>2, SMT DEF Arrive, TypeOK, ServiceTypeOK
  <1>4. ~OnOptions(i)'
    BY <1>1, <1>3, SMT DEF OnOptions
  <1> QED BY <1>1, <1>2, <1>4, SMT DEF Stage

LEMMA OwnStepSpends ==
  ASSUME TypeOK, Untried, NEW i \in Intents, OwnStep(i)
  PROVE  EffortLeft(i)' < EffortLeft(i)
  <1> DEFINE A == AttemptsLeft(i)  R == Revivals(requeues)
             A1 == AttemptsLeft(i)'  R1 == Revivals(requeues')
  <1>a. EffortLeft(i) = 4 * (A + (MaxCrashes - crashes) + R) + Stage(i)
    BY Zenon DEF EffortLeft, TakesLeft
  <1>b. EffortLeft(i)' = 4 * (A1 + (MaxCrashes - crashes') + R1) + Stage(i)'
    BY Zenon DEF EffortLeft, TakesLeft
  <1>c. /\ A \in Nat /\ R \in Nat /\ crashes \in Nat /\ MaxCrashes \in Nat
        /\ attempt[i] \in Nat /\ requeues \in 0..MaxRequeues
        /\ MaxAttempts \in Nat /\ MaxAttempts >= 1
        /\ attempt[i] < MaxAttempts => A = MaxAttempts - attempt[i]
        /\ ~(attempt[i] < MaxAttempts) => A = 0
    BY CountFacts, RevivalFacts, SMT
  <1>d. /\ UNCHANGED attempt => A1 = A
        /\ UNCHANGED requeues => R1 = R
    BY Zenon DEF AttemptsLeft
  <1> HIDE DEF A, A1, R, R1
  <1>1. CASE Ask(i)
    <2>1. /\ phase[i] = "unasked" /\ phase' = [phase EXCEPT ![i] = "turn"]
          /\ UNCHANGED <<attempt, crashes, requeues>>
      BY <1>1, Zenon DEF Ask
    <2>2. Stage(i) = 3 /\ Stage(i)' \in {1, 2}
      BY <2>1, StageFacts, CallingStage, Zenon
    <2> QED BY <1>a, <1>b, <1>c, <1>d, <2>1, <2>2, SMT
  <1>2. CASE Take(i)
    <2>1. /\ phase[i] = "waiting" /\ phase' = [phase EXCEPT ![i] = "working"]
          /\ attempt' = [attempt EXCEPT ![i] = @ + 1] /\ UNCHANGED <<crashes, requeues>>
      BY <1>2, Zenon DEF Take
    <2>2. Stage(i) = (IF attempt[i] < MaxAttempts THEN 0 ELSE 3) /\ Stage(i)' \in {1, 2}
      BY <2>1, StageFacts, CallingStage, Zenon
    <2>3. attempt'[i] = attempt[i] + 1
      BY <2>1, SMT DEF TypeOK
    <2>4. A1 = IF attempt'[i] < MaxAttempts THEN MaxAttempts - attempt'[i] ELSE 0
      BY Zenon DEF A1, AttemptsLeft
    <2>5. CASE attempt[i] < MaxAttempts
      <3>1. A1 = A - 1
        BY <1>c, <2>3, <2>4, <2>5, SMT
      <3> QED BY <1>a, <1>b, <1>c, <1>d, <2>1, <2>2, <2>5, <3>1, SMT
    <2>6. CASE ~(attempt[i] < MaxAttempts)
      <3>1. A1 = 0 /\ A = 0
        BY <1>c, <2>3, <2>4, <2>6, SMT
      <3> QED BY <1>a, <1>b, <1>c, <1>d, <2>1, <2>2, <2>6, <3>1, SMT
    <2> QED BY <2>5, <2>6
  <1>3. CASE GoesOn(i)
    <2>1. UNCHANGED <<attempt, crashes, requeues>> /\ Stage(i) = 2 /\ Stage(i)' = 1
      BY <1>3, GoesOnStage, Zenon DEF GoesOn, callers
    <2> QED BY <1>a, <1>b, <1>c, <1>d, <2>1, SMT
  <1>4. CASE TurnSucceeds(i) \/ TurnFails(i) \/ JobSucceeds(i) \/ TurnDies(i)
    <2>1. PICK to \in {"confirmed", "declined", "done"} : Ends(i, to)
      BY <1>4, Zenon DEF TurnSucceeds, TurnFails, JobSucceeds, TurnDies
    <2>2. /\ phase[i] \in {"turn", "working"} /\ UNCHANGED <<attempt, requeues>>
          /\ crashes' = crashes \/ crashes' = crashes + 1
      BY <1>4, Zenon DEF TurnSucceeds, TurnFails, JobSucceeds, TurnDies
    <2>3. phase'[i] = to /\ Stage(i) \in {1, 2}
      BY <2>1, <2>2, EndedStage, Zenon
    <2>4. Stage(i)' = 0
      BY <2>3, SMT DEF Stage
    <2> QED BY <1>a, <1>b, <1>c, <1>d, <2>2, <2>3, <2>4, SMT
  <1>5. CASE TurnEnqueues(i)
    <2>1. Ends(i, "waiting") /\ phase[i] = "turn" /\ UNCHANGED <<attempt, crashes, requeues>>
      BY <1>5, Zenon DEF TurnEnqueues
    <2>2. phase'[i] = "waiting" /\ Stage(i) \in {1, 2}
      BY <2>1, EndedStage, Zenon
    <2>3. attempt'[i] < MaxAttempts
      BY <1>c, <2>1, SMT DEF Untried
    <2>4. Stage(i)' = 0
      BY <2>2, <2>3, SMT DEF Stage
    <2> QED BY <1>a, <1>b, <1>c, <1>d, <2>1, <2>2, <2>4, SMT
  <1>6. CASE JobFails(i)
    <2>1. PICK to \in {"failed", "waiting", "dead"} :
            Ends(i, to) /\ (to = "waiting" => attempt[i] < MaxAttempts)
      BY <1>6, Zenon DEF JobFails
    <2>2. phase[i] = "working" /\ UNCHANGED <<attempt, crashes, requeues>>
      BY <1>6, Zenon DEF JobFails
    <2>3. phase'[i] = to /\ Stage(i) \in {1, 2}
      BY <2>1, <2>2, EndedStage, Zenon
    <2>4. Stage(i)' = 0
      BY <2>1, <2>2, <2>3, SMT DEF Stage
    <2> QED BY <1>a, <1>b, <1>c, <1>d, <2>2, <2>3, <2>4, SMT
  <1>7. CASE WorkerDies(i)
    <2>1. /\ Ends(i, "orphaned") /\ phase[i] = "working" /\ crashes' = crashes + 1
          /\ UNCHANGED <<attempt, requeues>>
      BY <1>7, Zenon DEF WorkerDies
    <2>2. phase'[i] = "orphaned" /\ Stage(i) \in {1, 2}
      BY <2>1, EndedStage, Zenon
    <2>3. Stage(i)' \in {1, 4}
      BY <2>2, SMT DEF Stage
    <2> QED BY <1>a, <1>b, <1>c, <1>d, <2>1, <2>2, <2>3, SMT
  <1>8. CASE Recover(i)
    <2>1. /\ phase[i] = "orphaned" /\ phase' = [phase EXCEPT ![i] = "waiting"]
          /\ UNCHANGED <<attempt, crashes, requeues>>
      BY <1>8, Zenon DEF Recover
    <2>2. phase'[i] = "waiting"
      BY <2>1, SMT DEF TypeOK
    <2>3. Stage(i) = IF attempt[i] < MaxAttempts THEN 1 ELSE 4
      BY <2>1, StageFacts, Zenon
    <2>4. Stage(i)' = IF attempt[i] < MaxAttempts THEN 0 ELSE 3
      BY <2>1, <2>2, SMT DEF Stage
    <2> QED BY <1>a, <1>b, <1>c, <1>d, <2>1, <2>3, <2>4, SMT
  <1>9. CASE Requeue(i)
    <2>1. /\ phase[i] \in {"done", "failed", "dead"} /\ phase' = [phase EXCEPT ![i] = "waiting"]
          /\ attempt' = [attempt EXCEPT ![i] = 0] /\ requeues < MaxRequeues
          /\ requeues' = requeues + 1 /\ UNCHANGED crashes
      BY <1>9, Zenon DEF Requeue
    <2>2. phase'[i] = "waiting" /\ attempt'[i] = 0
      BY <2>1, SMT DEF TypeOK
    <2>3. Stage(i) = 0 /\ Stage(i)' = 0
      BY <1>c, <2>1, <2>2, SMT DEF Stage
    <2>4. A1 = IF attempt'[i] < MaxAttempts THEN MaxAttempts - attempt'[i] ELSE 0
      BY Zenon DEF A1, AttemptsLeft
    <2>5. A1 = MaxAttempts
      BY <1>c, <2>2, <2>4, SMT
    <2>6. R = R1 + MaxAttempts + 1
      BY <1>c, <2>1, RevivalFacts, SMT DEF R, R1
    <2>7. R1 \in Nat
      <3>1. requeues' \in 0..MaxRequeues
        BY <1>c, <2>1, AttemptsAssumption, SMT
      <3> QED BY <3>1, RevivalFacts, Zenon DEF R1
    <2> QED BY <1>a, <1>b, <1>c, <1>d, <2>1, <2>3, <2>5, <2>6, <2>7, SMT
  <1> QED BY <1>1, <1>2, <1>3, <1>4, <1>5, <1>6, <1>7, <1>8, <1>9, Zenon DEF OwnStep, CallerStep

\* An intent that a step leaves alone keeps its stage, and what its effort rests on can only
\* become less.
LEMMA LeftAlone ==
  ASSUME TypeOK, TypeOK', NEW j \in Intents,
         phase'[j] = phase[j], waits'[j] = waits[j], attempt'[j] = attempt[j],
         waits[j] # NoRequest => requests'[waits[j]].op = requests[waits[j]].op,
         crashes' = crashes \/ crashes' = crashes + 1,
         requeues' = requeues \/ (requeues < MaxRequeues /\ requeues' = requeues + 1)
  PROVE  EffortLeft(j)' <= EffortLeft(j)
  <1>1. Stage(j)' = Stage(j)
    <2>1. phase[j] \in {"turn", "working"} => waits[j] # NoRequest
      BY Zenon DEF TypeOK, Attends
    <2>2. phase[j] \in {"turn", "working"} => (OnOptions(j)' <=> OnOptions(j))
      BY <2>1, SMT DEF OnOptions
    <2> QED BY <2>2, SMT DEF Stage
  <1>2. AttemptsLeft(j)' = AttemptsLeft(j)
    BY Zenon DEF AttemptsLeft
  <1>3. /\ requeues \in 0..MaxRequeues /\ Revivals(requeues) \in Nat /\ AttemptsLeft(j) \in Nat
        /\ crashes \in Nat /\ MaxCrashes \in Nat /\ MaxAttempts \in Nat /\ Stage(j) \in 0..4
    <2>1. Stage(j) \in 0..4
      BY StageFacts, SMT DEF TypeOK, Phases
    <2> QED BY <2>1, CountFacts, RevivalFacts, SMT
  <1>4. Revivals(requeues') \in Nat /\ Revivals(requeues') <= Revivals(requeues)
    <2>1. CASE requeues' = requeues
      BY <1>3, <2>1, SMT
    <2>2. CASE requeues < MaxRequeues /\ requeues' = requeues + 1
      <3>1. requeues' \in 0..MaxRequeues
        BY Zenon DEF TypeOK
      <3>2. Revivals(requeues') \in Nat
        BY <3>1, RevivalFacts, Zenon
      <3>3. Revivals(requeues) = Revivals(requeues') + MaxAttempts + 1
        BY <1>3, <2>2, RevivalFacts, Zenon
      <3> QED BY <1>3, <3>2, <3>3, SMT
    <2> QED BY <2>1, <2>2, Zenon
  <1>5. EffortLeft(j) = 4 * (AttemptsLeft(j) + (MaxCrashes - crashes) + Revivals(requeues)) + Stage(j)
    BY Zenon DEF EffortLeft, TakesLeft
  <1>6. EffortLeft(j)' =
          4 * (AttemptsLeft(j) + (MaxCrashes - crashes') + Revivals(requeues')) + Stage(j)
    BY <1>1, <1>2, Zenon DEF EffortLeft, TakesLeft
  <1> QED BY <1>3, <1>4, <1>5, <1>6, SMT

LEMMA OthersSpendNothing ==
  ASSUME TypeOK, TypeOK', NEW i \in Intents, NEW j \in Intents, i # j, OwnStep(i)
  PROVE  EffortLeft(j)' <= EffortLeft(j)
  <1>1. Attends(i) /\ Attends(j) /\ waits[i] \in Requests \cup {NoRequest}
        /\ waits[j] \in Requests \cup {NoRequest}
        /\ phase \in [Intents -> Phases] /\ attempt \in [Intents -> Nat]
        /\ waits \in [Intents -> Requests \cup {NoRequest}]
        /\ requests \in [Requests -> {Free} \cup Request]
    BY Zenon DEF TypeOK, ServiceTypeOK
  <1>2. ASSUME waits[j] # NoRequest
        PROVE  /\ waits[j] \in Requests /\ requests[waits[j]] # Free
               /\ waits[i] # waits[j]
    BY <1>1, <1>2, Zenon DEF Attends, Busy
  <1>3. ASSUME NEW q, NEW r, requests' = [requests EXCEPT ![q] = r],
               q = waits[i] \/ requests[q] = Free
        PROVE  waits[j] # NoRequest => requests'[waits[j]].op = requests[waits[j]].op
    BY <1>1, <1>2, <1>3, Zenon
  <1>4. CASE Ask(i) \/ Take(i)
    <2>1. PICK q \in Requests : /\ requests[q] = Free /\ Arrive(q, i, FirstOp(i))
                                /\ waits' = [waits EXCEPT ![i] = q]
      BY <1>4, Zenon DEF Ask, Take, Calls
    <2>2. /\ phase'[j] = phase[j] /\ waits'[j] = waits[j] /\ attempt'[j] = attempt[j]
          /\ UNCHANGED <<crashes, requeues>>
      BY <1>1, <1>4, <2>1, Zenon DEF Ask, Take
    <2>3. waits[j] # NoRequest => requests'[waits[j]].op = requests[waits[j]].op
      BY <1>3, <2>1, Zenon DEF Arrive
    <2> QED BY <2>2, <2>3, LeftAlone, Zenon
  <1>5. CASE GoesOn(i)
    <2>1. Arrive(waits[i], i, "reschedule") /\ UNCHANGED callers
      BY <1>5, Zenon DEF GoesOn
    <2>2. waits[j] # NoRequest => requests'[waits[j]].op = requests[waits[j]].op
      BY <1>3, <2>1, Zenon DEF Arrive
    <2> QED BY <2>1, <2>2, LeftAlone, Zenon DEF callers
  <1>6. CASE \/ TurnSucceeds(i) \/ TurnFails(i) \/ TurnEnqueues(i) \/ TurnDies(i)
             \/ JobSucceeds(i) \/ JobFails(i) \/ WorkerDies(i)
    <2>1. PICK to : Ends(i, to)
      BY <1>6, Zenon DEF TurnSucceeds, TurnFails, TurnEnqueues, TurnDies, JobSucceeds, JobFails,
                         WorkerDies
    <2>2. /\ UNCHANGED <<attempt, requeues>>
          /\ crashes' = crashes \/ crashes' = crashes + 1
      BY <1>6, Zenon DEF TurnSucceeds, TurnFails, TurnEnqueues, TurnDies, JobSucceeds, JobFails,
                         WorkerDies
    <2>3. phase'[j] = phase[j] /\ waits'[j] = waits[j]
      BY <1>1, <2>1, Zenon DEF Ends
    <2>4. waits[j] # NoRequest => requests'[waits[j]].op = requests[waits[j]].op
      BY <1>3, <2>1, Zenon DEF Ends, Abandon
    <2> QED BY <2>2, <2>3, <2>4, LeftAlone, Zenon
  <1>7. CASE Recover(i) \/ Requeue(i)
    <2>1. /\ UNCHANGED <<requests, waits, crashes>>
          /\ requeues' = requeues \/ (requeues < MaxRequeues /\ requeues' = requeues + 1)
      BY <1>7, Zenon DEF Recover, Requeue, service
    <2>2. phase'[j] = phase[j] /\ attempt'[j] = attempt[j]
      BY <1>1, <1>7, Zenon DEF Recover, Requeue
    <2> QED BY <2>1, <2>2, LeftAlone, Zenon
  <1> QED BY <1>4, <1>5, <1>6, <1>7, Zenon DEF OwnStep, CallerStep

LEMMA ServiceSpendsNothing ==
  ASSUME TypeOK, TypeOK', RequestsOK, NEW j \in Intents, ServiceNext, UNCHANGED callers
  PROVE  EffortLeft(j)' <= EffortLeft(j)
  <1>1. UNCHANGED <<phase, waits, attempt, crashes, requeues>>
    BY Zenon DEF callers
  <1>2. waits[j] # NoRequest => requests'[waits[j]].op = requests[waits[j]].op
    <2>1. CASE \E q \in Requests : HandlerStep(q) \/ HandlerFails(q)
      <3>1a. PICK q \in Requests : \E r : Progress(q, r)
        BY <2>1, HandlerProgress, Zenon
      <3>1. PICK r : Progress(q, r)
        BY <3>1a, Zenon
      <3>2. ASSUME waits[j] # NoRequest
            PROVE  requests[waits[j]].attended /\ waits[j] \in Requests
        BY <3>2, Zenon DEF TypeOK, Attends
      <3>3. requests \in [Requests -> {Free} \cup Request] /\ requests' = [requests EXCEPT ![q] = r]
        BY <3>1, Zenon DEF Progress, TypeOK, ServiceTypeOK
      <3>4. ASSUME waits[j] = q, waits[j] # NoRequest
            PROVE  requests'[waits[j]].op = requests[waits[j]].op
        <4>1. r # Free
          BY <3>1, <3>2, <3>4, Zenon DEF Progress
        <4>2. r.op = requests[q].op
          BY <3>1, <4>1, Zenon DEF Progress
        <4>3. requests'[q] = r
          BY <3>3, Zenon
        <4> QED BY <3>4, <4>2, <4>3, Zenon
      <3>5. ASSUME waits[j] # q, waits[j] # NoRequest
            PROVE  requests'[waits[j]].op = requests[waits[j]].op
        BY <3>2, <3>3, <3>5, Zenon
      <3> QED BY <3>4, <3>5, Zenon
    <2>2. CASE \E f \in Flights : TimePasses(f)
      BY <2>2, Zenon DEF TimePasses
    <2> QED BY <2>1, <2>2, Zenon DEF ServiceNext
  <1> QED BY <1>1, <1>2, LeftAlone, Zenon

LEMMA UntriedStep == TypeOK /\ Untried /\ [Next]_vars => Untried'
  <1> SUFFICES ASSUME TypeOK, Untried, [Next]_vars, NEW j \in Intents,
                      phase'[j] \in {"unasked", "turn"}
               PROVE  attempt'[j] = 0
    BY Zenon DEF Untried
  <1>1. CASE UNCHANGED callers
    BY <1>1, Zenon DEF callers, Untried
  <1>2. ASSUME NEW i \in Intents, OwnStep(i) PROVE attempt'[j] = 0
    <2>1. phase \in [Intents -> Phases] /\ attempt \in [Intents -> Nat]
      BY Zenon DEF TypeOK
    <2>2. CASE Ask(i)
      <3>1. phase[j] \in {"unasked", "turn"}
        BY <2>1, <2>2, SMT DEF Ask
      <3> QED BY <2>2, <3>1, Zenon DEF Ask, Untried
    <2>3. CASE GoesOn(i)
      BY <2>3, Zenon DEF GoesOn, callers, Untried
    <2>4. ASSUME NEW to, to \notin {"unasked", "turn"}, phase' = [phase EXCEPT ![i] = to],
                 \A k \in Intents \ {i} : attempt'[k] = attempt[k]
          PROVE  attempt'[j] = 0
      BY <2>1, <2>4, SMT DEF Untried
    <2>5. CASE \/ TurnSucceeds(i) \/ TurnFails(i) \/ TurnEnqueues(i) \/ TurnDies(i)
               \/ JobSucceeds(i) \/ JobFails(i) \/ WorkerDies(i)
      <3>1. PICK to \in {"confirmed", "declined", "waiting", "done", "failed", "dead", "orphaned"} :
              Ends(i, to)
        BY <2>5, Zenon DEF TurnSucceeds, TurnFails, TurnEnqueues, TurnDies, JobSucceeds, JobFails,
                           WorkerDies
      <3>2. to \notin {"unasked", "turn"} /\ phase' = [phase EXCEPT ![i] = to]
        BY <3>1, SMT DEF Ends
      <3>3. UNCHANGED attempt
        BY <2>5, Zenon DEF TurnSucceeds, TurnFails, TurnEnqueues, TurnDies, JobSucceeds, JobFails,
                           WorkerDies
      <3> QED BY <2>4, <3>2, <3>3, Zenon
    <2>6. CASE Take(i) \/ Recover(i) \/ Requeue(i)
      <3>1. PICK to \in {"working", "waiting"} : phase' = [phase EXCEPT ![i] = to]
        BY <2>6, Zenon DEF Take, Recover, Requeue
      <3>2. to \notin {"unasked", "turn"}
        BY <3>1, SMT
      <3>3. \A k \in Intents \ {i} : attempt'[k] = attempt[k]
        BY <2>1, <2>6, SMT DEF Take, Recover, Requeue
      <3> QED BY <2>4, <3>1, <3>2, <3>3, Zenon
    <2> QED BY <1>2, <2>2, <2>3, <2>5, <2>6, Zenon DEF OwnStep, CallerStep
  <1> QED BY <1>1, <1>2, Zenon DEF Next, OwnStep, vars

\* A failing change makes no retry storm (docs/queue-protocol.md's attempt limit, which the
\* reserve script does not itself enforce).  However the service fails, whoever dies, what is
\* still to be done for an intent is at most Effort; each of its steps, every call to the
\* service and every retry among them, takes from that, and nothing adds to it.
THEOREM EffortOnlyShrinks ==
  Spec => []EffortBounded /\ [][\A i \in Intents : Spends(i)]_vars
  <1>1. Init => Untried
    BY Zenon DEF Init, Untried
  <1>2. IInv => TypeOK
    BY Zenon DEF IInv
  <1>3. TypeOK => EffortBounded
    BY EffortTyped, Zenon DEF EffortBounded
  <1>4. ASSUME IInv, IInv', Untried, EffortBounded, EffortBounded', Next, NEW i \in Intents
        PROVE  Spends(i)
    <2>1. TypeOK /\ TypeOK' /\ RequestsOK
      BY <1>4, Zenon DEF IInv
    <2>2. EffortLeft(i) \in Nat /\ EffortLeft(i)' \in Nat
      <3>1. Effort \in Nat
        <4>1. 0 \in 0..MaxRequeues
          BY AttemptsAssumption, SMT
        <4>2. Revivals(0) \in Nat
          BY <4>1, RevivalFacts, Zenon
        <4> QED BY <4>2, RevivalFacts, SMT DEF Effort
      <3> QED BY <1>4, <3>1, SMT DEF EffortBounded
    <2>3. OwnStep(i) => EffortLeft(i)' < EffortLeft(i)
      BY <1>4, <2>1, OwnStepSpends, Zenon
    <2>4. ~OwnStep(i) => EffortLeft(i)' <= EffortLeft(i)
      <3>1. ASSUME NEW j \in Intents, OwnStep(j), i # j PROVE EffortLeft(i)' <= EffortLeft(i)
        BY <2>1, <3>1, OthersSpendNothing, Zenon
      <3>2. ASSUME ServiceNext, UNCHANGED callers PROVE EffortLeft(i)' <= EffortLeft(i)
        BY <2>1, <3>2, ServiceSpendsNothing, Zenon
      <3> QED BY <1>4, <3>1, <3>2, Zenon DEF Next, OwnStep
    <2> QED BY <2>2, <2>3, <2>4, SMT DEF Spends
  <1>5. IInv /\ IInv' /\ Untried /\ EffortBounded /\ EffortBounded' /\ [Next]_vars =>
          [\A i \in Intents : Spends(i)]_vars
    BY <1>4, Zenon
  <1> QED BY <1>1, <1>2, <1>3, <1>5, UntriedStep, InvariantHolds, PTL DEF Spec

\* The two rules that decide on a retry, the tool's in the AI service (tools/flight.py) and
\* the worker's (errors.py), agree on every failure that is not the body of a 200: what a
\* turn hands to the queue is transient for the worker too, so that its job is not failed
\* for good when the same failure meets it again, and what the turn declines the worker
\* would not have tried again.
THEOREM RetryRulesAgree ==
  \A a \in (Answers \cup ClientErrors) \ {"OK", "NOT_LISTED", "MALFORMED"} :
    Classify(Failure(a)) <=> ToolRetryable(a)
  <1>1. ASSUME NEW a \in Refusals PROVE ~Classify(Failure(a)) /\ ~ToolRetryable(a)
    BY <1>1, SMT DEF ChaosErrors, Refusals, Failure, Classify, PERMANENT_CODES, ToolRetryable,
                     ClientErrors, Unset
  <1>2. ASSUME NEW a \in ChaosErrors PROVE Classify(Failure(a)) /\ ToolRetryable(a)
    BY <1>2, SMT DEF ChaosErrors, Refusals, Failure, Classify, PERMANENT_CODES, RETRYABLE_CODES,
                     ToolRetryable, ClientErrors, Unset
  <1>3. ASSUME NEW a \in ClientErrors \cup {"CRASHED"} PROVE Classify(Failure(a)) /\ ToolRetryable(a)
    BY <1>3, SMT DEF ChaosErrors, Refusals, Failure, Classify, PERMANENT_CODES, RETRYABLE_CODES,
                     ToolRetryable, ClientErrors, Unset
  <1> QED BY <1>1, <1>2, <1>3, Zenon DEF Answers

-----------------------------------------------------------------------------
(* What the worker reports. *)

\* Chaos puts no foreign body into a 200.
NoCorruption == "MALFORMED" \notin ChaosKinds

\* Then no answer is one, and what the worker acks as SUCCESS has been carried out.
Reported ==
    /\ \A q \in Requests : Busy(q) => requests[q].answer # "MALFORMED"
    /\ \A i \in Intents : phase[i] = "done" => carried[i] # 0

LEMMA OneAnswered ==
  ASSUME Reported, Grows, NEW q, \A p \in Requests \ {q} : requests'[p] = requests[p],
         Busy(q)' => requests'[q].answer # "MALFORMED",
         \A i \in Intents : phase'[i] = "done" => phase[i] = "done" \/ carried[i] # 0
  PROVE  Reported'
  BY Zenon DEF Reported, Grows, Busy

LEMMA CarriedGrows ==
  ASSUME TypeOK, NEW q \in Requests, Busy(q), UNCHANGED carried \/ Carry(q)
  PROVE  Grows
  BY CarryGrows, Zenon DEF Grows

LEMMA HandlerReports ==
  ASSUME TypeOK, Reported, NoCorruption, NEW q \in Requests, HandlerStep(q) \/ HandlerFails(q),
         UNCHANGED phase
  PROVE  Reported'
  <1>b. Busy(q)
    BY Zenon DEF HandlerStep, HandlerFails, ChaosAnswers, ChaosHangs, HangEnds, CancelLoads,
      CancelUpdates, InsertRefund, LoadBooking, ListOptions, CheckTarget, RescheduleUpdates, At
  <1>c. Grows
    BY <1>b, CarriedGrows, Zenon DEF HandlerStep, HandlerFails, ChaosAnswers, ChaosHangs, HangEnds,
      CancelLoads, CancelUpdates, InsertRefund, LoadBooking, ListOptions, CheckTarget,
      RescheduleUpdates
  <1>d. requests \in [Requests -> {Free} \cup Request] /\ requests[q] \in Request
    BY <1>b, BusyIsRequest, Zenon DEF TypeOK, ServiceTypeOK
  <1>1. ASSUME NEW a \in (Answers \cup ClientErrors) \ {"MALFORMED"}, Reply(q, a)
        PROVE  Reported'
    <2>1. /\ \A p \in Requests \ {q} : requests'[p] = requests[p]
          /\ requests'[q] = Free \/ requests'[q] = WithAnswer(requests[q], a)
      BY <1>d, <1>1, Zenon DEF Reply, WithAnswer
    <2>2. Busy(q)' => requests'[q].answer # "MALFORMED"
      <3>1. WithAnswer(requests[q], a).answer = a
        BY <1>d, SMT DEF Request, WithAnswer
      <3> QED BY <1>1, <2>1, <3>1, Zenon DEF Busy
    <2> QED BY <1>c, <2>1, <2>2, OneAnswered, Zenon
  <1>2. ASSUME NEW place, GoesTo(q, place)
        PROVE  Reported'
    <2>1. /\ \A p \in Requests \ {q} : requests'[p] = requests[p]
          /\ requests'[q] = [requests[q] EXCEPT !.at = place]
      BY <1>d, <1>2, Zenon DEF GoesTo
    <2>2. requests'[q].answer = requests[q].answer
      BY <1>d, <2>1, SMT DEF Request
    <2>3. requests'[q].answer # "MALFORMED"
      BY <1>b, <2>2, Zenon DEF Reported
    <2> QED BY <1>c, <2>1, <2>3, OneAnswered, Zenon
  <1>3. ASSUME requests' = [requests EXCEPT ![q] = Free]
        PROVE  Reported'
    <2>1. requests'[q] = Free /\ \A p \in Requests \ {q} : requests'[p] = requests[p]
      BY <1>d, <1>3, Zenon
    <2> QED BY <1>c, <2>1, OneAnswered, Zenon DEF Busy
  <1>5. CASE requests' = [requests EXCEPT ![q].at = "loaded", ![q].seen = Row(q).flight]
    <2>1. /\ \A p \in Requests \ {q} : requests'[p] = requests[p]
          /\ requests'[q].answer = requests[q].answer
      BY <1>d, <1>5, SMT DEF Request
    <2>2. requests'[q].answer # "MALFORMED"
      BY <1>b, <2>1, Zenon DEF Reported
    <2> QED BY <1>c, <2>1, <2>2, OneAnswered, Zenon
  <1>4. \/ \E a \in (Answers \cup ClientErrors) \ {"MALFORMED"} : Reply(q, a)
        \/ \E place : GoesTo(q, place)
        \/ requests' = [requests EXCEPT ![q] = Free]
        \/ requests' = [requests EXCEPT ![q].at = "loaded", ![q].seen = Row(q).flight]
    <2>a. /\ {"OK", "NO_ALTERNATIVES", "NOT_LISTED", "UPSTREAM_TIMEOUT", "CRASHED", "LOST"}
               \subseteq (Answers \cup ClientErrors) \ {"MALFORMED"}
          /\ ChaosKinds \ {"hang"} \subseteq (Answers \cup ClientErrors) \ {"MALFORMED"}
      BY ChaosAssumption, SMT DEF NoCorruption, Answers, ChaosErrors, ClientErrors, Refusals
    <2>b. /\ CancelVerdict(q) \in (Answers \cup ClientErrors) \ {"MALFORMED"}
          /\ LoadVerdict(q) \in (Answers \cup ClientErrors) \ {"MALFORMED"}
          /\ TargetVerdict(q) \in (Answers \cup ClientErrors) \ {"MALFORMED"}
      BY SMT DEF CancelVerdict, LoadVerdict, TargetVerdict, Answers, Refusals
    <2>1. CASE ChaosAnswers(q)
      <3>1. PICK a \in ChaosKinds \ {"hang"} : Reply(q, a)
        BY <2>1, Zenon DEF ChaosAnswers
      <3> QED BY <2>a, <3>1, Zenon
    <2>5. CASE ChaosHangs(q)
      BY <2>5, Zenon DEF ChaosHangs
    <2>6. CASE HangEnds(q) \/ HandlerFails(q)
      <3>1. \E a \in {"UPSTREAM_TIMEOUT", "CRASHED", "LOST"} : Reply(q, a)
        BY <2>6, Zenon DEF HangEnds, HandlerFails
      <3> QED BY <2>a, <3>1, Zenon
    <2>2. CASE CancelLoads(q) \/ LoadBooking(q) \/ CheckTarget(q)
      BY <2>b, <2>2, Zenon DEF CancelLoads, LoadBooking, CheckTarget
    <2>3. CASE CancelUpdates(q) \/ InsertRefund(q) \/ RescheduleUpdates(q)
      <3>1. Reply(q, "OK") \/ Reply(q, "CRASHED") \/ GoesTo(q, "refund")
        BY <2>3, Zenon DEF CancelUpdates, InsertRefund, RescheduleUpdates
      <3> QED BY <2>a, <3>1, Zenon
    <2>4. CASE ListOptions(q)
      BY <2>a, <2>4, Zenon DEF ListOptions
    <2> QED BY <2>1, <2>2, <2>3, <2>4, <2>5, <2>6, Zenon DEF HandlerStep
  <1> QED BY <1>1, <1>2, <1>3, <1>4, <1>5, Zenon

LEMMA CallerReports ==
  ASSUME TypeOK, Truthful, Reported, NEW i \in Intents,
         Ask(i) \/ CallerStep(i) \/ TurnDies(i) \/ WorkerDies(i) \/ Requeue(i)
  PROVE  Reported'
  <1>a. Attends(i) /\ phase \in [Intents -> Phases]
        /\ requests \in [Requests -> {Free} \cup Request]
        /\ waits \in [Intents -> Requests \cup {NoRequest}]
    BY Zenon DEF TypeOK, ServiceTypeOK
  <1>b. phase[i] \in {"turn", "working"} => waits[i] # NoRequest
    BY <1>a, Zenon DEF Attends
  <1>c. Grows
    <2>1. UNCHANGED carried
      BY Zenon DEF Ask, CallerStep, TurnDies, WorkerDies, Requeue, GoesOn, TurnSucceeds, TurnFails,
        TurnEnqueues, Take, JobSucceeds, JobFails, Recover, Ends, service
    <2> QED BY <2>1, Zenon DEF Grows
  <1>1. ASSUME NEW to, phase' = [phase EXCEPT ![i] = to], to # "done" \/ carried[i] # 0
        PROVE  \A j \in Intents : phase'[j] = "done" => phase[j] = "done" \/ carried[j] # 0
    BY <1>a, <1>1, Zenon
  <1>2. ASSUME NEW q \in Requests, NEW op, Arrive(q, i, op),
               \A j \in Intents : phase'[j] = "done" => phase[j] = "done" \/ carried[j] # 0
        PROVE  Reported'
    <2>1. requests'[q].answer = "OK" /\ \A p \in Requests \ {q} : requests'[p] = requests[p]
      BY <1>a, <1>2, SMT DEF Arrive
    <2>2. requests'[q].answer # "MALFORMED"
      BY <2>1, SMT
    <2> QED BY <1>2, <1>c, <2>1, <2>2, OneAnswered, Zenon
  <1>3. ASSUME NEW to, Ends(i, to), phase[i] \in {"turn", "working"},
               to # "done" \/ carried[i] # 0
        PROVE  Reported'
    <2>0. PICK q \in Requests : q = waits[i]
      BY <1>a, <1>b, <1>3, Zenon
    <2>1. Busy(q) /\ requests[q] \in Request
      BY <1>a, <1>b, <1>3, <2>0, BusyIsRequest, Zenon DEF Attends
    <2>2. /\ \A p \in Requests \ {q} : requests'[p] = requests[p]
          /\ requests'[q] = Free \/ requests'[q] = [requests[q] EXCEPT !.attended = FALSE]
      BY <1>a, <1>3, <2>0, Zenon DEF Ends, Abandon
    <2>3. [requests[q] EXCEPT !.attended = FALSE].answer = requests[q].answer
      BY <2>1, SMT DEF Request
    <2>4. Busy(q)' => requests'[q].answer # "MALFORMED"
      BY <2>1, <2>2, <2>3, Zenon DEF Busy, Reported
    <2>5. \A j \in Intents : phase'[j] = "done" => phase[j] = "done" \/ carried[j] # 0
      BY <1>1, <1>3, Zenon DEF Ends
    <2> QED BY <1>c, <2>2, <2>4, <2>5, OneAnswered, Zenon
  <1>e. /\ "turn" \in {"turn", "working"} /\ "working" \in {"turn", "working"}
        /\ \A to \in {"turn", "working", "declined", "waiting", "orphaned", "confirmed", "failed", "dead"} :
             to # "done"
    OBVIOUS
  <1>5. CASE Ask(i) \/ Take(i)
    <2>1. PICK q \in Requests : Arrive(q, i, FirstOp(i))
      BY <1>5, Zenon DEF Ask, Take, Calls
    <2>2. \A j \in Intents : phase'[j] = "done" => phase[j] = "done" \/ carried[j] # 0
      BY <1>1, <1>5, <1>e, Zenon DEF Ask, Take
    <2> QED BY <1>2, <2>1, <2>2, Zenon
  <1>6. CASE GoesOn(i)
    <2>1. waits[i] \in Requests /\ Arrive(waits[i], i, "reschedule") /\ UNCHANGED phase
      BY <1>a, <1>6, Zenon DEF GoesOn, Answered, callers
    <2>2. \A j \in Intents : phase'[j] = "done" => phase[j] = "done" \/ carried[j] # 0
      BY <2>1, Zenon
    <2> QED BY <1>2, <2>1, <2>2, Zenon
  \* The answer the job ends on is the OK of a change, which claims that it was made.
  <1>7. CASE JobSucceeds(i)
    <2>1. waits[i] # NoRequest /\ waits[i] \in Requests /\ Busy(waits[i])
            /\ requests[waits[i]].intent = i
      BY <1>a, <1>7, Zenon DEF JobSucceeds, Answered, Attends
    <2>2. AnswerTo(i) = "OK"
      BY <1>7, <2>1, Zenon DEF JobSucceeds, AnswerTo, Reported
    <2>3. Claims(requests[waits[i]])
      BY <1>7, <2>2, SMT DEF JobSucceeds, Answered, OnOptions, AnswerTo, Claims, WellShaped
    <2>4. carried[i] # 0
      BY <2>1, <2>3, Zenon DEF Truthful
    <2> QED BY <1>3, <1>7, <1>e, <2>4, Zenon DEF JobSucceeds
  <1>8. CASE TurnSucceeds(i) \/ TurnFails(i) \/ TurnEnqueues(i) \/ TurnDies(i)
    BY <1>3, <1>8, <1>e, Zenon DEF TurnSucceeds, TurnFails, TurnEnqueues, TurnDies
  <1>9. CASE WorkerDies(i)
    BY <1>3, <1>9, <1>e, Zenon DEF WorkerDies
  <1>10. CASE JobFails(i)
    <2>1. Ends(i, "failed") \/ Ends(i, "waiting") \/ Ends(i, "dead")
      BY <1>10, Zenon DEF JobFails
    <2> QED BY <1>3, <1>10, <1>e, <2>1, Zenon DEF JobFails
  <1>11. CASE Recover(i) \/ Requeue(i)
    <2>1. UNCHANGED <<requests, carried>> /\ phase' = [phase EXCEPT ![i] = "waiting"]
      BY <1>11, Zenon DEF Recover, Requeue, service
    <2>2. \A j \in Intents : phase'[j] = "done" => phase[j] = "done" \/ carried[j] # 0
      BY <1>1, <1>e, <2>1, Zenon
    <2> QED BY <2>1, <2>2, Zenon DEF Reported, Busy
  <1> QED BY <1>5, <1>6, <1>7, <1>8, <1>9, <1>10, <1>11, Zenon DEF CallerStep

\* handlers.py reads any 200 as done, which the corrupt chaos scenario refutes
\* (servicing_corrupt).  Without that scenario it is right: a job is acked only when its
\* change was made, once, however many times it was delivered.
THEOREM DoneWithoutCorruption ==
  ASSUME Patient, NoCorruption
  PROVE  Spec => []DoneIsCarriedOut
  <1>1. Init => Reported
    <2>1. ASSUME Init PROVE \A q \in Requests : ~Busy(q)
      BY <2>1, Zenon DEF Init, ServiceInit, Busy
    <2>2. ASSUME Init PROVE \A i \in Intents : phase[i] # "done"
      BY <2>2, SMT DEF Init
    <2> QED BY <2>1, <2>2, Zenon DEF Reported
  <1>2. IInv /\ Truthful /\ Reported /\ [Next]_vars => Reported'
    <2> SUFFICES ASSUME IInv, Truthful, Reported, [Next]_vars PROVE Reported'
      OBVIOUS
    <2>0. TypeOK
      BY Zenon DEF IInv
    <2>1. CASE (\E q \in Requests : HandlerStep(q) \/ HandlerFails(q)) /\ UNCHANGED callers
      BY <2>0, <2>1, HandlerReports, Zenon DEF callers
    <2>2. CASE UNCHANGED <<requests, carried, phase>>
      BY <2>2, Zenon DEF Reported, Busy
    <2> QED BY <2>0, <2>1, <2>2, CallerReports, Zenon
          DEF Next, ServiceNext, TimePasses, vars, service, callers
  <1>3. Once /\ Reported => DoneIsCarriedOut
    BY Zenon DEF Once, Remembered, Reported, DoneIsCarriedOut
  <1> QED BY <1>1, <1>2, <1>3, InvariantHolds, OnceHolds, TruthHolds, PTL DEF Spec
=============================================================================
