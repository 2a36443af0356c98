----------------------------- MODULE MirrorProofs -----------------------------
(***************************************************************************)
(* Proofs about Mirror, for any jobs, workers and bounds: the history is   *)
(* kept beside the queue and never steers it, so what is proved of the     *)
(* queue holds with its mirror; its tables stay in their types; and, while *)
(* leases cover the handlers, what its rows say of settled jobs is so and  *)
(* the story they tell of a job's attempts is whole.                       *)
(***************************************************************************)
EXTENDS Mirror, QueueLeaseProofs

-----------------------------------------------------------------------------
(* The mirror leaves the queue to itself. *)

LEMMA WriteLeavesQueue ==
    ASSUME NEW w \in Workers, Write(w) \/ Swallow(w)
    PROVE  UNCHANGED vars
BY DEF Write, Swallow, WriteFails, vars

LEMMA WorkIsConsumed ==
    ASSUME NEW w \in Workers, Work(w)
    PROVE  Next
<1>1. /\ UNCHANGED client
      /\ \/ Reserve(w) \/ FetchJob(w) \/ RunHandler(w) \/ CountAttempt(w)
         \/ Ack(w) \/ NackPermanent(w) \/ NackExhausted(w) \/ NackRetry(w)
  BY DEF Work, TakeJob, Settle
<1>2. ConsumerNext
  BY <1>1 DEF ConsumerNext, WorkerStep
<1> QED BY <1>1, <1>2 DEF Next

LEMMA DieIsConsumed ==
    ASSUME NEW w \in Workers, Die(w)
    PROVE  Next
<1>1. UNCHANGED client /\ (Crash(w) \/ WorkerLoopEnds(w))
  BY DEF Die
<1>2. ConsumerNext
  BY <1>1 DEF ConsumerNext
<1> QED BY <1>1, <1>2 DEF Next

LEMMA AroundIsQueue ==
    ASSUME Around
    PROVE  Next
<1>1. CASE ClientNext /\ UNCHANGED consumer
  BY <1>1 DEF Next
<1>2. CASE /\ \/ PromoteDue \/ ReapExpired \/ SchedulerLoopEnds
              \/ \E w \in Workers : Restart(w)
              \/ \E j \in Jobs : RunAtPasses(j) \/ LeaseLapses(j)
           /\ UNCHANGED client
  <2>1. ConsumerNext
    BY <1>2 DEF ConsumerNext, WorkerStep
  <2> QED BY <1>2, <2>1 DEF Next
<1> QED BY <1>1, <1>2 DEF Around

LEMMA MirrorStepsAreQueueSteps == [MirrorNext]_mirrorVars => [Next]_vars
<1> SUFFICES ASSUME [MirrorNext]_mirrorVars PROVE [Next]_vars
  OBVIOUS
<1>1. ASSUME NEW w \in Workers, Work(w) \/ Write(w) \/ Swallow(w) \/ Die(w)
      PROVE  [Next]_vars
  BY <1>1, WorkIsConsumed, WriteLeavesQueue, DieIsConsumed
<1>2. CASE Around
  BY <1>2, AroundIsQueue
<1>3. CASE UNCHANGED mirrorVars
  BY <1>3 DEF mirrorVars
<1> QED BY <1>1, <1>2, <1>3 DEF MirrorNext

\* "A database hiccup must never cost a job": with its mirror, whatever becomes of the
\* writes, the queue does nothing that a queue without a mirror could not do.
THEOREM MirrorIsAQueue == MirrorSpec => HistoryNeverCostsAJob
<1>1. MirrorInit => Init
  BY DEF MirrorInit
<1> QED BY <1>1, MirrorStepsAreQueueSteps, PTL DEF MirrorSpec, HistoryNeverCostsAJob

\* So no job is lost by a queue that keeps its history either.
THEOREM MirrorLosesNoJob == MirrorSpec => []NoJobLost
BY MirrorIsAQueue, NoJobIsEverLost, PTL DEF HistoryNeverCostsAJob, Spec

-----------------------------------------------------------------------------
(* What a worker owes, and the shape of its steps. *)

\* Writes about one job that set its row to one status.
WritesOf(j, s) ==
    {ws \in Seq(Writes) :
       /\ \A i \in DOMAIN ws : ws[i].job = j /\ (ws[i].table = "jobs" => ws[i].says = s)
       /\ \E i \in DOMAIN ws : ws[i] = RowWrite(j, s)}

LEMMA RowWriteFacts ==
    ASSUME NEW j \in Jobs, NEW s \in Status
    PROVE  /\ RowWrite(j, s) \in Writes
           /\ RowWrite(j, s).job = j /\ RowWrite(j, s).table = "jobs" /\ RowWrite(j, s).says = s
BY DEF RowWrite, Writes

LEMMA AttemptWriteFacts ==
    ASSUME NEW j \in Jobs, NEW n \in Nat, NEW o \in Outcomes
    PROVE  /\ AttemptWrite(j, n, o) \in Writes
           /\ AttemptWrite(j, n, o).job = j /\ AttemptWrite(j, n, o).table # "jobs"
BY DEF AttemptWrite, Writes

LEMMA FailureWriteFacts ==
    ASSUME NEW j \in Jobs, NEW r \in Resolutions
    PROVE  /\ FailureWrite(j, r) \in Writes
           /\ FailureWrite(j, r).job = j /\ FailureWrite(j, r).table # "jobs"
BY DEF FailureWrite, Writes

LEMMA UpToThree ==
    ASSUME NEW j \in Jobs, NEW s \in Status,
           NEW a \in Writes, a.job = j, a.table # "jobs",
           NEW f \in Writes, f.job = j, f.table # "jobs"
    PROVE  /\ <<RowWrite(j, s)>> \in WritesOf(j, s)
           /\ <<a, RowWrite(j, s)>> \in WritesOf(j, s)
           /\ Append(<<a, RowWrite(j, s)>>, f) \in WritesOf(j, s)
<1> DEFINE x == RowWrite(j, s)
<1>1. x \in Writes /\ x.job = j /\ x.table = "jobs" /\ x.says = s
  BY RowWriteFacts
<1> HIDE DEF x
<1>2. <<x>> \in Seq(Writes) /\ <<a, x>> \in Seq(Writes) /\ Append(<<a, x>>, f) \in Seq(Writes)
  BY <1>1
<1>3. /\ DOMAIN <<x>> = {1} /\ <<x>>[1] = x
      /\ DOMAIN <<a, x>> = {1, 2} /\ <<a, x>>[1] = a /\ <<a, x>>[2] = x
      /\ DOMAIN Append(<<a, x>>, f) = {1, 2, 3} /\ Append(<<a, x>>, f)[1] = a
      /\ Append(<<a, x>>, f)[2] = x /\ Append(<<a, x>>, f)[3] = f
  BY <1>1
<1>4. x = RowWrite(j, s)
  BY DEF x
<1> QED BY <1>1, <1>2, <1>3, <1>4 DEF WritesOf

LEMMA OwedWrites ==
    ASSUME NEW j \in Jobs, NEW n \in Nat
    PROVE  /\ SuccessWrites(j, n) \in WritesOf(j, "SUCCESS")
           /\ \A s \in {"FAILED", "DEAD_LETTER", "RETRY_WAIT"} :
                FailureWrites(j, n, s) \subseteq WritesOf(j, s)
           /\ <<RowWrite(j, "PROCESSING")>> \in WritesOf(j, "PROCESSING")
<1>1. /\ AttemptWrite(j, n, "SUCCESS") \in Writes /\ AttemptWrite(j, n, "SUCCESS").job = j
      /\ AttemptWrite(j, n, "SUCCESS").table # "jobs"
      /\ AttemptWrite(j, n, "FAILED") \in Writes /\ AttemptWrite(j, n, "FAILED").job = j
      /\ AttemptWrite(j, n, "FAILED").table # "jobs"
  BY AttemptWriteFacts DEF Outcomes
<1>2. \A s \in {"FAILED", "DEAD_LETTER", "RETRY_WAIT"} :
        /\ FailureWrite(j, Resolution(s)) \in Writes /\ FailureWrite(j, Resolution(s)).job = j
        /\ FailureWrite(j, Resolution(s)).table # "jobs"
  <2> TAKE s \in {"FAILED", "DEAD_LETTER", "RETRY_WAIT"}
  <2>1. Resolution(s) \in Resolutions
    BY DEF Resolution, Resolutions
  <2> QED BY <2>1, FailureWriteFacts
<1>3. SuccessWrites(j, n) \in WritesOf(j, "SUCCESS")
  <2>1. "SUCCESS" \in Status
    BY DEF Status
  <2>2. <<AttemptWrite(j, n, "SUCCESS"), RowWrite(j, "SUCCESS")>> \in WritesOf(j, "SUCCESS")
    BY <1>1, <2>1, UpToThree
  <2> QED BY <2>2 DEF SuccessWrites
<1>4. ASSUME NEW s \in {"FAILED", "DEAD_LETTER", "RETRY_WAIT"}
      PROVE  FailureWrites(j, n, s) \subseteq WritesOf(j, s)
  <2> DEFINE a == AttemptWrite(j, n, "FAILED")
             f == FailureWrite(j, Resolution(s))
  <2>1. s \in Status
    BY DEF Status
  <2>2. a \in Writes /\ a.job = j /\ a.table # "jobs" /\ f \in Writes /\ f.job = j /\ f.table # "jobs"
    BY <1>1, <1>2
  <2>3. FailureWrites(j, n, s) \subseteq
          {<<RowWrite(j, s)>>, <<a, RowWrite(j, s)>>, Append(<<a, RowWrite(j, s)>>, f)}
    BY DEF FailureWrites
  <2> HIDE DEF a, f
  <2>4. /\ <<RowWrite(j, s)>> \in WritesOf(j, s) /\ <<a, RowWrite(j, s)>> \in WritesOf(j, s)
        /\ Append(<<a, RowWrite(j, s)>>, f) \in WritesOf(j, s)
    BY <2>1, <2>2, UpToThree
  <2> QED BY <2>3, <2>4
<1>5. <<RowWrite(j, "PROCESSING")>> \in WritesOf(j, "PROCESSING")
  <2>1. "PROCESSING" \in Status
    BY DEF Status
  <2> QED BY <1>1, <2>1, UpToThree
<1> QED BY <1>3, <1>4, <1>5

\* A worker that settles its job owes writes that say how.
Settles(w, s, ws) ==
    /\ held[w] \in Jobs /\ todo[w] = <<>> /\ ws \in WritesOf(held[w], s)
    /\ status' = [status EXCEPT ![held[w]] = s]
    /\ todo' = [todo EXCEPT ![w] = ws]
    /\ held' = [held EXCEPT ![w] = NoJob]
    /\ UNCHANGED <<row, story, untold, hiccups>>

Counts(w, ws) ==
    /\ held[w] \in Jobs /\ todo[w] = <<>> /\ ws \in WritesOf(held[w], "PROCESSING")
    /\ todo' = [todo EXCEPT ![w] = ws]
    /\ UNCHANGED <<status, held, row, story, untold, hiccups>>

LEMMA SettleShape ==
    ASSUME MirrorTypeOK, NEW w \in Workers, todo[w] = <<>>, Settle(w)
    PROVE  \E s \in {"SUCCESS", "FAILED", "DEAD_LETTER", "RETRY_WAIT"} :
             \E ws \in WritesOf(held[w], s) : Settles(w, s, ws)
<1>1. held[w] \in Jobs /\ AttemptNumber(w) \in Nat
  BY DEF MirrorTypeOK, TypeOK, ConsumerTypeOK, Settle, Ack, NackPermanent, NackExhausted,
     NackRetry, Holding, AttemptNumber
<1>2. ASSUME NEW s \in {"SUCCESS", "FAILED", "DEAD_LETTER", "RETRY_WAIT"},
             NEW choices, choices \subseteq WritesOf(held[w], s), OweOneOf(w, choices),
             SetStatus(held[w], s), held' = [held EXCEPT ![w] = NoJob]
      PROVE  \E ws \in WritesOf(held[w], s) : Settles(w, s, ws)
  BY <1>1, <1>2 DEF OweOneOf, Owes, SetStatus, Settles
<1>3. CASE Ack(w) /\ OweOneOf(w, {SuccessWrites(held[w], AttemptNumber(w))})
  <2>1. {SuccessWrites(held[w], AttemptNumber(w))} \subseteq WritesOf(held[w], "SUCCESS")
    BY <1>1, OwedWrites
  <2> QED BY <1>2, <1>3, <2>1 DEF Ack, LetGo
<1>4. CASE NackPermanent(w) /\ OweOneOf(w, FailureWrites(held[w], AttemptNumber(w), "FAILED"))
  <2>1. FailureWrites(held[w], AttemptNumber(w), "FAILED") \subseteq WritesOf(held[w], "FAILED")
    BY <1>1, OwedWrites
  <2> QED BY <1>2, <1>4, <2>1 DEF NackPermanent, LetGo
<1>5. CASE NackExhausted(w)
           /\ OweOneOf(w, FailureWrites(held[w], AttemptNumber(w), "DEAD_LETTER"))
  <2>1. FailureWrites(held[w], AttemptNumber(w), "DEAD_LETTER")
          \subseteq WritesOf(held[w], "DEAD_LETTER")
    BY <1>1, OwedWrites
  <2> QED BY <1>2, <1>5, <2>1 DEF NackExhausted, LetGo
<1>6. CASE NackRetry(w)
           /\ OweOneOf(w, FailureWrites(held[w], AttemptNumber(w), "RETRY_WAIT"))
  <2>1. FailureWrites(held[w], AttemptNumber(w), "RETRY_WAIT")
          \subseteq WritesOf(held[w], "RETRY_WAIT")
    BY <1>1, OwedWrites
  <2> QED BY <1>2, <1>6, <2>1 DEF NackRetry, LetGo
<1> QED BY <1>3, <1>4, <1>5, <1>6 DEF Settle

-----------------------------------------------------------------------------
Quiet == UNCHANGED mirror

LEMMA StepShapes ==
    ASSUME MirrorTypeOK, [MirrorNext]_mirrorVars
    PROVE  \/ \E w \in Workers :
                \/ \E s \in {"SUCCESS", "FAILED", "DEAD_LETTER", "RETRY_WAIT"} :
                     \E ws \in WritesOf(held[w], s) : Settles(w, s, ws)
                \/ \E ws \in WritesOf(held[w], "PROCESSING") : Counts(w, ws)
                \/ Write(w) \/ Swallow(w) \/ Die(w)
                \/ TakeJob(w) /\ UNCHANGED client /\ Quiet
                \/ (FetchJob(w) \/ RunHandler(w)) /\ Quiet
           \/ Around /\ Quiet
           \/ UNCHANGED mirrorVars
<1>1. ASSUME NEW w \in Workers, Work(w)
      PROVE  \/ \E s \in {"SUCCESS", "FAILED", "DEAD_LETTER", "RETRY_WAIT"} :
                  \E ws \in WritesOf(held[w], s) : Settles(w, s, ws)
             \/ \E ws \in WritesOf(held[w], "PROCESSING") : Counts(w, ws)
             \/ TakeJob(w) /\ UNCHANGED client /\ Quiet
             \/ (FetchJob(w) \/ RunHandler(w)) /\ Quiet
  <2>1. CASE TakeJob(w)
    BY <1>1, <2>1 DEF Work, TakeJob, OweNothing, Quiet, mirror
  <2>2. CASE (FetchJob(w) \/ RunHandler(w)) /\ OweNothing
    BY <2>2 DEF OweNothing, Quiet, mirror
  <2>3. CASE CountAttempt(w) /\ OweOneOf(w, {<<RowWrite(held[w], "PROCESSING")>>})
    <3>1. held[w] \in Jobs
      BY <2>3 DEF MirrorTypeOK, TypeOK, ConsumerTypeOK, CountAttempt, Holding
    <3>2. 0 \in Nat
      OBVIOUS
    <3>3. <<RowWrite(held[w], "PROCESSING")>> \in WritesOf(held[w], "PROCESSING")
      BY <3>1, <3>2, OwedWrites
    <3>4. Counts(w, <<RowWrite(held[w], "PROCESSING")>>)
      BY <1>1, <2>3, <3>1, <3>3 DEF Work, Counts, CountAttempt, OweOneOf, Owes
    <3> QED BY <3>3, <3>4
  <2>4. CASE Settle(w)
    BY <1>1, <2>4, SettleShape DEF Work
  <2> QED BY <1>1, <2>1, <2>2, <2>3, <2>4 DEF Work
<1>2. CASE Around
  BY <1>2 DEF Around, OweNothing, Quiet, mirror
<1> QED BY <1>1, <1>2 DEF MirrorNext

LEMMA HeadAndTail ==
    ASSUME NEW s \in Seq(Writes), s # <<>>
    PROVE  /\ Head(s) \in Writes /\ Head(s) = s[1] /\ 1 \in DOMAIN s
           /\ Tail(s) \in Seq(Writes)
           /\ \A i \in DOMAIN Tail(s) : i + 1 \in DOMAIN s /\ Tail(s)[i] = s[i + 1]
           /\ \A i \in DOMAIN s : i = 1 \/ (i - 1 \in DOMAIN Tail(s) /\ Tail(s)[i - 1] = s[i])
OBVIOUS

LEMMA MirrorTypeStep ==
    ASSUME MirrorTypeOK, TypeOK', [MirrorNext]_mirrorVars
    PROVE  MirrorTypeOK'
<1>1. CASE UNCHANGED mirror
  BY <1>1 DEF MirrorTypeOK, mirror
<1>2. ASSUME NEW w \in Workers, NEW ws, ws \in Seq(Writes), Owes(w, ws)
      PROVE  todo' \in [Workers -> Seq(Writes)]
  BY <1>2 DEF Owes, MirrorTypeOK
<1>3. ASSUME NEW w \in Workers, NEW ws \in Seq(Writes),
             todo' = [todo EXCEPT ![w] = ws], UNCHANGED <<row, story, untold, hiccups>>
      PROVE  MirrorTypeOK'
  BY <1>3 DEF MirrorTypeOK
<1>4. ASSUME NEW w \in Workers, Write(w) PROVE MirrorTypeOK'
  <2> DEFINE x == Head(todo[w])
  <2>1. /\ todo[w] \in Seq(Writes) /\ todo[w] # <<>> /\ Owes(w, Tail(todo[w]))
        /\ UNCHANGED <<untold, hiccups>>
    BY <1>4 DEF Write, WriteDone, MirrorTypeOK
  <2>2. x \in Writes /\ Tail(todo[w]) \in Seq(Writes)
    BY <2>1, HeadAndTail
  <2>3. todo' \in [Workers -> Seq(Writes)]
    BY <1>2, <2>1, <2>2
  <2>4. UpsertJob(x) \/ RecordAttempt(x) \/ RecordFailure(x)
    BY <1>4 DEF Write
  <2> HIDE DEF x
  <2>5. /\ row' \in [Jobs -> Status \cup {"NONE"}]
        /\ story' \in [Jobs -> SUBSET (Nat \X Outcomes)]
    <3>1. CASE UpsertJob(x)
      <4>1. x.job \in Jobs /\ x.says \in Status
        BY <2>2, <3>1 DEF Writes, UpsertJob
      <4> QED BY <3>1, <4>1 DEF UpsertJob, MirrorTypeOK
    <3>2. CASE RecordAttempt(x)
      <4>1. x.job \in Jobs /\ x.number \in Nat /\ x.says \in Outcomes
        BY <2>2, <3>2 DEF Writes, RecordAttempt
      <4>2. story[x.job] \cup {<<x.number, x.says>>} \in SUBSET (Nat \X Outcomes)
        BY <4>1 DEF MirrorTypeOK
      <4> QED BY <3>2, <4>1, <4>2 DEF RecordAttempt, MirrorTypeOK
    <3>3. CASE RecordFailure(x)
      BY <3>3 DEF RecordFailure, MirrorTypeOK
    <3> QED BY <2>4, <3>1, <3>2, <3>3
  <2> QED BY <2>1, <2>3, <2>5 DEF MirrorTypeOK
<1>5. ASSUME NEW w \in Workers, Swallow(w) PROVE MirrorTypeOK'
  <2>1. /\ todo[w] \in Seq(Writes) /\ todo[w] # <<>> /\ Owes(w, Tail(todo[w]))
        /\ UNCHANGED <<row, story>> /\ untold' = untold \cup {Head(todo[w]).job}
        /\ hiccups' = hiccups \/ (hiccups < MaxHiccups /\ hiccups' = hiccups + 1)
    BY <1>5 DEF Swallow, WriteFails, WriteDone, MirrorTypeOK
  <2>2. Head(todo[w]) \in Writes /\ Tail(todo[w]) \in Seq(Writes)
    BY <2>1, HeadAndTail
  <2>3. Head(todo[w]).job \in Jobs
    BY <2>2 DEF Writes
  <2>4. todo' \in [Workers -> Seq(Writes)]
    BY <1>2, <2>1, <2>2
  <2> QED BY <2>1, <2>3, <2>4, MirrorAssumption DEF MirrorTypeOK
<1>6. ASSUME NEW w \in Workers, Die(w) PROVE MirrorTypeOK'
  <2>1. /\ Owes(w, <<>>) /\ UNCHANGED <<row, story, hiccups>>
        /\ untold' = untold \cup Unsaid(w)
    BY <1>6 DEF Die
  <2>2. Unsaid(w) \subseteq Jobs /\ <<>> \in Seq(Writes)
    BY DEF Unsaid
  <2>3. todo' \in [Workers -> Seq(Writes)]
    BY <1>2, <2>1, <2>2
  <2> QED BY <2>1, <2>2, <2>3 DEF MirrorTypeOK
<1>7. ASSUME NEW w \in Workers, NEW s, NEW ws \in WritesOf(held[w], s),
             Settles(w, s, ws) \/ Counts(w, ws)
      PROVE  MirrorTypeOK'
  BY <1>3, <1>7 DEF Settles, Counts, WritesOf
<1> QED BY <1>1, <1>4, <1>5, <1>6, <1>7, StepShapes DEF Quiet, mirrorVars, mirror

\* The mirror's tables and the writes that stand before a worker stay in their types.
THEOREM MirrorTypeCorrect == MirrorSpec => []MirrorTypeOK
<1>1. MirrorInit => MirrorTypeOK \/ ~TypeOK
  BY MirrorAssumption DEF MirrorInit, MirrorTypeOK
<1>2. MirrorTypeOK /\ TypeOK' /\ [MirrorNext]_mirrorVars => MirrorTypeOK'
  BY MirrorTypeStep
<1>3. MirrorSpec => []TypeOK
  BY MirrorIsAQueue, TypeCorrect, PTL DEF HistoryNeverCostsAJob, Spec
<1> QED BY <1>1, <1>2, <1>3, PTL DEF MirrorSpec

-----------------------------------------------------------------------------
(* Rows that say how a job ended. *)

Ends == {"SUCCESS", "FAILED"}

\* Neither a row nor a write that stands before a worker says of an end that is not so.
EndedInv ==
    /\ EndedRowIsTrue
    /\ \A w \in Workers : \A i \in DOMAIN todo[w] :
         todo[w][i].table = "jobs" /\ todo[w][i].says \in Ends
           => status[todo[w][i].job] = todo[w][i].says

EndsStay == \A j \in Jobs : status[j] \in Ends => status'[j] = status[j]

LEMMA EndedStep ==
    ASSUME MirrorTypeOK, EndedInv, EndsStay, [MirrorNext]_mirrorVars
    PROVE  EndedInv'
<1>0. \A w \in Workers : \A i \in DOMAIN todo[w] : todo[w][i] \in Writes /\ todo[w][i].job \in Jobs
  BY DEF MirrorTypeOK, Writes
<1>1. CASE UNCHANGED mirror
  BY <1>0, <1>1 DEF mirror, EndedInv, EndedRowIsTrue, EndsStay, Ends
<1>2. ASSUME NEW w \in Workers, todo[w] # <<>>, Owes(w, Tail(todo[w]))
      PROVE  \A v \in Workers : \A i \in DOMAIN todo'[v] :
               todo'[v][i].table = "jobs" /\ todo'[v][i].says \in Ends
                 => status'[todo'[v][i].job] = todo'[v][i].says
  <2> TAKE v \in Workers
  <2> TAKE i \in DOMAIN todo'[v]
  <2>1. \E k \in DOMAIN todo[v] : todo'[v][i] = todo[v][k]
    <3>1. CASE v # w
      BY <1>2, <3>1 DEF Owes, MirrorTypeOK
    <3>2. CASE v = w
      <4>1. todo'[v] = Tail(todo[v]) /\ todo[v] \in Seq(Writes) /\ todo[v] # <<>>
        BY <1>2, <3>2 DEF Owes, MirrorTypeOK
      <4> QED BY <4>1, HeadAndTail
    <3> QED BY <3>1, <3>2
  <2> QED BY <1>0, <2>1 DEF EndedInv, EndsStay
<1>3. ASSUME UNCHANGED row PROVE EndedRowIsTrue'
  BY <1>3 DEF EndedInv, EndedRowIsTrue, EndsStay, Ends
<1>4. ASSUME NEW w \in Workers, Write(w) PROVE EndedInv'
  <2> DEFINE x == Head(todo[w])
  <2>1. todo[w] # <<>> /\ Owes(w, Tail(todo[w])) /\ todo[w] \in Seq(Writes) /\ status' = status
    BY <1>4 DEF Write, WriteDone, MirrorTypeOK, vars, redis
  <2>2. \/ row' = row
        \/ x.table = "jobs" /\ row' = [row EXCEPT ![x.job] = x.says]
    BY <1>4 DEF Write, UpsertJob, RecordAttempt, RecordFailure
  <2>3. x = todo[w][1] /\ 1 \in DOMAIN todo[w]
    BY <2>1, HeadAndTail
  <2>4. x.table = "jobs" /\ x.says \in Ends => status[x.job] = x.says
    BY <2>3 DEF EndedInv
  <2> HIDE DEF x
  <2>5. EndedRowIsTrue'
    BY <2>1, <2>2, <2>4 DEF EndedInv, EndedRowIsTrue, MirrorTypeOK, Ends
  <2> QED BY <1>2, <2>1, <2>5 DEF EndedInv
<1>5. ASSUME NEW w \in Workers, Swallow(w) PROVE EndedInv'
  <2>1. todo[w] # <<>> /\ Owes(w, Tail(todo[w])) /\ row' = row
    BY <1>5 DEF Swallow, WriteFails, WriteDone
  <2> QED BY <1>2, <1>3, <2>1 DEF EndedInv
<1>6. ASSUME NEW w \in Workers, Die(w) PROVE EndedInv'
  <2>1. todo' = [todo EXCEPT ![w] = <<>>] /\ row' = row
    BY <1>6 DEF Die, Owes
  <2>2. \A v \in Workers : \A i \in DOMAIN todo'[v] :
          i \in DOMAIN todo[v] /\ todo'[v][i] = todo[v][i]
    BY <2>1 DEF MirrorTypeOK
  <2>3. \A v \in Workers : \A i \in DOMAIN todo'[v] :
          todo'[v][i].table = "jobs" /\ todo'[v][i].says \in Ends
            => status'[todo'[v][i].job] = todo'[v][i].says
    BY <1>0, <2>2 DEF EndedInv, EndsStay
  <2> QED BY <1>3, <2>1, <2>3 DEF EndedInv
<1>7. ASSUME NEW w \in Workers, NEW s, NEW ws \in WritesOf(held[w], s),
             todo' = [todo EXCEPT ![w] = ws], row' = row,
             s \in Ends => status'[held[w]] = s
      PROVE  EndedInv'
  <2>1. \A v \in Workers : \A i \in DOMAIN todo'[v] :
          todo'[v][i].table = "jobs" /\ todo'[v][i].says \in Ends
            => status'[todo'[v][i].job] = todo'[v][i].says
    <3> TAKE v \in Workers
    <3>1. CASE v # w
      BY <1>0, <1>7, <3>1 DEF EndedInv, EndsStay, MirrorTypeOK
    <3>2. CASE v = w
      <4>1. todo'[v] = ws
        BY <1>7, <3>2 DEF MirrorTypeOK
      <4> QED BY <1>7, <4>1 DEF WritesOf
    <3> QED BY <3>1, <3>2
  <2> QED BY <1>3, <1>7, <2>1 DEF EndedInv
<1>8. ASSUME NEW w \in Workers, NEW s \in {"SUCCESS", "FAILED", "DEAD_LETTER", "RETRY_WAIT"},
             NEW ws \in WritesOf(held[w], s), Settles(w, s, ws)
      PROVE  EndedInv'
  <2>1. status'[held[w]] = s
    BY <1>8 DEF Settles, MirrorTypeOK, TypeOK, RedisTypeOK
  <2> QED BY <1>7, <1>8, <2>1 DEF Settles
<1>9. ASSUME NEW w \in Workers, NEW ws \in WritesOf(held[w], "PROCESSING"), Counts(w, ws)
      PROVE  EndedInv'
  BY <1>7, <1>9 DEF Counts, Ends
<1> QED BY <1>1, <1>4, <1>5, <1>6, <1>8, <1>9, StepShapes DEF Quiet, mirrorVars

\* The row never runs ahead of Redis: with leases that cover the handlers, one that says how
\* a job ended is right, whichever worker wrote it, however late and whatever was lost.
THEOREM EndedRowAlwaysTrue ==
    ASSUME Disciplined
    PROVE  MirrorSpec => []EndedRowIsTrue
<1>1. MirrorInit => EndedInv
  BY DEF MirrorInit, EndedInv, EndedRowIsTrue, Ends
<1>2. MirrorTypeOK /\ EndedInv /\ [MirrorNext]_mirrorVars
        /\ [\A j \in Jobs :
              /\ status[j] \in {"SUCCESS", "FAILED"} => status'[j] = status[j]
              /\ status[j] = "DEAD_LETTER" => status'[j] \in {"DEAD_LETTER", "QUEUED"}]_vars
        => EndedInv'
  <2> SUFFICES ASSUME MirrorTypeOK, EndedInv, [MirrorNext]_mirrorVars,
                      [\A j \in Jobs :
                         /\ status[j] \in {"SUCCESS", "FAILED"} => status'[j] = status[j]
                         /\ status[j] = "DEAD_LETTER" => status'[j] \in {"DEAD_LETTER", "QUEUED"}]_vars
               PROVE  EndedInv'
    OBVIOUS
  <2>1. EndsStay
    BY DEF EndsStay, Ends, vars, redis
  <2> QED BY <2>1, EndedStep
<1>3. MirrorSpec => SettledIsFinal
  BY MirrorIsAQueue, SettledStaysFinal, PTL DEF HistoryNeverCostsAJob, Spec
<1>4. EndedInv => EndedRowIsTrue
  BY DEF EndedInv
<1> QED BY <1>1, <1>2, <1>3, <1>4, MirrorTypeCorrect, PTL DEF MirrorSpec, SettledIsFinal

-----------------------------------------------------------------------------
(* Rows of settled jobs, when a write is made before its job is taken up again. *)

\* Who still writes about a job is alone with it, and its writes are the last word.
AloneWith(w, j) ==
    \A v \in Workers \ {w} :
      held[v] # j /\ \A i \in DOMAIN todo[v] : todo[v][i].job # j

CurrentInv ==
    /\ \A w \in Workers : \A i \in DOMAIN todo[w] :
         /\ AloneWith(w, todo[w][i].job)
         /\ todo[w][i].table = "jobs" /\ Settled(todo[w][i].job)
              => todo[w][i].says = status[todo[w][i].job]
    /\ \A j \in Jobs : Settled(j) /\ j \notin untold =>
         \/ row[j] = status[j]
         \/ \E w \in Workers : \E i \in DOMAIN todo[w] : todo[w][i] = RowWrite(j, status[j])

\* A job is settled only by the worker that holds it.
LEMMA OnlySettleSettles ==
    ASSUME TypeOK, Around \/ (\E w \in Workers : TakeJob(w) /\ UNCHANGED client), NEW j \in Jobs
    PROVE  Settled(j)' => status'[j] = status[j]
<1>1. ASSUME NEW i \in Jobs, NEW s \in {"QUEUED", "SCHEDULED", "PROCESSING", "NONE"}, SetStatus(i, s)
      PROVE  Settled(j)' => status'[j] = status[j]
  BY <1>1 DEF SetStatus, Settled, TypeOK, RedisTypeOK
<1>2. ASSUME NEW B, SetStatuses(B, "QUEUED")
      PROVE  Settled(j)' => status'[j] = status[j]
  BY <1>2 DEF SetStatuses, Settled, TypeOK, RedisTypeOK
<1>3. ASSUME status' = status PROVE Settled(j)' => status'[j] = status[j]
  BY <1>3
<1>4. ASSUME NEW c \in Clients, PushDue(c) \/ PushLater(c) \/ NodeWriteHash(c) \/ Requeue(c) \/ NodeReset(c)
      PROVE  Settled(j)' => status'[j] = status[j]
  <2>1. PICK i \in Jobs : i = cjob[c] /\ \E s \in {"QUEUED", "SCHEDULED", "NONE"} : SetStatus(i, s)
    BY <1>4 DEF PushDue, PushLater, NodeWriteHash, Requeue, NodeReset, TypeOK, ClientTypeOK
  <2> QED BY <1>1, <2>1
<1>5. CASE \E w \in Workers : TakeJob(w) /\ UNCHANGED client
  <2>1. PICK p \in Priorities : ready[p] # <<>> /\ SetStatus(Head(ready[p]), "PROCESSING")
    BY <1>5 DEF TakeJob, Reserve, FirstWaiting
  <2>2. Head(ready[p]) \in Jobs
    BY <2>1 DEF TypeOK, RedisTypeOK
  <2> QED BY <1>1, <2>1, <2>2
<1>6. CASE PromoteDue \/ ReapExpired
  BY <1>2, <1>6 DEF PromoteDue, ReapExpired
<1> QED BY <1>3, <1>4, <1>5, <1>6
    DEF Around, ClientNext, ClientStep, redis, ExpireKey, LookupOwner, client,
        ReturnOriginal, OwnerMissing, NodeLinkReady, NodeLinkScheduled, NodeRemove, NodeRepush,
        ClientDies, EnqueueUnkeyed, ClaimKey, KeyTaken, StartEnqueue, StartRequeue,
        Restart, RunAtPasses, LeaseLapses, SchedulerLoopEnds

LEMMA AroundHoldsNone ==
    ASSUME Around
    PROVE  held' = held
BY DEF Around, consumer, PromoteDue, ReapExpired, SchedulerLoopEnds, Restart, RunAtPasses, LeaseLapses

\* With the writes as they were, nobody takes up a job that is written about.
LEMMA QuietCurrent ==
    ASSUME MirrorTypeOK, CurrentInv, Quiet,
           \A j \in Jobs : Settled(j)' => status'[j] = status[j],
           \A v \in Workers : held'[v] \in {held[v], NoJob} \/ ~Pending(held'[v])
    PROVE  CurrentInv'
<1>0. \A w \in Workers : \A i \in DOMAIN todo[w] : todo[w][i].job \in Jobs
  BY DEF MirrorTypeOK, Writes
<1>1. UNCHANGED <<todo, row, untold>>
  BY DEF Quiet, mirror
<1>2. ASSUME NEW w \in Workers, NEW i \in DOMAIN todo[w]
      PROVE  /\ AloneWith(w, todo[w][i].job)'
             /\ todo[w][i].table = "jobs" /\ Settled(todo[w][i].job)'
                  => todo[w][i].says = status'[todo[w][i].job]
  <2>1. PICK j \in Jobs : j = todo[w][i].job /\ AloneWith(w, j) /\ Pending(j)
    BY <1>0 DEF CurrentInv, Pending
  <2>2. \A v \in Workers \ {w} : held'[v] # j
    BY <2>1, JobsAssumption DEF AloneWith
  <2>3. AloneWith(w, j)'
    BY <1>1, <2>1, <2>2 DEF AloneWith
  <2>4. Settled(j)' => Settled(j) /\ status'[j] = status[j]
    BY <2>1 DEF Settled
  <2>5. todo'[w][i].job = j
    BY <1>1, <2>1
  <2> QED BY <2>1, <2>3, <2>4, <2>5 DEF CurrentInv, Settled
<1>3. ASSUME NEW j \in Jobs, Settled(j)', j \notin untold
      PROVE  \/ row[j] = status'[j]
             \/ \E w \in Workers : \E i \in DOMAIN todo[w] : todo[w][i] = RowWrite(j, status'[j])
  <2>1. status'[j] = status[j] /\ Settled(j)
    BY <1>3 DEF Settled
  <2> QED BY <1>3, <2>1 DEF CurrentInv
<1> QED BY <1>1, <1>2, <1>3 DEF CurrentInv

\* What a worker writes about the job in its hand is all there is about it.
LEMMA OwesCurrent ==
    ASSUME MirrorTypeOK, LeaseInv, CurrentInv, NEW w \in Workers, NEW s \in Status,
           NEW ws \in WritesOf(held[w], s), held[w] \in Jobs, todo[w] = <<>>,
           todo' = [todo EXCEPT ![w] = ws], UNCHANGED <<row, untold>>,
           \A v \in Workers \ {w} : held'[v] = held[v], held'[w] \in {held[w], NoJob},
           status'[held[w]] = s \/ (s = "PROCESSING" /\ status'[held[w]] = status[held[w]]),
           \A j \in Jobs \ {held[w]} : status'[j] = status[j]
    PROVE  CurrentInv'
<1>1. PICK j \in Jobs : j = held[w]
  OBVIOUS
<1>2. /\ todo'[w] = ws /\ \A v \in Workers \ {w} : todo'[v] = todo[v]
      /\ \A i \in DOMAIN ws : ws[i].job = j /\ (ws[i].table = "jobs" => ws[i].says = s)
      /\ \E i \in DOMAIN ws : ws[i] = RowWrite(j, s)
  BY <1>1 DEF MirrorTypeOK, WritesOf
<1>3. status[j] = "PROCESSING"
  BY <1>1, JobsAssumption DEF LeaseInv, HandLeased, RecordTells
<1>4. Settled(j)' => status'[j] = s
  BY <1>1, <1>3 DEF Settled
\* Nobody else wrote about it, or holds it.
<1>5. \A v \in Workers \ {w} : held[v] # j /\ \A i \in DOMAIN todo[v] : todo[v][i].job # j
  <2> TAKE v \in Workers \ {w}
  <2>1. held[v] # j
    BY <1>1, JobsAssumption DEF LeaseInv, SingleHolder
  <2>2. ASSUME NEW i \in DOMAIN todo[v], todo[v][i].job = j PROVE FALSE
    <3>1. AloneWith(v, j)
      BY <2>2 DEF CurrentInv
    <3> QED BY <1>1, <3>1 DEF AloneWith
  <2> QED BY <2>1, <2>2
<1>6. ASSUME NEW v \in Workers, NEW i \in DOMAIN todo'[v]
      PROVE  /\ AloneWith(v, todo[v][i].job)'
             /\ todo'[v][i].table = "jobs" /\ Settled(todo[v][i].job)'
                  => todo'[v][i].says = status'[todo'[v][i].job]
  <2>1. CASE v = w
    <3>1. todo'[v][i].job = j /\ (todo'[v][i].table = "jobs" => todo'[v][i].says = s)
      BY <1>2, <2>1, <1>6
    <3>2. AloneWith(v, j)'
      BY <1>2, <1>5, <2>1 DEF AloneWith
    <3> QED BY <1>4, <3>1, <3>2 DEF Settled
  <2>2. CASE v # w
    <3>1. PICK k \in Jobs : k = todo[v][i].job /\ todo'[v][i] = todo[v][i] /\ i \in DOMAIN todo[v]
      BY <1>2, <1>6, <2>2 DEF MirrorTypeOK, Writes
    <3>2. k # j /\ AloneWith(v, k)
      BY <1>5, <2>2, <3>1 DEF CurrentInv
    <3>3. AloneWith(v, k)'
      <4> SUFFICES ASSUME NEW u \in Workers \ {v}
                   PROVE  held'[u] # k /\ \A m \in DOMAIN todo'[u] : todo'[u][m].job # k
        BY DEF AloneWith
      <4>1. CASE u = w
        <5>1. held'[u] # k
          BY <1>1, <3>2, <4>1, JobsAssumption
        <5>2. \A m \in DOMAIN todo'[u] : todo'[u][m].job = j
          BY <1>2, <4>1
        <5> QED BY <3>2, <5>1, <5>2
      <4>2. CASE u # w
        BY <1>2, <3>2, <4>2 DEF AloneWith
      <4> QED BY <4>1, <4>2
    <3>4. status'[k] = status[k]
      BY <1>1, <3>2
    <3> QED BY <3>1, <3>3, <3>4 DEF CurrentInv, Settled
  <2> QED BY <2>1, <2>2
<1>7. ASSUME NEW k \in Jobs, Settled(k)', k \notin untold
      PROVE  \/ row[k] = status'[k]
             \/ \E v \in Workers : \E i \in DOMAIN todo'[v] : todo'[v][i] = RowWrite(k, status'[k])
  <2>1. CASE k = j
    BY <1>2, <1>4, <1>7, <2>1
  <2>2. CASE k # j
    <3>1. status'[k] = status[k] /\ Settled(k)
      BY <1>1, <1>7, <2>2 DEF Settled
    <3>2. CASE row[k] = status[k]
      BY <3>1, <3>2
    <3>3. CASE row[k] # status[k]
      <4>1. PICK v \in Workers : \E i \in DOMAIN todo[v] : todo[v][i] = RowWrite(k, status[k])
        BY <1>7, <3>1, <3>3 DEF CurrentInv
      <4>2. v # w
        BY <4>1
      <4> QED BY <1>2, <3>1, <4>1, <4>2
    <3> QED BY <3>2, <3>3
  <2> QED BY <2>1, <2>2
<1> QED BY <1>6, <1>7 DEF CurrentInv

\* A worker drops writes off its list: what is still there stays as it was.
LEMMA DroppedCurrent ==
    ASSUME MirrorTypeOK, CurrentInv,
           \A v \in Workers : \A i \in DOMAIN todo'[v] : \E k \in DOMAIN todo[v] : todo'[v][i] = todo[v][k],
           \A v \in Workers : held'[v] \in {held[v], NoJob}, status' = status,
           \A j \in Jobs : Settled(j) /\ j \notin untold' =>
             \/ row'[j] = status[j]
             \/ \E v \in Workers : \E i \in DOMAIN todo'[v] : todo'[v][i] = RowWrite(j, status[j])
    PROVE  CurrentInv'
<1>2. ASSUME NEW v \in Workers, NEW j \in Jobs, AloneWith(v, j) PROVE AloneWith(v, j)'
  BY <1>2, JobsAssumption DEF AloneWith
<1>3. ASSUME NEW v \in Workers, NEW i \in DOMAIN todo'[v]
      PROVE  /\ AloneWith(v, todo[v][i].job)'
             /\ todo'[v][i].table = "jobs" /\ Settled(todo[v][i].job)'
                  => todo'[v][i].says = status'[todo'[v][i].job]
  <2>1. PICK k \in DOMAIN todo[v] : todo'[v][i] = todo[v][k]
    BY <1>3
  <2>2. PICK j \in Jobs : j = todo[v][k].job
    BY <2>1 DEF MirrorTypeOK, Writes
  <2>3. AloneWith(v, j)'
    BY <1>2, <2>1, <2>2 DEF CurrentInv
  <2> QED BY <2>1, <2>2, <2>3 DEF CurrentInv, Settled
<1> QED BY <1>3 DEF CurrentInv, Settled

LEMMA RowWriteFields ==
    ASSUME NEW j, NEW s
    PROVE  RowWrite(j, s).job = j /\ RowWrite(j, s).table = "jobs"
BY DEF RowWrite

LEMMA CurrentStep ==
    ASSUME MirrorTypeOK, LeaseInv, CurrentInv, Prompt, [MirrorNext]_mirrorVars
    PROVE  CurrentInv'
<1>0. /\ TypeOK /\ todo \in [Workers -> Seq(Writes)] /\ held \in [Workers -> Jobs \cup {NoJob}]
      /\ status \in [Jobs -> Status \cup {"NONE"}] /\ row \in [Jobs -> Status \cup {"NONE"}]
  BY DEF MirrorTypeOK, TypeOK, ConsumerTypeOK, RedisTypeOK
<1>1. CASE UNCHANGED mirrorVars
  BY <1>1 DEF mirrorVars, vars, mirror, redis, consumer, CurrentInv, AloneWith, Settled
<1>2. CASE Around /\ Quiet
  <2>1. held' = held
    BY <1>2, AroundHoldsNone
  <2>2. \A j \in Jobs : Settled(j)' => status'[j] = status[j]
    BY <1>0, <1>2, OnlySettleSettles
  <2> QED BY <1>2, <2>1, <2>2, QuietCurrent
<1>3. ASSUME NEW w \in Workers, TakeJob(w), UNCHANGED client, Quiet PROVE CurrentInv'
  <2>1. \A j \in Jobs : Settled(j)' => status'[j] = status[j]
    BY <1>0, <1>3, OnlySettleSettles
  <2>2. ~Pending(held'[w])
    BY <1>3 DEF TakeJob
  <2>3. \A v \in Workers \ {w} : held'[v] = held[v]
    BY <1>0, <1>3 DEF TakeJob, Reserve
  <2> QED BY <1>3, <2>1, <2>2, <2>3, QuietCurrent
<1>4. ASSUME NEW w \in Workers, FetchJob(w) \/ RunHandler(w), Quiet PROVE CurrentInv'
  <2>1. UNCHANGED <<held, status>>
    BY <1>4 DEF FetchJob, RunHandler, redis
  <2> QED BY <1>4, <2>1, QuietCurrent
<1>5. ASSUME NEW w \in Workers, NEW s \in {"SUCCESS", "FAILED", "DEAD_LETTER", "RETRY_WAIT"},
             NEW ws \in WritesOf(held[w], s), Settles(w, s, ws)
      PROVE  CurrentInv'
  <2>1. s \in Status
    BY DEF Status
  <2>2. /\ held'[w] = NoJob /\ \A v \in Workers \ {w} : held'[v] = held[v]
        /\ status'[held[w]] = s /\ \A j \in Jobs \ {held[w]} : status'[j] = status[j]
    BY <1>0, <1>5 DEF Settles
  <2> QED BY <1>5, <2>1, <2>2, OwesCurrent DEF Settles
<1>6. ASSUME NEW w \in Workers, NEW ws \in WritesOf(held[w], "PROCESSING"), Counts(w, ws)
      PROVE  CurrentInv'
  <2>1. "PROCESSING" \in Status
    BY DEF Status
  <2> QED BY <1>6, <2>1, OwesCurrent DEF Counts
<1>7. ASSUME NEW w \in Workers, todo[w] # <<>>
      PROVE  /\ Head(todo[w]) = todo[w][1] /\ 1 \in DOMAIN todo[w] /\ Head(todo[w]) \in Writes
             /\ \A i \in DOMAIN Tail(todo[w]) : \E k \in DOMAIN todo[w] : Tail(todo[w])[i] = todo[w][k]
             /\ \A i \in DOMAIN todo[w] : todo[w][i] # Head(todo[w])
                  => \E k \in DOMAIN Tail(todo[w]) : Tail(todo[w])[k] = todo[w][i]
  <2>1. todo[w] \in Seq(Writes)
    BY <1>0
  <2> QED BY <1>7, <2>1, HeadAndTail
\* A write about a row is gone from the list only when it has been made, or lost.
<1>8. ASSUME NEW w \in Workers, todo[w] # <<>>, Owes(w, Tail(todo[w])), status' = status,
             NEW j \in Jobs, Settled(j), row[j] # status[j], j \notin untold,
             RowWrite(j, status[j]) # Head(todo[w])
      PROVE  \E v \in Workers : \E i \in DOMAIN todo'[v] : todo'[v][i] = RowWrite(j, status[j])
  <2>1. PICK v \in Workers, i \in Nat : i \in DOMAIN todo[v] /\ todo[v][i] = RowWrite(j, status[j])
    <3>1. \A v \in Workers : DOMAIN todo[v] \subseteq Nat
      BY <1>0
    <3> QED BY <1>8, <3>1 DEF CurrentInv
  <2>2. CASE v = w
    <3>1. \E k \in DOMAIN Tail(todo[w]) : Tail(todo[w])[k] = RowWrite(j, status[j])
      BY <1>7, <1>8, <2>1, <2>2
    <3>2. todo'[w] = Tail(todo[w])
      BY <1>0, <1>8 DEF Owes
    <3> QED BY <3>1, <3>2
  <2>3. CASE v # w
    BY <1>0, <1>8, <2>1, <2>3 DEF Owes
  <2> QED BY <2>2, <2>3
<1>9. ASSUME NEW w \in Workers, Write(w) PROVE CurrentInv'
  <2>1. /\ todo[w] # <<>> /\ Owes(w, Tail(todo[w])) /\ UNCHANGED <<status, held, untold>>
        /\ UpsertJob(Head(todo[w])) \/ RecordAttempt(Head(todo[w])) \/ RecordFailure(Head(todo[w]))
    BY <1>9 DEF Write, WriteDone, vars, redis, consumer
  <2>2. PICK x \in Writes : /\ x = Head(todo[w]) /\ x = todo[w][1] /\ 1 \in DOMAIN todo[w]
                            /\ x.job \in Jobs
    BY <1>7, <2>1 DEF Writes
  <2>3. ASSUME NEW j \in Jobs, Settled(j), j \notin untold
        PROVE  \/ row'[j] = status[j]
               \/ \E v \in Workers : \E i \in DOMAIN todo'[v] : todo'[v][i] = RowWrite(j, status[j])
    <3>1. CASE UpsertJob(x) /\ x.job = j
      <4>1. x.says = status[j] /\ row' = [row EXCEPT ![j] = x.says]
        BY <2>2, <2>3, <3>1 DEF UpsertJob, CurrentInv
      <4> QED BY <1>0, <4>1
    <3>2. CASE ~(UpsertJob(x) /\ x.job = j)
      <4>1. row'[j] = row[j]
        BY <1>0, <2>1, <2>2, <3>2 DEF UpsertJob, RecordAttempt, RecordFailure
      <4>2. ~(x.table = "jobs" /\ x.job = j)
        BY <2>1, <2>2, <3>2 DEF UpsertJob, RecordAttempt, RecordFailure
      <4>3. RowWrite(j, status[j]) # x
        BY <4>2, RowWriteFields
      <4> QED BY <1>8, <2>1, <2>2, <2>3, <4>1, <4>3
    <3> QED BY <3>1, <3>2
  <2>8. \A v \in Workers : held'[v] \in {held[v], NoJob}
    BY <2>1
  <2>9. \A v \in Workers : \A i \in DOMAIN todo'[v] : \E k \in DOMAIN todo[v] : todo'[v][i] = todo[v][k]
    BY <1>0, <1>7, <2>1 DEF Owes
  <2> QED BY <2>1, <2>8, <2>9, <2>3, DroppedCurrent
<1>10. ASSUME NEW w \in Workers, Swallow(w) PROVE CurrentInv'
  <2>1. /\ todo[w] # <<>> /\ Owes(w, Tail(todo[w])) /\ UNCHANGED <<status, held, row>>
        /\ untold' = untold \cup {Head(todo[w]).job}
    BY <1>10 DEF Swallow, WriteFails, WriteDone, redis, consumer
  <2>2. ASSUME NEW j \in Jobs, Settled(j), j \notin untold'
        PROVE  \/ row'[j] = status[j]
               \/ \E v \in Workers : \E i \in DOMAIN todo'[v] : todo'[v][i] = RowWrite(j, status[j])
    <3>1. RowWrite(j, status[j]) # Head(todo[w]) /\ j \notin untold
      <4>1. Head(todo[w]).job # j /\ j \notin untold
        BY <2>1, <2>2
      <4> QED BY <4>1, RowWriteFields
    <3> QED BY <1>8, <2>1, <2>2, <3>1
  <2>8. \A v \in Workers : held'[v] \in {held[v], NoJob}
    BY <2>1
  <2>9. \A v \in Workers : \A i \in DOMAIN todo'[v] : \E k \in DOMAIN todo[v] : todo'[v][i] = todo[v][k]
    BY <1>0, <1>7, <2>1 DEF Owes
  <2> QED BY <2>1, <2>8, <2>9, <2>2, DroppedCurrent
<1>11. ASSUME NEW w \in Workers, Die(w) PROVE CurrentInv'
  <2>1. /\ todo' = [todo EXCEPT ![w] = <<>>] /\ UNCHANGED <<status, row>>
        /\ untold' = untold \cup Unsaid(w)
        /\ held' = [held EXCEPT ![w] = NoJob]
    BY <1>11 DEF Die, Owes, Crash, WorkerLoopEnds, LetGo, redis
  <2>2. \A v \in Workers : held'[v] \in {held[v], NoJob}
    BY <1>0, <2>1
  <2>3. ASSUME NEW j \in Jobs, Settled(j), j \notin untold'
        PROVE  \/ row'[j] = status[j]
               \/ \E v \in Workers : \E i \in DOMAIN todo'[v] : todo'[v][i] = RowWrite(j, status[j])
    <3>1. CASE row[j] = status[j]
      BY <2>1, <3>1
    <3>2. CASE row[j] # status[j]
      <4>1. PICK v \in Workers : \E i \in DOMAIN todo[v] : todo[v][i] = RowWrite(j, status[j])
        BY <2>1, <2>3, <3>2 DEF CurrentInv
      <4>2. v # w
        <5>1. PICK i \in DOMAIN todo[v] : todo[v][i].job = j
          BY <4>1, RowWriteFields
        <5>2. j \notin Unsaid(w)
          BY <2>1, <2>3
        <5> QED BY <5>1, <5>2 DEF Unsaid
      <4> QED BY <1>0, <2>1, <4>1, <4>2
    <3> QED BY <3>1, <3>2
  <2>4. \A v \in Workers : \A i \in DOMAIN todo'[v] : \E k \in DOMAIN todo[v] : todo'[v][i] = todo[v][k]
    BY <1>0, <2>1
  <2> QED BY <2>1, <2>2, <2>3, <2>4, DroppedCurrent
<1> QED BY <1>1, <1>2, <1>3, <1>4, <1>5, <1>6, <1>9, <1>10, <1>11, StepShapes

\* Once nothing is being written, the row of a settled job that lost no write says so, as
\* long as a write is made before its job is taken up again.
THEOREM SettledRowAlwaysCurrent ==
    ASSUME Disciplined, Prompt
    PROVE  MirrorSpec => []SettledRowIsCurrent
<1>1. MirrorInit => CurrentInv
  BY DEF MirrorInit, Init, RedisInit, CurrentInv, Settled
<1>2. MirrorTypeOK /\ LeaseInv /\ CurrentInv /\ [MirrorNext]_mirrorVars => CurrentInv'
  BY CurrentStep
<1>3. MirrorSpec => []LeaseInv
  BY MirrorIsAQueue, LeaseInvHolds, PTL DEF HistoryNeverCostsAJob, Spec
<1>4. CurrentInv => SettledRowIsCurrent
  <2> SUFFICES ASSUME CurrentInv, NEW j \in Jobs, Settled(j), ~Pending(j), j \notin untold
               PROVE  row[j] = status[j]
    BY DEF SettledRowIsCurrent
  <2>1. \A w \in Workers : \A i \in DOMAIN todo[w] : todo[w][i] # RowWrite(j, status[j])
    BY DEF Pending, RowWrite
  <2> QED BY <2>1 DEF CurrentInv
<1> QED BY <1>1, <1>2, <1>3, <1>4, MirrorTypeCorrect, PTL DEF MirrorSpec

-----------------------------------------------------------------------------
(* The attempts of a job.  Its count is that of the worker that holds it. *)

Counting == {"run", "ack", "nackPermanent", "nackTransient"}

\* A job without a record has no attempt, and what a worker has in memory is the count
\* that it is about to write, or has written.
SnapInv ==
    /\ \A j \in Jobs : status[j] = "NONE" => attempt[j] = 0
    /\ \A w \in Workers : /\ wpc[w] = "count" => snap[w] = attempt[held[w]] + 1
                          /\ wpc[w] \in Counting => snap[w] = attempt[held[w]] /\ snap[w] # 0

\* A step that writes the count of a job nobody holds.
LEMMA SnapKept ==
    ASSUME TypeOK, TypeOK', SnapInv,
           \A j \in Jobs : \/ attempt'[j] = attempt[j]
                           \/ attempt'[j] = 0 /\ \A w \in Workers : held[w] # j,
           \A j \in Jobs : status'[j] = "NONE" => status[j] = "NONE",
           \A w \in Workers : \/ wpc'[w] \notin Counting \cup {"count"}
                              \/ UNCHANGED <<wpc[w], held[w], snap[w]>>
    PROVE  SnapInv'
<1>1. ASSUME NEW w \in Workers, wpc'[w] \in Counting \cup {"count"}
      PROVE  /\ wpc'[w] = wpc[w] /\ snap'[w] = snap[w]
             /\ attempt'[held'[w]] = attempt[held[w]]
  <2>1. wpc'[w] = wpc[w] /\ held'[w] = held[w] /\ snap'[w] = snap[w]
    BY <1>1
  <2>2. held[w] \in Jobs
    BY <1>1, <2>1 DEF Counting, Holding, TypeOK, ConsumerTypeOK
  <2> QED BY <2>1, <2>2
<1> QED BY <1>1 DEF SnapInv

LEMMA ClientsKeepSnap ==
    ASSUME TypeOK, TypeOK', LeaseInv, SnapInv, ClientNext, UNCHANGED consumer
    PROVE  SnapInv'
<1>1. UNCHANGED <<wpc, held, snap>>
  BY DEF consumer
<1>2. CASE UNCHANGED <<status, attempt>>
  BY <1>1, <1>2, SnapKept
<1>3. ASSUME NEW c \in Clients, PushDue(c) \/ PushLater(c) \/ NodeWriteHash(c) \/ Requeue(c) \/ NodeReset(c)
      PROVE  SnapInv'
  <2>1. PICK j \in Jobs : /\ j = cjob[c] /\ SetAttempt(j, 0)
                          /\ \E x \in Status : SetStatus(j, x)
    BY <1>3 DEF PushDue, PushLater, NodeWriteHash, Requeue, NodeReset, TypeOK, ClientTypeOK, Status
  <2>2. status[j] # "PROCESSING"
    BY <1>3, <2>1
    DEF PushDue, PushLater, NodeWriteHash, Requeue, NodeReset, LeaseInv, ClientTells, RecordTells
  <2>3. \A w \in Workers : held[w] # j
    BY <2>2, HolderFacts
  <2>4. /\ attempt'[j] = 0 /\ \A i \in Jobs \ {j} : attempt'[i] = attempt[i]
        /\ \A i \in Jobs : status'[i] = "NONE" => status[i] = "NONE"
    BY <2>1 DEF SetAttempt, SetStatus, Status, TypeOK, RedisTypeOK
  <2> QED BY <1>1, <2>3, <2>4, SnapKept
<1> QED BY <1>2, <1>3
    DEF ClientNext, ClientStep, redis, ExpireKey, LookupOwner, ReturnOriginal, OwnerMissing,
        NodeLinkReady, NodeLinkScheduled, NodeRemove, NodeRepush, ClientDies, EnqueueUnkeyed,
        ClaimKey, KeyTaken, StartEnqueue, StartRequeue

\* The worker that counts, and the one that runs what it has counted.
LEMMA WorkersKeepSnap ==
    ASSUME TypeOK, TypeOK', LeaseInv, SnapInv, NEW w \in Workers,
           FetchJob(w) \/ CountAttempt(w) \/ RunHandler(w)
    PROVE  SnapInv'
<1>1. PICK j \in Jobs : j = held[w]
  BY DEF FetchJob, CountAttempt, RunHandler, TypeOK, ConsumerTypeOK, Holding
<1>2. status[j] = "PROCESSING" /\ \A v \in Workers : held[v] = j => v = w
  BY <1>1, HolderFacts
<1>3. /\ UNCHANGED <<status, held>>
      /\ \A v \in Workers \ {w} : wpc'[v] = wpc[v] /\ snap'[v] = snap[v]
      /\ \A i \in Jobs \ {j} : attempt'[i] = attempt[i]
  BY <1>1 DEF FetchJob, CountAttempt, RunHandler, Becomes, SetAttempt, redis, TypeOK,
              RedisTypeOK, ConsumerTypeOK
<1>4. \A i \in Jobs : status'[i] = "NONE" => attempt'[i] = 0
  BY <1>2, <1>3 DEF SnapInv
<1>5. ASSUME NEW v \in Workers \ {w}
      PROVE  /\ wpc'[v] = "count" => snap'[v] = attempt'[held'[v]] + 1
             /\ wpc'[v] \in Counting => snap'[v] = attempt'[held'[v]] /\ snap'[v] # 0
  <2>1. wpc[v] \in Counting \cup {"count"} => held[v] \in Jobs \ {j}
    BY <1>2 DEF Counting, Holding, TypeOK, ConsumerTypeOK
  <2>2. wpc[v] \in Counting \cup {"count"} => attempt'[held'[v]] = attempt[held[v]]
    BY <1>3, <2>1
  <2> QED BY <1>3, <2>2 DEF SnapInv
<1>6. /\ wpc'[w] = "count" => snap'[w] = attempt'[held'[w]] + 1
      /\ wpc'[w] \in Counting => snap'[w] = attempt'[held'[w]] /\ snap'[w] # 0
  <2>1. CASE FetchJob(w)
    <3>1. wpc'[w] = "count" /\ snap'[w] = attempt[j] + 1 /\ attempt' = attempt /\ held'[w] = j
      BY <1>1, <1>3, <2>1 DEF FetchJob, Becomes, redis, TypeOK, ConsumerTypeOK
    <3> QED BY <3>1 DEF Counting
  <2>2. CASE CountAttempt(w)
    <3>1. wpc'[w] = "run" /\ snap'[w] = snap[w] /\ attempt'[j] = snap[w] /\ held'[w] = j
      BY <1>1, <1>3, <2>2 DEF CountAttempt, Becomes, SetAttempt, TypeOK, ConsumerTypeOK, RedisTypeOK
    <3>2. snap[w] = attempt[j] + 1 /\ attempt[j] \in Nat
      BY <1>1, <2>2 DEF CountAttempt, SnapInv, TypeOK, RedisTypeOK
    <3> QED BY <3>1, <3>2 DEF Counting
  <2>3. CASE RunHandler(w)
    <3>1. wpc[w] \in Counting /\ snap' = snap /\ attempt' = attempt /\ wpc'[w] # "count"
      BY <2>3 DEF RunHandler, Becomes, redis, Counting, TypeOK, ConsumerTypeOK
    <3> QED BY <1>3, <3>1 DEF SnapInv
  <2> QED BY <2>1, <2>2, <2>3
<1> QED BY <1>4, <1>5, <1>6 DEF SnapInv

LEMMA RestKeepSnap ==
    ASSUME TypeOK, TypeOK', LeaseInv, SnapInv,
           \/ \E w \in Workers : \/ Reserve(w) \/ Ack(w) \/ NackPermanent(w) \/ NackExhausted(w)
                                 \/ NackRetry(w) \/ Crash(w) \/ WorkerLoopEnds(w) \/ Restart(w)
           \/ \E j \in Jobs : RunAtPasses(j) \/ LeaseLapses(j)
           \/ PromoteDue \/ ReapExpired \/ SchedulerLoopEnds
    PROVE  SnapInv'
<1>1. \A w \in Workers : \/ wpc'[w] \notin Counting \cup {"count"}
                         \/ UNCHANGED <<wpc[w], held[w], snap[w]>>
  <2>1. ASSUME NEW w \in Workers, NEW pc \in {"idle", "fetch", "down", "stopped"}, Becomes(w, pc),
               \A v \in Workers \ {w} : held'[v] = held[v] /\ snap'[v] = snap[v]
        PROVE  \A v \in Workers : \/ wpc'[v] \notin Counting \cup {"count"}
                                  \/ UNCHANGED <<wpc[v], held[v], snap[v]>>
    BY <2>1 DEF Becomes, Counting, TypeOK, ConsumerTypeOK
  <2>2. ASSUME NEW w \in Workers,
               \/ Reserve(w) \/ Ack(w) \/ NackPermanent(w) \/ NackExhausted(w)
               \/ NackRetry(w) \/ Crash(w) \/ WorkerLoopEnds(w) \/ Restart(w)
        PROVE  /\ \E pc \in {"idle", "fetch", "down", "stopped"} : Becomes(w, pc)
               /\ \A v \in Workers \ {w} : held'[v] = held[v] /\ snap'[v] = snap[v]
    BY <2>2 DEF Reserve, Ack, NackPermanent, NackExhausted, NackRetry, Crash, WorkerLoopEnds,
                Restart, LetGo, TypeOK, ConsumerTypeOK
  <2>3. ASSUME UNCHANGED <<wpc, held, snap>>, NEW w \in Workers
        PROVE  UNCHANGED <<wpc[w], held[w], snap[w]>>
    BY <2>3
  <2> QED BY <2>1, <2>2, <2>3 DEF RunAtPasses, LeaseLapses, PromoteDue, ReapExpired,
                                  SchedulerLoopEnds, consumer
\* nack writes the count that the record has.
<1>2. attempt' = attempt
  <2>1. ASSUME NEW w \in Workers, NackPermanent(w) \/ NackExhausted(w) \/ NackRetry(w)
        PROVE  attempt' = attempt
    <3>1. SetAttempt(held[w], snap[w]) /\ snap[w] = attempt[held[w]]
      BY <2>1 DEF NackPermanent, NackExhausted, NackRetry, Counting, SnapInv
    <3> QED BY <3>1 DEF SetAttempt, TypeOK, RedisTypeOK
  <2> QED BY <2>1 DEF Reserve, Ack, Crash, WorkerLoopEnds, Restart, RunAtPasses, LeaseLapses,
                      PromoteDue, ReapExpired, SchedulerLoopEnds, redis
<1>3. \A j \in Jobs : status'[j] = "NONE" => status[j] = "NONE"
  <2>1. ASSUME NEW i, NEW s \in Status, SetStatus(i, s), NEW j \in Jobs, status'[j] = "NONE"
        PROVE  status[j] = "NONE"
    BY <2>1 DEF SetStatus, Status, TypeOK, RedisTypeOK
  <2>2. {"PROCESSING", "SUCCESS", "FAILED", "DEAD_LETTER", "RETRY_WAIT"} \subseteq Status
    BY DEF Status
  <2>3. \/ status' = status
        \/ \E i, s : s \in Status /\ SetStatus(i, s)
        \/ \E B : SetStatuses(B, "QUEUED")
    <3>1. ASSUME NEW w \in Workers,
                 Reserve(w) \/ Ack(w) \/ NackPermanent(w) \/ NackExhausted(w) \/ NackRetry(w)
          PROVE  \E i, s : s \in Status /\ SetStatus(i, s)
      <4>1. \E i : \/ SetStatus(i, "PROCESSING") \/ SetStatus(i, "SUCCESS") \/ SetStatus(i, "FAILED")
                   \/ SetStatus(i, "DEAD_LETTER") \/ SetStatus(i, "RETRY_WAIT")
        BY <3>1 DEF Reserve, Ack, NackPermanent, NackExhausted, NackRetry
      <4> QED BY <2>2, <4>1
    <3>2. ASSUME PromoteDue \/ ReapExpired PROVE \E B : SetStatuses(B, "QUEUED")
      BY <3>2 DEF PromoteDue, ReapExpired
    <3> QED BY <3>1, <3>2 DEF Crash, WorkerLoopEnds, Restart, RunAtPasses, LeaseLapses,
                              SchedulerLoopEnds, redis
  <2> QED BY <2>1, <2>3 DEF SetStatuses
<1> QED BY <1>1, <1>2, <1>3, SnapKept

LEMMA SnapInvHolds ==
    ASSUME Disciplined
    PROVE  Spec => []SnapInv
<1>1. Init => SnapInv
  BY DEF Init, RedisInit, ConsumerInit, SnapInv, Counting
<1>2. TypeOK /\ TypeOK' /\ LeaseInv /\ SnapInv /\ [Next]_vars => SnapInv'
  <2> SUFFICES ASSUME TypeOK, TypeOK', LeaseInv, SnapInv, [Next]_vars PROVE SnapInv'
    OBVIOUS
  <2>1. CASE UNCHANGED vars
    BY <2>1 DEF vars, redis, consumer, SnapInv
  <2>2. CASE ClientNext /\ UNCHANGED consumer
    BY <2>2, ClientsKeepSnap
  <2>3. CASE ConsumerNext
    BY <2>3, WorkersKeepSnap, RestKeepSnap DEF ConsumerNext, WorkerStep
  <2> QED BY <2>1, <2>2, <2>3 DEF Next
<1> QED BY <1>1, <1>2, TypeCorrect, LeaseInvHolds, PTL DEF Spec

-----------------------------------------------------------------------------
(* The story of a job: the attempts that its rows tell of, or will when the writes *)
(* that stand before the workers are made, are those that were run to their end.   *)

BeingRun(j) == \E w \in Workers : held[w] = j /\ wpc[w] \in Counting

\* Attempt `n` of job `j` was run, and ended so.
Ran(j, n, o) ==
    /\ n \in 1..attempt[j] /\ (BeingRun(j) => n # attempt[j])
    /\ o = IF n = attempt[j] /\ status[j] = "SUCCESS" THEN "SUCCESS" ELSE "FAILED"

Tells(j, n, o) ==
    \/ <<n, o>> \in story[j]
    \/ \E w \in Workers : \E i \in DOMAIN todo[w] : todo[w][i] = AttemptWrite(j, n, o)

\* A permanent failure may go unexplained (FailureWrites).
Explained(j) == j \notin untold /\ status[j] # "FAILED"

StoryInv ==
    requeues = 0 =>
      \A j \in Jobs : Explained(j) =>
        \A n \in Nat, o \in Outcomes : Tells(j, n, o) <=> Ran(j, n, o)

LEMMA AttemptWriteIs ==
    /\ \A i, j, m, n, o, p :
         AttemptWrite(i, m, o) = AttemptWrite(j, n, p) <=> i = j /\ m = n /\ o = p
    /\ \A j, n, o : AttemptWrite(j, n, o).table = "job_attempts"
    /\ \A x \in Writes : x.table = "job_attempts" =>
         x = AttemptWrite(x.job, x.number, x.says) /\ x.number \in Nat /\ x.says \in Outcomes
<1>1. ASSUME NEW i, NEW j, NEW m, NEW n, NEW o, NEW p
      PROVE  AttemptWrite(i, m, o) = AttemptWrite(j, n, p) <=> i = j /\ m = n /\ o = p
  BY DEF AttemptWrite
<1>2. ASSUME NEW j, NEW n, NEW o PROVE AttemptWrite(j, n, o).table = "job_attempts"
  BY DEF AttemptWrite
<1>3. ASSUME NEW x \in Writes, x.table = "job_attempts"
      PROVE  x = AttemptWrite(x.job, x.number, x.says) /\ x.number \in Nat /\ x.says \in Outcomes
  BY <1>3 DEF Writes, AttemptWrite
<1> QED BY <1>1, <1>2, <1>3

\* A list of writes tells of one attempt, or of none.
TellsOf(ws, j, m, o) ==
    \A i, n, p : (\E k \in DOMAIN ws : ws[k] = AttemptWrite(i, n, p)) <=> i = j /\ n = m /\ p = o

TellsOfNone(ws) == \A i, n, p : \A k \in DOMAIN ws : ws[k] # AttemptWrite(i, n, p)

LEMMA WhatWritesTell ==
    ASSUME NEW j \in Jobs, NEW m \in Nat
    PROVE  /\ TellsOf(SuccessWrites(j, m), j, m, "SUCCESS")
           /\ \A s \in {"DEAD_LETTER", "RETRY_WAIT"} :
                \A ws \in FailureWrites(j, m, s) : TellsOf(ws, j, m, "FAILED")
           /\ TellsOfNone(<<RowWrite(j, "PROCESSING")>>)
<1>1. \A x : x.table # "job_attempts" => \A i, n, p : x # AttemptWrite(i, n, p)
  BY AttemptWriteIs
<1>2. /\ \A s : RowWrite(j, s).table # "job_attempts"
      /\ \A r : FailureWrite(j, r).table # "job_attempts"
  BY DEF RowWrite, FailureWrite
<1>3. ASSUME NEW a, NEW x, NEW o, a = AttemptWrite(j, m, o), x.table # "job_attempts"
      PROVE  TellsOf(<<a, x>>, j, m, o)
  <2>1. DOMAIN <<a, x>> = {1, 2} /\ <<a, x>>[1] = a /\ <<a, x>>[2] = x
    OBVIOUS
  <2> QED BY <1>1, <1>3, <2>1, AttemptWriteIs DEF TellsOf
<1>4. ASSUME NEW a, NEW x, NEW f, NEW o, a = AttemptWrite(j, m, o),
             x.table # "job_attempts", f.table # "job_attempts"
      PROVE  TellsOf(Append(<<a, x>>, f), j, m, o)
  <2>1. /\ DOMAIN Append(<<a, x>>, f) = {1, 2, 3} /\ Append(<<a, x>>, f)[1] = a
        /\ Append(<<a, x>>, f)[2] = x /\ Append(<<a, x>>, f)[3] = f
    OBVIOUS
  <2> QED BY <1>1, <1>4, <2>1, AttemptWriteIs DEF TellsOf
<1>5. TellsOf(SuccessWrites(j, m), j, m, "SUCCESS")
  BY <1>2, <1>3 DEF SuccessWrites
<1>6. ASSUME NEW s \in {"DEAD_LETTER", "RETRY_WAIT"}, NEW ws \in FailureWrites(j, m, s)
      PROVE  TellsOf(ws, j, m, "FAILED")
  <2> DEFINE a == AttemptWrite(j, m, "FAILED")
             x == RowWrite(j, s)
             f == FailureWrite(j, Resolution(s))
  <2>1. ws = <<a, x>> \/ ws = Append(<<a, x>>, f)
    BY DEF FailureWrites
  <2>2. x.table # "job_attempts" /\ f.table # "job_attempts" /\ a = AttemptWrite(j, m, "FAILED")
    BY <1>2
  <2> HIDE DEF a, x, f
  <2>3. TellsOf(<<a, x>>, j, m, "FAILED") /\ TellsOf(Append(<<a, x>>, f), j, m, "FAILED")
    BY <1>3, <1>4, <2>2
  <2> QED BY <2>1, <2>3
<1>7. TellsOfNone(<<RowWrite(j, "PROCESSING")>>)
  BY <1>1, <1>2 DEF TellsOfNone
<1> QED BY <1>5, <1>6, <1>7

\* An empty list of writes is filled: what is told is what was, and what the list tells.
LEMMA OwingTells ==
    ASSUME NEW w \in Workers, NEW ws, todo \in [Workers -> Seq(Writes)], todo[w] = <<>>,
           Owes(w, ws), story' = story
    PROVE  \A j, n, o : Tells(j, n, o)' <=>
             Tells(j, n, o) \/ \E k \in DOMAIN ws : ws[k] = AttemptWrite(j, n, o)
<1>1. todo'[w] = ws /\ \A v \in Workers \ {w} : todo'[v] = todo[v]
  BY DEF Owes
<1>2. DOMAIN todo[w] = {}
  OBVIOUS
<1> SUFFICES ASSUME NEW j, NEW n, NEW o
             PROVE  Tells(j, n, o)' <=>
                      Tells(j, n, o) \/ \E k \in DOMAIN ws : ws[k] = AttemptWrite(j, n, o)
  OBVIOUS
<1>3. AttemptWrite(j, n, o)' = AttemptWrite(j, n, o)
  BY DEF AttemptWrite
<1> QED BY <1>1, <1>2, <1>3 DEF Tells

\* A step that leaves a job's attempts, and the story, as they were.
LEMMA RanKept ==
    ASSUME NEW j \in Jobs, attempt'[j] = attempt[j], BeingRun(j)' <=> BeingRun(j),
           status'[j] = "SUCCESS" <=> status[j] = "SUCCESS", NEW n, NEW o
    PROVE  Ran(j, n, o)' <=> Ran(j, n, o)
BY DEF Ran

LEMMA AroundRuns ==
    ASSUME TypeOK, LeaseInv, SnapInv, requeues' = 0, NEW j \in Jobs,
           \/ Around \/ \E w \in Workers : Reserve(w) /\ UNCHANGED client
           \/ \E w \in Workers : FetchJob(w) \/ RunHandler(w)
    PROVE  attempt'[j] = attempt[j] /\ (BeingRun(j)' <=> BeingRun(j))
<1>1. attempt'[j] = attempt[j]
  <2>1. ASSUME NEW c \in Clients, PushDue(c) \/ PushLater(c) \/ NodeWriteHash(c)
        PROVE  attempt' = attempt
    <3>1. PICK i \in Jobs : i = cjob[c] /\ SetAttempt(i, 0)
      BY <2>1 DEF PushDue, PushLater, NodeWriteHash, TypeOK, ClientTypeOK
    <3>2. status[i] = "NONE"
      BY <2>1, <3>1 DEF PushDue, PushLater, NodeWriteHash, LeaseInv, ClientTells
    <3> QED BY <3>1, <3>2 DEF SetAttempt, SnapInv, TypeOK, RedisTypeOK
  <2>2. ASSUME NEW c \in Clients, Requeue(c) \/ NodeReset(c) PROVE FALSE
    <3>1. requeues' = requeues /\ requeues > 0
      BY <2>2 DEF Requeue, NodeReset, LeaseInv, ClientTells
    <3> QED BY <3>1
  <2> QED BY <2>1, <2>2
      DEF Around, ClientNext, ClientStep, redis, ExpireKey, LookupOwner, ReturnOriginal,
          OwnerMissing, NodeLinkReady, NodeLinkScheduled, NodeRemove, NodeRepush, ClientDies,
          EnqueueUnkeyed, ClaimKey, KeyTaken, StartEnqueue, StartRequeue, PromoteDue, ReapExpired,
          SchedulerLoopEnds, Restart, RunAtPasses, LeaseLapses, Reserve, FetchJob, RunHandler
<1>2. \A w \in Workers : /\ wpc'[w] \in Counting <=> wpc[w] \in Counting
                         /\ wpc[w] \in Counting => held'[w] = held[w]
  <2>1. ASSUME NEW w \in Workers, NEW pc \in WorkerPcs, Becomes(w, pc),
               pc \in Counting <=> wpc[w] \in Counting,
               wpc[w] \in Counting => held'[w] = held[w],
               \A v \in Workers \ {w} : held'[v] = held[v]
        PROVE  \A v \in Workers : /\ wpc'[v] \in Counting <=> wpc[v] \in Counting
                                  /\ wpc[v] \in Counting => held'[v] = held[v]
    BY <2>1 DEF Becomes, TypeOK, ConsumerTypeOK
  <2>2. ASSUME NEW w \in Workers, Reserve(w) \/ FetchJob(w) \/ RunHandler(w) \/ Restart(w)
        PROVE  /\ \E pc \in WorkerPcs : Becomes(w, pc) /\ (pc \in Counting <=> wpc[w] \in Counting)
               /\ wpc[w] \in Counting => held'[w] = held[w]
               /\ \A v \in Workers \ {w} : held'[v] = held[v]
    BY <2>2 DEF Reserve, FetchJob, RunHandler, Restart, WorkerPcs, Counting, TypeOK, ConsumerTypeOK
  <2> QED BY <2>1, <2>2 DEF Around, consumer, PromoteDue, ReapExpired, SchedulerLoopEnds,
                            RunAtPasses, LeaseLapses
<1>3. BeingRun(j)' <=> BeingRun(j)
  BY <1>2 DEF BeingRun
<1> QED BY <1>1, <1>3

LEMMA NoRequeueYet ==
    ASSUME TypeOK, [MirrorNext]_mirrorVars, requeues' = 0
    PROVE  requeues = 0
<1>1. requeues' = requeues \/ requeues' = requeues + 1
  BY DEF MirrorNext, mirrorVars, vars, client, Work, Write, Swallow, WriteFails, Die, Around,
         ClientNext, ClientStep, ExpireKey, LookupOwner, ReturnOriginal, OwnerMissing, PushDue,
         PushLater, NodeWriteHash, NodeLinkReady, NodeLinkScheduled, Requeue, NodeRemove, NodeReset,
         NodeRepush, ClientDies, EnqueueUnkeyed, ClaimKey, KeyTaken, StartEnqueue, StartRequeue
<1> QED BY <1>1 DEF TypeOK, ClientTypeOK

\* The queue moves on with nothing written.
LEMMA QuietStory ==
    ASSUME StoryInv, requeues = 0, UNCHANGED <<todo, story>>,
           \A j \in Jobs : Explained(j)' =>
             /\ Explained(j) /\ attempt'[j] = attempt[j]
             /\ BeingRun(j)' <=> BeingRun(j)
             /\ status'[j] = "SUCCESS" <=> status[j] = "SUCCESS"
    PROVE  StoryInv'
<1> SUFFICES ASSUME NEW j \in Jobs, Explained(j)', NEW n \in Nat, NEW o \in Outcomes
             PROVE  Tells(j, n, o)' <=> Ran(j, n, o)'
  BY DEF StoryInv
<1>1. Tells(j, n, o)' <=> Tells(j, n, o)
  BY DEF Tells, AttemptWrite
<1>2. Ran(j, n, o)' <=> Ran(j, n, o)
  BY RanKept
<1> QED BY <1>1, <1>2 DEF StoryInv

\* The worker `w` has counted its job, or settled it, and owes `ws`.
LEMMA OwingStory ==
    ASSUME TypeOK, LeaseInv, SnapInv, StoryInv, requeues = 0,
           NEW w \in Workers, NEW ws, NEW j \in Jobs, j = held[w],
           todo \in [Workers -> Seq(Writes)], todo[w] = <<>>, Owes(w, ws),
           UNCHANGED <<story, untold>>,
           \A i \in Jobs \ {j} : attempt'[i] = attempt[i] /\ status'[i] = status[i],
           \A v \in Workers \ {w} : held'[v] = held[v] /\ wpc'[v] = wpc[v],
           held'[w] \in {j, NoJob},
           \A i, n, p : (\E k \in DOMAIN ws : ws[k] = AttemptWrite(i, n, p)) => i = j,
           Explained(j)' => \A n \in Nat, o \in Outcomes :
             Ran(j, n, o)' <=>
               Ran(j, n, o) \/ \E k \in DOMAIN ws : ws[k] = AttemptWrite(j, n, o)
    PROVE  StoryInv'
<1> SUFFICES ASSUME NEW i \in Jobs, Explained(i)', NEW n \in Nat, NEW o \in Outcomes
             PROVE  Tells(i, n, o)' <=> Ran(i, n, o)'
  BY DEF StoryInv
<1>1. Tells(i, n, o)' <=> Tells(i, n, o) \/ \E k \in DOMAIN ws : ws[k] = AttemptWrite(i, n, o)
  BY OwingTells
<1>2. Explained(i)
  <2>1. status[j] # "FAILED"
    BY HolderFacts
  <2> QED BY <2>1 DEF Explained
<1>3. Tells(i, n, o) <=> Ran(i, n, o)
  BY <1>2 DEF StoryInv
<1>4. CASE i = j
  BY <1>1, <1>3, <1>4
<1>5. CASE i # j
  <2>1. BeingRun(i)' <=> BeingRun(i)
    BY <1>5, JobsAssumption DEF BeingRun
  <2>2. Ran(i, n, o)' <=> Ran(i, n, o)
    BY <1>5, <2>1, RanKept
  <2> QED BY <1>1, <1>3, <1>5, <2>2
<1> QED BY <1>4, <1>5

LEMMA CountStory ==
    ASSUME TypeOK, LeaseInv, SnapInv, StoryInv, requeues = 0, NEW w \in Workers,
           todo \in [Workers -> Seq(Writes)], todo[w] = <<>>,
           CountAttempt(w), OweOneOf(w, {<<RowWrite(held[w], "PROCESSING")>>})
    PROVE  StoryInv'
<1>1. PICK j \in Jobs : j = held[w]
  BY DEF CountAttempt, TypeOK, ConsumerTypeOK, Holding
<1>2. PICK ws : ws = <<RowWrite(j, "PROCESSING")>>
  OBVIOUS
<1>3. Owes(w, ws) /\ UNCHANGED <<story, untold>>
  BY <1>1, <1>2 DEF OweOneOf
<1>4. \A i, n, p : ~\E k \in DOMAIN ws : ws[k] = AttemptWrite(i, n, p)
  <2>1. 0 \in Nat
    OBVIOUS
  <2> QED BY <1>2, <2>1, WhatWritesTell DEF TellsOfNone
<1>5. /\ UNCHANGED <<status, held>> /\ attempt'[j] = attempt[j] + 1
      /\ \A i \in Jobs \ {j} : attempt'[i] = attempt[i]
      /\ \A v \in Workers \ {w} : wpc'[v] = wpc[v]
      /\ wpc[w] = "count" /\ wpc'[w] = "run" /\ attempt[j] \in Nat
  BY <1>1 DEF CountAttempt, SnapInv, SetAttempt, Becomes, TypeOK, RedisTypeOK, ConsumerTypeOK
<1>6. status[j] = "PROCESSING" /\ \A v \in Workers : held[v] = j => v = w
  BY <1>1, HolderFacts
<1>7. ~BeingRun(j) /\ BeingRun(j)'
  BY <1>1, <1>5, <1>6 DEF BeingRun, Counting
<1>8. ASSUME NEW n \in Nat, NEW o \in Outcomes PROVE Ran(j, n, o)' <=> Ran(j, n, o)
  BY <1>5, <1>6, <1>7 DEF Ran
<1> QED BY <1>1, <1>3, <1>4, <1>5, <1>8, OwingStory

LEMMA SettleStory ==
    ASSUME TypeOK, LeaseInv, SnapInv, StoryInv, requeues = 0, NEW w \in Workers,
           todo \in [Workers -> Seq(Writes)], todo[w] = <<>>, Settle(w)
    PROVE  StoryInv'
<1>1. PICK j \in Jobs : j = held[w]
  BY DEF Settle, Ack, NackPermanent, NackExhausted, NackRetry, TypeOK, ConsumerTypeOK, Holding
<1>2. status[j] = "PROCESSING" /\ \A v \in Workers : held[v] = j => v = w
  BY <1>1, HolderFacts
<1>3. PICK m \in Nat : m = attempt[j] /\ m = AttemptNumber(w) /\ m # 0
  BY <1>1 DEF Settle, Ack, NackPermanent, NackExhausted, NackRetry, SnapInv, Counting,
              AttemptNumber, TypeOK, RedisTypeOK
<1>4. /\ attempt' = attempt /\ UNCHANGED <<story, untold>>
      /\ held'[w] = NoJob /\ \A v \in Workers \ {w} : held'[v] = held[v] /\ wpc'[v] = wpc[v]
      /\ wpc[w] \in Counting /\ wpc'[w] = "idle"
  <2>1. attempt' = attempt \/ SetAttempt(j, m)
    BY <1>1, <1>3 DEF Settle, Ack, NackPermanent, NackExhausted, NackRetry, AttemptNumber
  <2>2. attempt' = attempt
    BY <1>3, <2>1 DEF SetAttempt, TypeOK, RedisTypeOK
  <2>3. LetGo(w, "idle") /\ wpc[w] \in Counting /\ UNCHANGED <<story, untold>>
    BY DEF Settle, Ack, NackPermanent, NackExhausted, NackRetry, Counting, OweOneOf
  <2> QED BY <2>2, <2>3 DEF LetGo, Becomes, TypeOK, ConsumerTypeOK
<1>5. BeingRun(j) /\ ~BeingRun(j)'
  BY <1>1, <1>2, <1>4, JobsAssumption DEF BeingRun
\* With one more row the story has caught up.
<1>6. ASSUME NEW s, NEW o, NEW ws, SetStatus(j, s), Owes(w, ws), TellsOf(ws, j, m, o),
             o = IF s = "SUCCESS" THEN "SUCCESS" ELSE "FAILED"
      PROVE  StoryInv'
  <2>1. status'[j] = s /\ \A i \in Jobs \ {j} : status'[i] = status[i]
    BY <1>6 DEF SetStatus, TypeOK, RedisTypeOK
  <2>2. ASSUME NEW n \in Nat, NEW p \in Outcomes
        PROVE  Ran(j, n, p)' <=>
                 Ran(j, n, p) \/ \E k \in DOMAIN ws : ws[k] = AttemptWrite(j, n, p)
    <3>1. (\E k \in DOMAIN ws : ws[k] = AttemptWrite(j, n, p)) <=> n = m /\ p = o
      BY <1>6 DEF TellsOf
    <3>2. Ran(j, n, p) <=> n \in 1..m /\ n # m /\ p = "FAILED"
      BY <1>2, <1>3, <1>5 DEF Ran
    <3>3. Ran(j, n, p)' <=> n \in 1..m /\ p = IF n = m THEN o ELSE "FAILED"
      BY <1>3, <1>4, <1>5, <1>6, <2>1 DEF Ran
    <3>4. m \in 1..m
      BY <1>3
    <3> QED BY <3>1, <3>2, <3>3, <3>4
  <2>3. \A i, n, p : (\E k \in DOMAIN ws : ws[k] = AttemptWrite(i, n, p)) => i = j
    BY <1>6 DEF TellsOf
  <2> QED BY <1>1, <1>4, <1>6, <2>1, <2>2, <2>3, OwingStory
<1>7. CASE Ack(w) /\ OweOneOf(w, {SuccessWrites(j, m)})
  <2>1. SetStatus(j, "SUCCESS") /\ Owes(w, SuccessWrites(j, m))
    BY <1>1, <1>7 DEF Ack, OweOneOf
  <2> QED BY <1>6, <2>1, WhatWritesTell
<1>8. ASSUME NEW s \in {"DEAD_LETTER", "RETRY_WAIT"}, SetStatus(j, s),
             OweOneOf(w, FailureWrites(j, m, s))
      PROVE  StoryInv'
  <2>1. PICK ws \in FailureWrites(j, m, s) : Owes(w, ws)
    BY <1>8 DEF OweOneOf
  <2>2. TellsOf(ws, j, m, "FAILED")
    BY WhatWritesTell
  <2> QED BY <1>6, <1>8, <2>1, <2>2
\* A permanent failure is not explained any more.
<1>9. CASE NackPermanent(w) /\ OweOneOf(w, FailureWrites(j, m, "FAILED"))
  <2>1. PICK ws \in FailureWrites(j, m, "FAILED") : Owes(w, ws)
    BY <1>9 DEF OweOneOf
  <2>2. status'[j] = "FAILED" /\ \A i \in Jobs \ {j} : status'[i] = status[i]
    BY <1>1, <1>9 DEF NackPermanent, SetStatus, TypeOK, RedisTypeOK
  <2>3. ws \in WritesOf(j, "FAILED")
    BY OwedWrites
  <2>4. \A i, n, p : (\E k \in DOMAIN ws : ws[k] = AttemptWrite(i, n, p)) => i = j
    <3>1. \A i, n, p : AttemptWrite(i, n, p).job = i
      BY DEF AttemptWrite
    <3> QED BY <2>3, <3>1 DEF WritesOf
  <2>5. ~Explained(j)'
    BY <2>2 DEF Explained
  <2> QED BY <1>1, <1>4, <2>1, <2>2, <2>4, <2>5, OwingStory
<1> QED BY <1>1, <1>3, <1>7, <1>8, <1>9 DEF Settle, NackExhausted, NackRetry

LEMMA InHeadOrTail ==
    ASSUME NEW s \in Seq(Writes), s # <<>>, NEW y
    PROVE  (\E i \in DOMAIN s : s[i] = y)
             <=> y = Head(s) \/ \E i \in DOMAIN Tail(s) : Tail(s)[i] = y
<1> DEFINE h == Head(s)
           t == Tail(s)
<1>1. /\ h = s[1] /\ 1 \in DOMAIN s
      /\ \A i \in DOMAIN t : i + 1 \in DOMAIN s /\ t[i] = s[i + 1]
      /\ \A i \in DOMAIN s : i = 1 \/ (i - 1 \in DOMAIN t /\ t[i - 1] = s[i])
  BY HeadAndTail
<1> HIDE DEF h, t
<1>2. (\E i \in DOMAIN s : s[i] = y) <=> y = h \/ \E i \in DOMAIN t : t[i] = y
  BY <1>1
<1> QED BY <1>2 DEF h, t

\* A write is made: what was to be told is told.  Nothing the database has already keeps
\* it out, since an attempt has one outcome.
LEMMA WriteStory ==
    ASSUME MirrorTypeOK, StoryInv, NEW w \in Workers, Write(w)
    PROVE  StoryInv'
<1>1. /\ todo[w] \in Seq(Writes) /\ todo[w] # <<>> /\ todo' = [todo EXCEPT ![w] = Tail(todo[w])]
      /\ UNCHANGED <<untold, status, attempt, held, wpc, requeues>>
  BY DEF Write, WriteDone, Owes, MirrorTypeOK, vars, redis, client, consumer
<1>2. PICK x \in Writes : x = Head(todo[w])
  BY <1>1, HeadAndTail
<1>3. UpsertJob(x) \/ RecordAttempt(x) \/ RecordFailure(x)
  BY <1>2 DEF Write
<1>4. /\ todo'[w] = Tail(todo[w]) /\ \A v \in Workers \ {w} : todo'[v] = todo[v]
  BY <1>1 DEF MirrorTypeOK
<1>5. SUFFICES ASSUME requeues = 0, NEW j \in Jobs, Explained(j), NEW n \in Nat, NEW o \in Outcomes
               PROVE  Tells(j, n, o)' <=> Tells(j, n, o)
  <2>1. ASSUME requeues = 0, NEW j \in Jobs, Explained(j), NEW n \in Nat, NEW o \in Outcomes
        PROVE  Tells(j, n, o)' <=> Ran(j, n, o)'
    <3>1. Ran(j, n, o)' <=> Ran(j, n, o)
      BY <1>1 DEF Ran, BeingRun
    <3> QED BY <1>5, <2>1, <3>1 DEF StoryInv
  <2> QED BY <1>1, <2>1 DEF StoryInv, Explained
\* What the lists tell, before and after.
<1>6. (\E v \in Workers : \E i \in DOMAIN todo[v] : todo[v][i] = AttemptWrite(j, n, o))
        <=> \/ x = AttemptWrite(j, n, o)
            \/ \E v \in Workers : \E i \in DOMAIN todo'[v] : todo'[v][i] = AttemptWrite(j, n, o)
  <2> DEFINE y == AttemptWrite(j, n, o)
  <2> HIDE DEF y
  <2>1. (\E i \in DOMAIN todo[w] : todo[w][i] = y)
          <=> x = y \/ \E i \in DOMAIN todo'[w] : todo'[w][i] = y
    <3>1. (\E i \in DOMAIN todo[w] : todo[w][i] = y)
              <=> y = Head(todo[w]) \/ \E i \in DOMAIN Tail(todo[w]) : Tail(todo[w])[i] = y
      BY <1>1, InHeadOrTail, Zenon
    <3> QED BY <1>2, <1>4, <3>1
  <2>2. (\E v \in Workers : \E i \in DOMAIN todo[v] : todo[v][i] = y)
          <=> x = y \/ \E v \in Workers : \E i \in DOMAIN todo'[v] : todo'[v][i] = y
    <3>1. ASSUME NEW v \in Workers
          PROVE  (\E i \in DOMAIN todo[v] : todo[v][i] = y)
                   <=> (v = w /\ x = y) \/ \E i \in DOMAIN todo'[v] : todo'[v][i] = y
      BY <1>4, <2>1
    <3> QED BY <3>1
  <2> QED BY <2>2 DEF y
<1>7. AttemptWrite(j, n, o)' = AttemptWrite(j, n, o)
  BY DEF AttemptWrite
<1>8. CASE x # AttemptWrite(j, n, o)
  <2>1. <<n, o>> \in story'[j] <=> <<n, o>> \in story[j]
    <3>1. CASE x.table # "job_attempts"
      BY <1>3, <3>1 DEF UpsertJob, RecordAttempt, RecordFailure
    <3>2. CASE x.table = "job_attempts"
      <4>1. x = AttemptWrite(x.job, x.number, x.says)
        BY <3>2, AttemptWriteIs
      <4>2. j # x.job \/ <<n, o>> # <<x.number, x.says>>
        BY <1>8, <4>1
      <4>3. RecordAttempt(x) /\ x.job \in Jobs
        BY <1>3, <3>2 DEF UpsertJob, RecordFailure, Writes
      <4> QED BY <4>2, <4>3 DEF RecordAttempt, MirrorTypeOK
    <3> QED BY <3>1, <3>2
  <2> QED BY <1>6, <1>7, <1>8, <2>1 DEF Tells
<1>9. CASE x = AttemptWrite(j, n, o)
  <2>1. RecordAttempt(x) /\ x.job = j /\ x.number = n /\ x.says = o
    BY <1>3, <1>9 DEF UpsertJob, RecordFailure, AttemptWrite
  <2>2. Tells(j, n, o)
    BY <1>6, <1>9 DEF Tells
  <2>3. <<n, o>> \in story'[j]
    <3>1. CASE ~Numbered(j, n)
      BY <2>1, <3>1 DEF RecordAttempt, MirrorTypeOK
    <3>2. CASE Numbered(j, n)
      <4>1. PICK p \in Outcomes : <<n, p>> \in story[j]
        BY <3>2 DEF Numbered
      <4>2. Ran(j, n, p) /\ Ran(j, n, o)
        BY <1>5, <2>2, <4>1 DEF StoryInv, Tells
      <4>3. p = o
        BY <4>2 DEF Ran
      <4> QED BY <2>1, <3>2, <4>1, <4>3 DEF RecordAttempt, MirrorTypeOK
    <3> QED BY <3>1, <3>2
  <2> QED BY <2>2, <2>3 DEF Tells
<1> QED BY <1>8, <1>9

\* A write is lost, or a worker with those it owed: the jobs they were about are untold.
LEMMA LossStory ==
    ASSUME MirrorTypeOK, StoryInv, requeues = 0, NEW w \in Workers, Swallow(w) \/ Die(w)
    PROVE  StoryInv'
<1>1. UNCHANGED <<story, status, attempt>> /\ untold \subseteq untold'
  BY DEF Swallow, WriteFails, Die, Crash, WorkerLoopEnds, redis
<1>2. ASSUME NEW j \in Jobs, j \notin untold' PROVE BeingRun(j)' <=> BeingRun(j)
  <2>1. CASE Swallow(w)
    BY <2>1 DEF Swallow, consumer, BeingRun
  <2>2. CASE Die(w)
    <3>1. held[w] # j
      BY <1>2, <2>2 DEF Die, Unsaid
    <3>2. /\ held'[w] = NoJob
          /\ \A v \in Workers \ {w} : held'[v] = held[v] /\ wpc'[v] = wpc[v]
      BY <2>2 DEF Die, Crash, WorkerLoopEnds, LetGo, Becomes, MirrorTypeOK, TypeOK, ConsumerTypeOK
    <3> QED BY <3>1, <3>2, JobsAssumption DEF BeingRun
  <2> QED BY <2>1, <2>2
<1>3. ASSUME NEW j \in Jobs, j \notin untold', NEW n, NEW o
      PROVE  Tells(j, n, o)' <=> Tells(j, n, o)
  <2> DEFINE y == AttemptWrite(j, n, o)
  <2>1. y.job = j /\ y' = y
    BY DEF AttemptWrite
  <2> HIDE DEF y
  <2>2. \A v \in Workers \ {w} : todo'[v] = todo[v]
    BY DEF Swallow, Die, WriteDone, Owes, MirrorTypeOK
  <2>3. (\E i \in DOMAIN todo'[w] : todo'[w][i] = y) <=> \E i \in DOMAIN todo[w] : todo[w][i] = y
    <3>1. CASE Swallow(w)
      <4>1. /\ todo[w] \in Seq(Writes) /\ todo[w] # <<>> /\ todo'[w] = Tail(todo[w])
            /\ untold' = untold \cup {Head(todo[w]).job}
        BY <3>1 DEF Swallow, WriteFails, WriteDone, Owes, MirrorTypeOK
      <4>2. Head(todo[w]) # y
        BY <1>3, <2>1, <4>1
      <4>3. (\E i \in DOMAIN todo[w] : todo[w][i] = y)
              <=> y = Head(todo[w]) \/ \E i \in DOMAIN Tail(todo[w]) : Tail(todo[w])[i] = y
        BY <4>1, InHeadOrTail, Zenon
      <4> QED BY <4>1, <4>2, <4>3
    <3>2. CASE Die(w)
      <4>1. todo'[w] = <<>> /\ j \notin Unsaid(w)
        BY <1>3, <3>2 DEF Die, Owes, MirrorTypeOK
      <4>2. \A i \in DOMAIN todo[w] : todo[w][i].job # j
        BY <4>1 DEF Unsaid
      <4> QED BY <2>1, <4>1, <4>2
    <3> QED BY <3>1, <3>2
  <2>4. (\E v \in Workers : \E i \in DOMAIN todo'[v] : todo'[v][i] = y)
          <=> \E v \in Workers : \E i \in DOMAIN todo[v] : todo[v][i] = y
    BY <2>2, <2>3
  <2> QED BY <1>1, <2>1, <2>4 DEF Tells, y
<1>4. ASSUME NEW j \in Jobs, Explained(j)', NEW n \in Nat, NEW o \in Outcomes
      PROVE  Tells(j, n, o)' <=> Ran(j, n, o)'
  <2>1. Explained(j) /\ j \notin untold'
    BY <1>1, <1>4 DEF Explained
  <2>2. Ran(j, n, o)' <=> Ran(j, n, o)
    BY <1>1, <1>2, <2>1, RanKept
  <2> QED BY <1>3, <2>1, <2>2 DEF StoryInv
<1> QED BY <1>4 DEF StoryInv

LEMMA StoryStep ==
    ASSUME MirrorTypeOK, LeaseInv, SnapInv, StoryInv, [MirrorNext]_mirrorVars
    PROVE  StoryInv'
<1>1. SUFFICES ASSUME requeues = 0, requeues' = 0 PROVE StoryInv'
  BY NoRequeueYet DEF StoryInv, MirrorTypeOK
<1>2. TypeOK /\ todo \in [Workers -> Seq(Writes)] /\ [Next]_vars
  BY MirrorStepsAreQueueSteps DEF MirrorTypeOK
<1>3. \A j \in Jobs : status[j] \in {"SUCCESS", "FAILED"} => status'[j] = status[j]
  BY <1>2, SettledStays
<1>4. CASE UNCHANGED mirrorVars
  BY <1>1, <1>4, QuietStory DEF mirrorVars, vars, mirror, redis, consumer, Explained, BeingRun
<1>5. ASSUME UNCHANGED <<todo, story, untold>>,
             \/ Around \/ \E w \in Workers : Reserve(w) /\ UNCHANGED client
             \/ \E w \in Workers : FetchJob(w) \/ RunHandler(w),
             \A j \in Jobs : Settled(j)' => status'[j] = status[j]
      PROVE  StoryInv'
  <2>1. \A j \in Jobs : attempt'[j] = attempt[j] /\ (BeingRun(j)' <=> BeingRun(j))
    BY <1>1, <1>2, <1>5, AroundRuns
  <2>2. ASSUME NEW j \in Jobs, Explained(j)'
        PROVE  Explained(j) /\ (status'[j] = "SUCCESS" <=> status[j] = "SUCCESS")
    BY <1>3, <1>5, <2>2 DEF Explained, Settled
  <2> QED BY <1>1, <1>5, <2>1, <2>2, QuietStory
<1>6. CASE Around
  <2>1. \A j \in Jobs : Settled(j)' => status'[j] = status[j]
    BY <1>2, <1>6, OnlySettleSettles
  <2> QED BY <1>5, <1>6, <2>1 DEF Around, OweNothing
<1>7. ASSUME NEW w \in Workers, Work(w) PROVE StoryInv'
  <2>1. CASE TakeJob(w)
    <3>1. \A j \in Jobs : Settled(j)' => status'[j] = status[j]
      BY <1>2, <1>7, <2>1, OnlySettleSettles DEF Work
    <3> QED BY <1>5, <1>7, <2>1, <3>1 DEF Work, TakeJob, OweNothing
  <2>2. CASE (FetchJob(w) \/ RunHandler(w)) /\ OweNothing
    <3>1. status' = status
      BY <2>2 DEF FetchJob, RunHandler, redis
    <3> QED BY <1>5, <2>2, <3>1 DEF OweNothing
  <2>3. CASE CountAttempt(w) /\ OweOneOf(w, {<<RowWrite(held[w], "PROCESSING")>>})
    BY <1>1, <1>2, <1>7, <2>3, CountStory DEF Work
  <2>4. CASE Settle(w)
    BY <1>1, <1>2, <1>7, <2>4, SettleStory DEF Work
  <2> QED BY <1>7, <2>1, <2>2, <2>3, <2>4 DEF Work
<1>8. ASSUME NEW w \in Workers, Write(w) \/ Swallow(w) \/ Die(w) PROVE StoryInv'
  BY <1>1, <1>8, WriteStory, LossStory
<1> QED BY <1>4, <1>6, <1>7, <1>8 DEF MirrorNext

\* Until an operator requeues, the rows of a job that lost no write tell every attempt of it,
\* the last one with how it ended (0004 sql:46); and they do however late they are written,
\* even while a later attempt runs.
THEOREM StoryAlwaysWhole ==
    ASSUME Disciplined
    PROVE  MirrorSpec => []StoryIsWhole
<1>1. MirrorInit => StoryInv
  BY DEF MirrorInit, Init, RedisInit, StoryInv, Tells, Ran
<1>2. MirrorTypeOK /\ LeaseInv /\ SnapInv /\ StoryInv /\ [MirrorNext]_mirrorVars => StoryInv'
  BY StoryStep
<1>3. MirrorSpec => [](LeaseInv /\ SnapInv)
  BY MirrorIsAQueue, LeaseInvHolds, SnapInvHolds, PTL DEF HistoryNeverCostsAJob, Spec
<1>4. MirrorTypeOK /\ LeaseInv /\ StoryInv => StoryIsWhole
  <2> SUFFICES ASSUME MirrorTypeOK, LeaseInv, StoryInv, NEW j \in Jobs,
                      status[j] \in {"SUCCESS", "DEAD_LETTER"},
                      ~Pending(j), j \notin untold, requeues = 0
               PROVE  story[j] = {<<n, IF n = attempt[j] /\ status[j] = "SUCCESS"
                                         THEN "SUCCESS" ELSE "FAILED">> : n \in 1..attempt[j]}
    BY DEF StoryIsWhole
  <2>1. ~BeingRun(j)
    BY HolderFacts DEF BeingRun, MirrorTypeOK
  <2>2. \A n, o : ~\E w \in Workers : \E i \in DOMAIN todo[w] : todo[w][i] = AttemptWrite(j, n, o)
    BY DEF Pending, AttemptWrite
  <2>3. \A n \in Nat, o \in Outcomes : <<n, o>> \in story[j] <=> Ran(j, n, o)
    BY <2>2 DEF StoryInv, Tells, Explained
  <2>4. story[j] \subseteq Nat \X Outcomes /\ attempt[j] \in Nat
    BY DEF MirrorTypeOK, TypeOK, RedisTypeOK
  <2> DEFINE how(n) == IF n = attempt[j] /\ status[j] = "SUCCESS" THEN "SUCCESS" ELSE "FAILED"
  <2>5. \A n \in Nat, o \in Outcomes : <<n, o>> \in story[j] <=> n \in 1..attempt[j] /\ o = how(n)
    BY <2>1, <2>3 DEF Ran
  <2>6. \A n : how(n) \in Outcomes
    BY DEF Outcomes
  <2>7. 1..attempt[j] \subseteq Nat
    BY <2>4
  <2> HIDE DEF how
  <2>8. story[j] = {<<n, how(n)>> : n \in 1..attempt[j]}
    BY <2>4, <2>5, <2>6, <2>7
  <2> QED BY <2>8 DEF how
<1> QED BY <1>1, <1>2, <1>3, <1>4, MirrorTypeCorrect, PTL DEF MirrorSpec
=============================================================================
