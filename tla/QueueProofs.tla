----------------------------- MODULE QueueProofs ------------------------------
(***************************************************************************)
(* Proofs about Queue, for any sets of jobs, clients and workers and any   *)
(* bounds: its types, and that no job is lost.                             *)
(***************************************************************************)
EXTENDS Queue, TLAPS, FiniteSetTheorems, SequenceTheorems

-----------------------------------------------------------------------------
(* What the commands on the ready lists do. *)

LEMMA PushReadyFacts ==
    ASSUME RedisTypeOK, NEW j \in Jobs, PushReady(j)
    PROVE  /\ ready' \in [Priorities -> Seq(Jobs)]
           /\ InReady(j)'
           /\ \A i \in Jobs : InReady(i) => InReady(i)'
<1> DEFINE q == PriorityOf[j]
<1>1. /\ q \in Priorities /\ ready[q] \in Seq(Jobs)
      /\ ready' = [ready EXCEPT ![q] = Append(ready[q], j)]
  BY PriorityAssumption DEF RedisTypeOK, PushReady
<1>2. /\ ready' \in [Priorities -> Seq(Jobs)]
      /\ ready'[q] = Append(ready[q], j)
      /\ \A p \in Priorities : p # q => ready'[p] = ready[p]
  BY <1>1 DEF RedisTypeOK
<1>3. /\ Len(ready[q]) \in Nat
      /\ DOMAIN ready'[q] = 1..(Len(ready[q]) + 1)
      /\ ready'[q][Len(ready[q]) + 1] = j
      /\ \A k \in DOMAIN ready[q] : k \in DOMAIN ready'[q] /\ ready'[q][k] = ready[q][k]
  BY <1>1, <1>2
<1>4. InReady(j)'
  BY <1>1, <1>3 DEF InReady
<1>5. ASSUME NEW i \in Jobs, InReady(i) PROVE InReady(i)'
  <2>1. PICK p \in Priorities : \E k \in DOMAIN ready[p] : ready[p][k] = i
    BY <1>5 DEF InReady
  <2>2. CASE p = q
    BY <1>3, <2>1, <2>2 DEF InReady
  <2>3. CASE p # q
    BY <1>2, <2>1, <2>3 DEF InReady
  <2> QED BY <2>2, <2>3
<1> QED BY <1>2, <1>4, <1>5

LEMMA PopFacts ==
    ASSUME RedisTypeOK, NEW p \in Priorities, ready[p] # <<>>,
           ready' = [ready EXCEPT ![p] = Tail(@)]
    PROVE  /\ Head(ready[p]) \in Jobs
           /\ ready' \in [Priorities -> Seq(Jobs)]
           /\ \A i \in Jobs : InReady(i) /\ i # Head(ready[p]) => InReady(i)'
<1>1. /\ ready[p] \in Seq(Jobs) /\ ready'[p] = Tail(ready[p])
      /\ Head(ready[p]) \in Jobs /\ Tail(ready[p]) \in Seq(Jobs)
      /\ \A q \in Priorities : q # p => ready'[q] = ready[q]
      /\ ready' \in [Priorities -> Seq(Jobs)]
  BY DEF RedisTypeOK
<1>2. ASSUME NEW i \in Jobs, InReady(i), i # Head(ready[p]) PROVE InReady(i)'
  <2>1. PICK q \in Priorities : \E k \in DOMAIN ready[q] : ready[q][k] = i
    BY <1>2 DEF InReady
  <2>2. CASE q # p
    BY <1>1, <2>1, <2>2 DEF InReady
  <2>3. CASE q = p
    <3>1. PICK k \in DOMAIN ready[p] : ready[p][k] = i
      BY <2>1, <2>3
    <3>2. /\ k \in 1..Len(ready[p]) /\ k # 1
      BY <1>1, <1>2, <3>1
    <3>3. k - 1 \in DOMAIN Tail(ready[p]) /\ Tail(ready[p])[k - 1] = i
      BY <1>1, <3>1, <3>2
    <3> QED BY <1>1, <3>3 DEF InReady
  <2> QED BY <2>2, <2>3
<1> QED BY <1>1, <1>2

LEMMA OrderingFacts ==
    ASSUME NEW S \in SUBSET Jobs, NEW s \in Orderings(S)
    PROVE  /\ s \in Seq(Jobs)
           /\ \A j \in S : \E k \in DOMAIN s : s[k] = j
<1>1. Cardinality(S) \in Nat
  BY JobsAssumption, FS_Subset, FS_CardinalityType
<1>2. s \in [1..Cardinality(S) -> Jobs]
  BY DEF Orderings
<1> QED BY <1>1, <1>2 DEF Orderings

LEMMA ExtendFacts ==
    ASSUME NEW s \in Seq(Jobs), NEW t \in Seq(Jobs)
    PROVE  /\ s \o t \in Seq(Jobs)
           /\ \A k \in DOMAIN s : k \in DOMAIN (s \o t) /\ (s \o t)[k] = s[k]
           /\ \A k \in DOMAIN t : Len(s) + k \in DOMAIN (s \o t) /\ (s \o t)[Len(s) + k] = t[k]
  OBVIOUS

LEMMA PushBatchFacts ==
    ASSUME RedisTypeOK, NEW B \in SUBSET Jobs, PushBatch(B)
    PROVE  /\ ready' \in [Priorities -> Seq(Jobs)]
           /\ \A j \in Jobs : InReady(j) \/ j \in B => InReady(j)'
<1> DEFINE Of(p) == {j \in B : PriorityOf[j] = p}
<1>1. PICK add \in [Priorities -> UNION {Orderings(S) : S \in SUBSET Jobs}] :
        /\ \A p \in Priorities : add[p] \in Orderings(Of(p))
        /\ ready' = [p \in Priorities |-> ready[p] \o add[p]]
  <2>1. PICK h \in Orderings(Of("HIGH")), m \in Orderings(Of("MEDIUM")),
             l \in Orderings(Of("LOW")) :
          ready' = [ready EXCEPT !["HIGH"] = @ \o h,
                                 !["MEDIUM"] = @ \o m,
                                 !["LOW"] = @ \o l]
    BY DEF PushBatch
  <2> DEFINE a == [p \in Priorities |-> IF p = "HIGH" THEN h
                                        ELSE IF p = "MEDIUM" THEN m ELSE l]
  <2>2. \A p \in Priorities : a[p] \in Orderings(Of(p))
    BY DEF Priorities
  <2>3. \A p \in Priorities : Of(p) \in SUBSET Jobs
    OBVIOUS
  <2>4. a \in [Priorities -> UNION {Orderings(S) : S \in SUBSET Jobs}]
    BY <2>2, <2>3
  <2>5. ready' = [p \in Priorities |-> ready[p] \o a[p]]
    BY <2>1 DEF RedisTypeOK, Priorities
  <2> HIDE DEF a
  <2> QED BY <2>2, <2>4, <2>5
<1>2. ASSUME NEW p \in Priorities
      PROVE  /\ ready[p] \in Seq(Jobs) /\ add[p] \in Seq(Jobs)
             /\ \A j \in Of(p) : \E k \in DOMAIN add[p] : add[p][k] = j
             /\ ready'[p] = ready[p] \o add[p]
  <2>1. Of(p) \in SUBSET Jobs /\ add[p] \in Orderings(Of(p))
    BY <1>1
  <2>2. /\ add[p] \in Seq(Jobs)
        /\ \A j \in Of(p) : \E k \in DOMAIN add[p] : add[p][k] = j
    BY <2>1, OrderingFacts
  <2>3. ready[p] \in Seq(Jobs)
    BY DEF RedisTypeOK
  <2>4. ready'[p] = ready[p] \o add[p]
    BY <1>1
  <2> QED BY <2>2, <2>3, <2>4
<1>3. ready' \in [Priorities -> Seq(Jobs)]
  BY <1>1, <1>2, ExtendFacts
<1>4. ASSUME NEW j \in Jobs, InReady(j) PROVE InReady(j)'
  <2>1. PICK p \in Priorities : \E k \in DOMAIN ready[p] : ready[p][k] = j
    BY <1>4 DEF InReady
  <2>2. PICK k \in DOMAIN ready[p] : ready[p][k] = j
    BY <2>1
  <2> DEFINE s == ready[p]
             t == add[p]
  <2>3. s \in Seq(Jobs) /\ t \in Seq(Jobs) /\ ready'[p] = s \o t
    BY <1>2
  <2>4. k \in DOMAIN s /\ s[k] = j
    BY <2>2
  <2> HIDE DEF s, t
  <2>5. k \in DOMAIN (s \o t) /\ (s \o t)[k] = j
    BY <2>3, <2>4, ExtendFacts
  <2> QED BY <2>3, <2>5 DEF InReady
<1>5. ASSUME NEW j \in B PROVE InReady(j)'
  <2>1. PriorityOf[j] \in Priorities /\ j \in Of(PriorityOf[j])
    BY PriorityAssumption
  <2>2. PICK k \in DOMAIN add[PriorityOf[j]] : add[PriorityOf[j]][k] = j
    BY <1>2, <2>1
  <2> DEFINE q == PriorityOf[j]
             s == ready[q]
             t == add[q]
  <2>3. s \in Seq(Jobs) /\ t \in Seq(Jobs) /\ ready'[q] = s \o t
    BY <1>2, <2>1
  <2>5. k \in DOMAIN t /\ t[k] = j
    BY <2>2
  <2> HIDE DEF s, t
  <2>4. Len(s) + k \in DOMAIN ready'[q] /\ ready'[q][Len(s) + k] = j
    BY <2>3, <2>5, ExtendFacts
  <2> QED BY <2>1, <2>4 DEF InReady
<1> QED BY <1>3, <1>4, <1>5

-----------------------------------------------------------------------------
(* Type correctness. *)

LEMMA ClientTypes ==
    ASSUME TypeOK, ClientNext, UNCHANGED consumer
    PROVE  TypeOK'
<1> USE DEF TypeOK
<1>0. ConsumerTypeOK'
  BY DEF ConsumerTypeOK, consumer, Holding, WorkerPcs
<1>1. ASSUME NEW c \in Clients, NEW j \in Jobs,
             EnqueueUnkeyed(c, j) \/ ClaimKey(c, j) \/ KeyTaken(c, j)
      PROVE  RedisTypeOK' /\ ClientTypeOK'
  <2>1. RedisTypeOK'
    BY <1>1, KeysAssumption
    DEF EnqueueUnkeyed, ClaimKey, KeyTaken, StartEnqueue, RedisTypeOK
  <2>2. original' \in [Clients -> Jobs \cup {NoJob}]
    <3>1. KeyOf[j] # NoKey => idem[KeyOf[j]] \in Jobs \cup {NoJob}
      BY KeysAssumption DEF RedisTypeOK
    <3> QED BY <1>1, <3>1 DEF EnqueueUnkeyed, ClaimKey, KeyTaken, ClientTypeOK
  <2>3. /\ cpc' \in [Clients -> ClientPcs] /\ cpc'[c] # "idle"
        /\ \A d \in Clients : d # c => cpc'[d] = cpc[d]
    BY <1>1 DEF EnqueueUnkeyed, ClaimKey, KeyTaken, Goto, ClientTypeOK, ClientPcs
  <2>4. /\ StartEnqueue(c, j)
        /\ cpc'[c] = "lookup" => KeyOf[j] \in Keys
        /\ cpc'[c] # "fetch"
    BY <1>1, KeysAssumption
    DEF EnqueueUnkeyed, ClaimKey, KeyTaken, Goto, ClientTypeOK
  <2>5. /\ cjob' \in [Clients -> Jobs \cup {NoJob}] /\ cjob'[c] = j /\ j # NoJob
        /\ \A d \in Clients : d # c => cjob'[d] = cjob[d]
    BY <2>4, JobsAssumption DEF StartEnqueue, ClientTypeOK
  <2>6. \A d \in Clients : /\ cpc'[d] = "idle" <=> cjob'[d] = NoJob
                          /\ cpc'[d] \in {"lookup", "fetch"} => KeyOf[cjob'[d]] \in Keys
    BY <2>3, <2>4, <2>5 DEF ClientTypeOK
  <2> QED BY <2>1, <2>2, <2>3, <2>4, <2>5, <2>6 DEF StartEnqueue, ClientTypeOK
<1>2. ASSUME NEW c \in Clients, ClientStep(c) PROVE RedisTypeOK' /\ ClientTypeOK'
  <2> USE DEF Goto, Finish, ClientPcs
  <2>0. cpc[c] # "idle" => cjob[c] \in Jobs
    BY DEF ClientTypeOK
  <2>1. CASE LookupOwner(c)
    <3>1. cpc[c] = "lookup" /\ idem[KeyOf[cjob[c]]] \in Jobs \cup {NoJob}
      BY <2>1 DEF LookupOwner, RedisTypeOK, ClientTypeOK
    <3> QED BY <2>1, <3>1 DEF LookupOwner, RedisTypeOK, ClientTypeOK, redis
  <2>2. CASE ReturnOriginal(c)
    BY <2>2 DEF ReturnOriginal, RedisTypeOK, ClientTypeOK, redis
  <2>3. CASE OwnerMissing(c)
    BY <2>3 DEF OwnerMissing, RedisTypeOK, ClientTypeOK, redis
  <2>4. CASE PushDue(c)
    <3>1. cjob[c] \in Jobs /\ PushReady(cjob[c])
      BY <2>0, <2>4 DEF PushDue
    <3>2. ready' \in [Priorities -> Seq(Jobs)]
      BY <3>1, PushReadyFacts
    <3> QED BY <2>4, <3>1, <3>2
            DEF PushDue, SetStatus, SetAttempt, RedisTypeOK, ClientTypeOK, Status
  <2>5. CASE PushLater(c)
    <3>1. RedisTypeOK'
      BY <2>0, <2>5 DEF PushLater, SetStatus, SetAttempt, AddScheduled, RedisTypeOK, Status
    <3> QED BY <2>5, <3>1 DEF PushLater, ClientTypeOK
  <2>6. CASE NodeWriteHash(c)
    <3>1. RedisTypeOK'
      BY <2>0, <2>6 DEF NodeWriteHash, SetStatus, SetAttempt, RedisTypeOK, Status
    <3>2. PICK pc \in {"linkReady", "linkScheduled"} : cpc' = [cpc EXCEPT ![c] = pc]
      BY <2>6 DEF NodeWriteHash
    <3>3. cpc[c] = "push" /\ UNCHANGED <<cjob, found, original, drawn, torn, requeues>>
      BY <2>6 DEF NodeWriteHash
    <3> QED BY <3>1, <3>2, <3>3 DEF ClientTypeOK
  <2>7. CASE NodeLinkReady(c) \/ NodeRepush(c)
    <3>1. cjob[c] \in Jobs /\ PushReady(cjob[c])
      BY <2>0, <2>7 DEF NodeLinkReady, NodeRepush
    <3>2. ready' \in [Priorities -> Seq(Jobs)]
      BY <3>1, PushReadyFacts
    <3>3. RedisTypeOK'
      BY <2>7, <3>2 DEF NodeLinkReady, NodeRepush, RedisTypeOK
    <3>4. /\ Finish(c) /\ UNCHANGED <<drawn, torn, requeues>>
      BY <2>7 DEF NodeLinkReady, NodeRepush
    <3> QED BY <3>3, <3>4 DEF ClientTypeOK
  <2>8. CASE NodeLinkScheduled(c)
    BY <2>0, <2>8 DEF NodeLinkScheduled, AddScheduled, RedisTypeOK, ClientTypeOK
  <2>9. CASE Requeue(c)
    <3>1. cjob[c] \in Jobs /\ PushReady(cjob[c])
      BY <2>0, <2>9 DEF Requeue
    <3>2. ready' \in [Priorities -> Seq(Jobs)]
      BY <3>1, PushReadyFacts
    <3> QED BY <2>9, <3>1, <3>2 DEF Requeue, SetStatus, SetAttempt, RemoveDeadLetter,
                                   RedisTypeOK, ClientTypeOK, Status
  <2>10. CASE NodeRemove(c)
    BY <2>0, <2>10 DEF NodeRemove, RemoveDeadLetter, RedisTypeOK, ClientTypeOK
  <2>11. CASE NodeReset(c)
    BY <2>0, <2>11 DEF NodeReset, SetStatus, SetAttempt, RedisTypeOK, ClientTypeOK, Status
  <2> QED BY <1>2, <2>1, <2>2, <2>3, <2>4, <2>5, <2>6, <2>7, <2>8, <2>9, <2>10, <2>11
          DEF ClientStep
<1>3. ASSUME NEW c \in Clients, NEW j \in Jobs, StartRequeue(c, j)
      PROVE  RedisTypeOK' /\ ClientTypeOK'
  <2>1. RedisTypeOK'
    BY <1>3 DEF StartRequeue, RedisTypeOK, redis
  <2>2. requeues' \in 0..MaxRequeues
    BY <1>3, ClientsAssumption DEF StartRequeue, ClientTypeOK
  <2>3. /\ cpc' = [cpc EXCEPT ![c] = "requeue"]
        /\ cjob' = [cjob EXCEPT ![c] = j]
        /\ UNCHANGED <<found, original, drawn, torn>>
    BY <1>3 DEF StartRequeue, Goto
  <2> QED BY <2>1, <2>2, <2>3, JobsAssumption DEF ClientPcs, ClientTypeOK
<1>4. ASSUME NEW c \in Clients, ClientDies(c) PROVE RedisTypeOK' /\ ClientTypeOK'
  <2>1. RedisTypeOK'
    BY <1>4 DEF ClientDies, RedisTypeOK, redis
  <2>2. torn' \subseteq Jobs /\ UNCHANGED <<drawn, requeues>>
    BY <1>4 DEF ClientDies, ClientTypeOK
  <2>3. Finish(c)
    BY <1>4 DEF ClientDies
  <2> QED BY <2>1, <2>2, <2>3 DEF Finish, Goto, ClientPcs, ClientTypeOK
<1>5. ASSUME NEW k \in Keys, ExpireKey(k) PROVE RedisTypeOK' /\ ClientTypeOK'
  BY <1>5 DEF ExpireKey, RedisTypeOK, ClientTypeOK, client
<1> QED BY <1>0, <1>1, <1>2, <1>3, <1>4, <1>5 DEF ClientNext

LEMMA ConsumerTypes ==
    ASSUME TypeOK, ConsumerNext, UNCHANGED client
    PROVE  TypeOK'
<1> USE DEF TypeOK
<1>0. ClientTypeOK'
  BY DEF ClientTypeOK, client
<1>1. ASSUME NEW w \in Workers, Reserve(w) PROVE RedisTypeOK' /\ ConsumerTypeOK'
  <2>1. PICK p \in Priorities :
          /\ ready[p] # <<>>
          /\ ready' = [ready EXCEPT ![p] = Tail(@)]
          /\ held' = [held EXCEPT ![w] = Head(ready[p])]
          /\ AddLease(Head(ready[p]))
          /\ SetStatus(Head(ready[p]), "PROCESSING")
    BY <1>1 DEF Reserve, FirstWaiting
  <2>2. Head(ready[p]) \in Jobs /\ ready' \in [Priorities -> Seq(Jobs)]
    BY <2>1, PopFacts
  <2>3. RedisTypeOK'
    BY <1>1, <2>1, <2>2 DEF Reserve, AddLease, SetStatus, RedisTypeOK, Status
  <2> QED BY <1>1, <2>1, <2>2, <2>3, JobsAssumption
          DEF Reserve, Becomes, ConsumerTypeOK, WorkerPcs, Holding
<1>2. ASSUME NEW w \in Workers, WorkerStep(w) PROVE RedisTypeOK' /\ ConsumerTypeOK'
  <2> USE DEF Becomes, LetGo, WorkerPcs, Holding
  <2>0. wpc[w] \in Holding => held[w] \in Jobs
    BY DEF ConsumerTypeOK
  <2>1. CASE FetchJob(w)
    BY <2>0, <2>1 DEF FetchJob, RedisTypeOK, ConsumerTypeOK, redis
  <2>2. CASE CountAttempt(w)
    BY <2>0, <2>2 DEF CountAttempt, SetAttempt, RedisTypeOK, ConsumerTypeOK
  <2>3. CASE RunHandler(w)
    BY <2>3 DEF RunHandler, RedisTypeOK, ConsumerTypeOK, redis
  <2>4. CASE Ack(w)
    BY <2>0, <2>4 DEF Ack, DropLease, SetStatus, RedisTypeOK, ConsumerTypeOK, Status
  <2>5. CASE NackPermanent(w)
    BY <2>0, <2>5 DEF NackPermanent, DropLease, SetStatus, SetAttempt, RedisTypeOK,
                      ConsumerTypeOK, Status
  <2>6. CASE NackExhausted(w)
    BY <2>0, <2>6 DEF NackExhausted, DropLease, SetStatus, SetAttempt, PushDeadLetter,
                      RedisTypeOK, ConsumerTypeOK, Status
  <2>7. CASE NackRetry(w)
    BY <2>0, <2>7 DEF NackRetry, DropLease, SetStatus, SetAttempt, AddScheduled,
                      RedisTypeOK, ConsumerTypeOK, Status
  <2>8. CASE Restart(w)
    BY <2>8 DEF Restart, RedisTypeOK, ConsumerTypeOK, redis
  <2> QED BY <1>2, <2>1, <2>2, <2>3, <2>4, <2>5, <2>6, <2>7, <2>8 DEF WorkerStep
<1>3. ASSUME NEW w \in Workers, Crash(w) \/ WorkerLoopEnds(w)
      PROVE  RedisTypeOK' /\ ConsumerTypeOK'
  <2>1. RedisTypeOK'
    BY <1>3 DEF Crash, WorkerLoopEnds, RedisTypeOK, redis
  <2>2. /\ crashes' \in 0..MaxCrashes /\ redisErrors' \in 0..MaxRedisErrors
        /\ UNCHANGED <<scheduling, overruns>>
    BY <1>3, ConsumerAssumption DEF Crash, WorkerLoopEnds, ConsumerTypeOK
  <2>3. LetGo(w, "down") \/ LetGo(w, "stopped")
    BY <1>3 DEF Crash, WorkerLoopEnds
  <2> QED BY <2>1, <2>2, <2>3 DEF LetGo, Becomes, Holding, WorkerPcs, ConsumerTypeOK
<1>4. ASSUME NEW j \in Jobs, RunAtPasses(j) PROVE RedisTypeOK' /\ ConsumerTypeOK'
  BY <1>4 DEF RunAtPasses, RedisTypeOK, ConsumerTypeOK, consumer
<1>5. ASSUME NEW j \in Jobs, LeaseLapses(j) PROVE RedisTypeOK' /\ ConsumerTypeOK'
  BY <1>5, ConsumerAssumption DEF LeaseLapses, RedisTypeOK, ConsumerTypeOK
<1>6. CASE PromoteDue \/ ReapExpired
  <2>1. PICK B \in SUBSET Jobs : /\ PushBatch(B)
                                 /\ SetStatuses(B, "QUEUED")
    BY <1>6 DEF PromoteDue, ReapExpired, Expired, Batches, RedisTypeOK
  <2>2. ready' \in [Priorities -> Seq(Jobs)]
    BY <2>1, PushBatchFacts
  <2>3. status' \in [Jobs -> Status \cup {"NONE"}]
    BY <2>1 DEF SetStatuses, RedisTypeOK, Status
  <2>4. ConsumerTypeOK'
    BY <1>6 DEF PromoteDue, ReapExpired, ConsumerTypeOK, consumer
  <2>5. /\ scheduled' \subseteq Jobs /\ due' \subseteq scheduled'
        /\ processing' \subseteq Jobs /\ lapsed' \subseteq processing'
        /\ UNCHANGED <<dlq, attempt, idem>>
    <3>1. CASE PromoteDue
      BY <3>1 DEF PromoteDue, RedisTypeOK
    <3>2. CASE ReapExpired
      BY <3>2 DEF ReapExpired, RedisTypeOK
    <3> QED BY <1>6, <3>1, <3>2
  <2>6. /\ dlq' \in [Jobs -> Nat] /\ attempt' \in [Jobs -> Nat]
        /\ idem' \in [Keys -> Jobs \cup {NoJob}]
    BY <2>5 DEF RedisTypeOK
  <2>7. RedisTypeOK'
    BY <2>2, <2>3, <2>5, <2>6, Zenon DEF RedisTypeOK
  <2> QED BY <1>0, <2>4, <2>7
<1>7. CASE SchedulerLoopEnds
  <2>1. RedisTypeOK'
    BY <1>7 DEF SchedulerLoopEnds, RedisTypeOK, redis
  <2>2. scheduling' \in BOOLEAN
    BY <1>7 DEF SchedulerLoopEnds
  <2>3. redisErrors' \in 0..MaxRedisErrors
    BY <1>7, ConsumerAssumption DEF SchedulerLoopEnds, ConsumerTypeOK
  <2>4. UNCHANGED <<wpc, held, snap, crashes, overruns>>
    BY <1>7 DEF SchedulerLoopEnds
  <2>5. \A w \in Workers : (wpc'[w] \in Holding) <=> (held'[w] # NoJob)
    BY <2>4 DEF ConsumerTypeOK
  <2>6. /\ wpc' \in [Workers -> WorkerPcs]
        /\ held' \in [Workers -> Jobs \cup {NoJob}]
        /\ snap' \in [Workers -> Nat]
        /\ crashes' \in 0..MaxCrashes /\ overruns' \in 0..MaxOverruns
    BY <2>4 DEF ConsumerTypeOK
  <2>7. ConsumerTypeOK'
    BY <2>2, <2>3, <2>5, <2>6, Zenon DEF ConsumerTypeOK
  <2> QED BY <1>0, <2>1, <2>7
<1> QED BY <1>0, <1>1, <1>2, <1>3, <1>4, <1>5, <1>6, <1>7 DEF ConsumerNext

\* The state stays in its types: every queued id is a job, every lapsed lease is a
\* lease, a worker has a job in hand exactly while it is between reserve and ack.
THEOREM TypeCorrect == Spec => []TypeOK
<1>1. Init => TypeOK
  BY JobsAssumption, ClientsAssumption, ConsumerAssumption
  DEF Init, RedisInit, ClientInit, ConsumerInit, TypeOK, RedisTypeOK, ClientTypeOK,
      ConsumerTypeOK, ClientPcs, WorkerPcs, Holding, Status
<1>2. TypeOK /\ [Next]_vars => TypeOK'
  <2> SUFFICES ASSUME TypeOK, [Next]_vars PROVE TypeOK'
    OBVIOUS
  <2>1. CASE ClientNext /\ UNCHANGED consumer
    BY <2>1, ClientTypes
  <2>2. CASE ConsumerNext /\ UNCHANGED client
    BY <2>2, ConsumerTypes
  <2>3. CASE UNCHANGED vars
    BY <2>3 DEF vars, redis, client, consumer, TypeOK, RedisTypeOK, ClientTypeOK,
                ConsumerTypeOK, Holding
  <2> QED BY <2>1, <2>2, <2>3 DEF Next
<1> QED BY <1>1, <1>2, PTL DEF Spec

-----------------------------------------------------------------------------
(***************************************************************************)
(* No job is lost.  NoJobLost is inductive together with the types: every  *)
(* step that takes a job out of a list or set writes the status that       *)
(* names the next place in the same atomic step, or, in the Node pipeline, *)
(* leaves the client that will at a pc that MidPipeline remembers.         *)
(***************************************************************************)

\* Nothing a step did takes job `i` away from where its status says it is.
Kept(i) ==
    /\ status'[i] = status[i]
    /\ InReady(i) => InReady(i)'
    /\ i \in scheduled => i \in scheduled'
    /\ i \in processing => i \in processing'
    /\ dlq[i] > 0 => dlq'[i] > 0
    /\ \A pcs \in {{"linkReady", "repush"}, {"linkScheduled"}, {"reset"}} :
         MidPipeline(i, pcs) => MidPipeline(i, pcs)'

LEMMA KeptIsPlaced ==
    ASSUME NEW i \in Jobs, Placed(i), Kept(i)
    PROVE  Placed(i)'
  BY DEF Placed, Kept

LEMMA MidKept ==
    ASSUME NEW c \in Clients, torn \subseteq torn',
           \A d \in Clients \ {c} : cpc'[d] = cpc[d] /\ cjob'[d] = cjob[d],
           NEW i \in Jobs, NEW pcs, MidPipeline(i, pcs),
           cjob[c] = i => cpc[c] \notin pcs
    PROVE  MidPipeline(i, pcs)'
  BY DEF MidPipeline

LEMMA ClientsLoseNoJob ==
    ASSUME TypeOK, NoJobLost, ClientNext, UNCHANGED consumer
    PROVE  NoJobLost'
<1> SUFFICES ASSUME NEW i \in Jobs, Placed(i) PROVE Placed(i)'
  BY DEF NoJobLost
<1> USE DEF TypeOK
<1> DEFINE LinkReady == {"linkReady", "repush"}
           LinkScheduled == {"linkScheduled"}
           Reset == {"reset"}
           OnlyMoves(c) == /\ torn \subseteq torn'
                           /\ \A d \in Clients \ {c} : cpc'[d] = cpc[d] /\ cjob'[d] = cjob[d]
<1>1. ASSUME NEW c \in Clients, OnlyMoves(c), UNCHANGED <<ready, scheduled, processing, dlq, status>>,
             \A pcs \in {LinkReady, LinkScheduled, Reset} : cjob[c] = i => cpc[c] \notin pcs
      PROVE  Placed(i)'
  <2>1. \A pcs \in {LinkReady, LinkScheduled, Reset} :
          MidPipeline(i, pcs) => MidPipeline(i, pcs)'
    BY <1>1, MidKept
  <2>2. InReady(i) => InReady(i)'
    BY <1>1 DEF InReady
  <2>3. Kept(i)
    BY <1>1, <2>1, <2>2 DEF Kept
  <2> QED BY <2>3, KeptIsPlaced
<1>2. ASSUME NEW c \in Clients, NEW j \in Jobs,
             EnqueueUnkeyed(c, j) \/ ClaimKey(c, j) \/ KeyTaken(c, j) \/ StartRequeue(c, j)
      PROVE  Placed(i)'
  <2>1. cpc[c] = "idle" /\ OnlyMoves(c) /\ UNCHANGED <<ready, scheduled, processing, dlq, status>>
    BY <1>2 DEF EnqueueUnkeyed, ClaimKey, KeyTaken, StartEnqueue, StartRequeue, Goto,
                ClientTypeOK, redis
  <2> QED BY <1>1, <2>1
<1>3. ASSUME NEW c \in Clients, LookupOwner(c) \/ ReturnOriginal(c) \/ OwnerMissing(c)
      PROVE  Placed(i)'
  <2>1. cpc[c] \in {"lookup", "fetch"} /\ OnlyMoves(c)
        /\ UNCHANGED <<ready, scheduled, processing, dlq, status>>
    BY <1>3 DEF LookupOwner, ReturnOriginal, OwnerMissing, Finish, Goto, ClientTypeOK, redis
  <2> QED BY <1>1, <2>1
<1>4. ASSUME NEW c \in Clients, ClientDies(c) PROVE Placed(i)'
  <2>1. /\ OnlyMoves(c) /\ UNCHANGED <<ready, scheduled, processing, dlq, status>>
        /\ cpc[c] \in {"linkReady", "linkScheduled", "reset", "repush"} => cjob[c] \in torn'
    BY <1>4 DEF ClientDies, Finish, Goto, ClientTypeOK, redis
  <2>2. CASE cjob[c] = i /\ cpc[c] \in {"linkReady", "linkScheduled", "reset", "repush"}
    <3>1. \A pcs \in {LinkReady, LinkScheduled, Reset} : MidPipeline(i, pcs)'
      BY <2>1, <2>2 DEF MidPipeline
    <3>2. InReady(i) => InReady(i)'
      BY <2>1 DEF InReady
    <3> QED BY <2>1, <3>1, <3>2, KeptIsPlaced DEF Kept
  <2>3. CASE ~(cjob[c] = i /\ cpc[c] \in {"linkReady", "linkScheduled", "reset", "repush"})
    BY <1>1, <2>1, <2>3
  <2> QED BY <2>2, <2>3
<1>5. ASSUME NEW k \in Keys, ExpireKey(k) PROVE Placed(i)'
  BY <1>5 DEF ExpireKey, client, Placed, InReady, MidPipeline
<1>6. ASSUME NEW c \in Clients, cjob[c] # i, cjob[c] \in Jobs, OnlyMoves(c),
             ready' = ready \/ PushReady(cjob[c]),
             scheduled' = scheduled \/ AddScheduled(cjob[c]),
             processing' = processing,
             dlq' = dlq \/ RemoveDeadLetter(cjob[c]),
             \/ status' = status
             \/ \E s : SetStatus(cjob[c], s)
      PROVE  Placed(i)'
  <2>1. \A pcs \in {LinkReady, LinkScheduled, Reset} :
          MidPipeline(i, pcs) => MidPipeline(i, pcs)'
    BY <1>6, MidKept
  <2>2. InReady(i) => InReady(i)'
    <3>1. CASE ready' = ready
      BY <3>1 DEF InReady
    <3>2. CASE PushReady(cjob[c])
      BY <1>6, <3>2, PushReadyFacts
    <3> QED BY <1>6, <3>1, <3>2
  <2>3. i \in scheduled => i \in scheduled'
    BY <1>6 DEF AddScheduled
  <2>4. dlq'[i] = dlq[i]
    BY <1>6 DEF RemoveDeadLetter, RedisTypeOK
  <2>5. status'[i] = status[i]
    BY <1>6 DEF SetStatus, RedisTypeOK
  <2> QED BY <1>6, <2>1, <2>2, <2>3, <2>4, <2>5, KeptIsPlaced DEF Kept
<1> DEFINE Pushes(c) == \/ PushDue(c) \/ PushLater(c) \/ NodeWriteHash(c)
                        \/ NodeLinkReady(c) \/ NodeLinkScheduled(c) \/ Requeue(c)
                        \/ NodeRemove(c) \/ NodeReset(c) \/ NodeRepush(c)
<1>7. ASSUME NEW c \in Clients, Pushes(c)
      PROVE  /\ cjob[c] \in Jobs /\ OnlyMoves(c)
             /\ torn' = torn /\ processing' = processing
             /\ cjob[c] # i => Placed(i)'
  <2>1. cpc[c] # "idle" => cjob[c] \in Jobs
    BY DEF ClientTypeOK
  <2>2. cjob[c] \in Jobs
    BY <1>7, <2>1
    DEF PushDue, PushLater, NodeWriteHash, NodeLinkReady, NodeLinkScheduled, Requeue,
        NodeRemove, NodeReset, NodeRepush
  <2>3. OnlyMoves(c) /\ torn' = torn /\ processing' = processing
    BY <1>7
    DEF PushDue, PushLater, NodeWriteHash, NodeLinkReady, NodeLinkScheduled, Requeue,
        NodeRemove, NodeReset, NodeRepush, Finish, Goto, ClientTypeOK
  <2>4. /\ ready' = ready \/ PushReady(cjob[c])
        /\ scheduled' = scheduled \/ AddScheduled(cjob[c])
        /\ dlq' = dlq \/ RemoveDeadLetter(cjob[c])
        /\ status' = status \/ \E s : SetStatus(cjob[c], s)
    BY <1>7
    DEF PushDue, PushLater, NodeWriteHash, NodeLinkReady, NodeLinkScheduled, Requeue,
        NodeRemove, NodeReset, NodeRepush
  <2> QED BY <1>6, <2>2, <2>3, <2>4
<1>8. ASSUME NEW c \in Clients, Pushes(c), cjob[c] = i PROVE Placed(i)'
  <2> DEFINE j == cjob[c]
  <2>1. /\ j \in Jobs /\ OnlyMoves(c) /\ torn' = torn /\ processing' = processing
    BY <1>7, <1>8
  \* What the other clients have under way stays under way.
  <2>2. \A pcs \in {LinkReady, LinkScheduled, Reset} :
          MidPipeline(i, pcs) /\ cpc[c] \notin pcs => MidPipeline(i, pcs)'
    BY <2>1, MidKept
  <2>3. PushReady(j) => InReady(i)'
    BY <1>8, <2>1, PushReadyFacts
  <2>4. AddScheduled(j) => i \in scheduled'
    BY <1>8 DEF AddScheduled
  <2>5. \A s : SetStatus(j, s) => status'[i] = s
    BY <1>8 DEF SetStatus, RedisTypeOK
  <2>6. \A pcs : cpc'[c] \in pcs /\ cjob'[c] = i => MidPipeline(i, pcs)'
    BY DEF MidPipeline
  <2>7. CASE PushDue(c) \/ Requeue(c)
    BY <2>3, <2>5, <2>7 DEF PushDue, Requeue, Placed
  <2>8. CASE PushLater(c)
    BY <2>4, <2>5, <2>8 DEF PushLater, Placed
  <2>9. CASE NodeWriteHash(c)
    <3>1. cjob'[c] = i
      BY <1>8, <2>9 DEF NodeWriteHash
    <3>2. CASE SetStatus(j, "QUEUED") /\ Goto(c, "linkReady")
      BY <2>5, <2>6, <3>1, <3>2 DEF Goto, ClientTypeOK, Placed
    <3>3. CASE SetStatus(j, "SCHEDULED") /\ Goto(c, "linkScheduled")
      BY <2>5, <2>6, <3>1, <3>3 DEF Goto, ClientTypeOK, Placed
    <3> QED BY <2>9, <3>2, <3>3 DEF NodeWriteHash
  <2>10. CASE NodeLinkReady(c) \/ NodeRepush(c)
    <3>1. cpc[c] \notin LinkScheduled /\ cpc[c] \notin Reset
      BY <2>10 DEF NodeLinkReady, NodeRepush
    <3>2. InReady(i)' /\ UNCHANGED <<scheduled, processing, dlq, status>>
      BY <2>3, <2>10 DEF NodeLinkReady, NodeRepush
    <3> QED BY <2>2, <3>1, <3>2 DEF Placed
  <2>11. CASE NodeLinkScheduled(c)
    <3>1. cpc[c] \notin LinkReady /\ cpc[c] \notin Reset
      BY <2>11 DEF NodeLinkScheduled
    <3>2. i \in scheduled' /\ UNCHANGED <<ready, processing, dlq, status>>
      BY <2>4, <2>11 DEF NodeLinkScheduled
    <3>3. InReady(i) => InReady(i)'
      BY <3>2 DEF InReady
    <3> QED BY <2>2, <3>1, <3>2, <3>3 DEF Placed
  <2>12. CASE NodeRemove(c)
    <3>1. cpc[c] \notin LinkReady /\ cpc[c] \notin LinkScheduled
      BY <2>12 DEF NodeRemove
    <3>2. MidPipeline(i, Reset)'
      BY <1>8, <2>6, <2>12 DEF NodeRemove, Goto, ClientTypeOK
    <3>3. UNCHANGED <<ready, scheduled, processing, status>>
      BY <2>1, <2>12 DEF NodeRemove
    <3>4. InReady(i) => InReady(i)'
      BY <3>3 DEF InReady
    <3> QED BY <2>2, <3>1, <3>2, <3>3, <3>4 DEF Placed
  <2>13. CASE NodeReset(c)
    <3>1. MidPipeline(i, LinkReady)'
      BY <1>8, <2>6, <2>13 DEF NodeReset, Goto, ClientTypeOK
    <3> QED BY <2>5, <2>13, <3>1 DEF NodeReset, Placed
  <2> QED BY <1>8, <2>7, <2>8, <2>9, <2>10, <2>11, <2>12, <2>13
<1>9. ASSUME NEW c \in Clients, ClientStep(c) PROVE Placed(i)'
  BY <1>3, <1>7, <1>8, <1>9 DEF ClientStep
<1> HIDE DEF OnlyMoves, Pushes
<1> QED BY <1>2, <1>4, <1>5, <1>9 DEF ClientNext

LEMMA ConsumersLoseNoJob ==
    ASSUME TypeOK, NoJobLost, ConsumerNext, UNCHANGED client
    PROVE  NoJobLost'
<1> SUFFICES ASSUME NEW i \in Jobs, Placed(i) PROVE Placed(i)'
  BY DEF NoJobLost
<1> USE DEF TypeOK
<1>0. \A pcs : MidPipeline(i, pcs) => MidPipeline(i, pcs)'
  BY DEF MidPipeline, client
<1>1. ASSUME NEW w \in Workers, Reserve(w) PROVE Placed(i)'
  <2>1. PICK p \in Priorities :
          /\ ready[p] # <<>>
          /\ ready' = [ready EXCEPT ![p] = Tail(@)]
          /\ AddLease(Head(ready[p]))
          /\ SetStatus(Head(ready[p]), "PROCESSING")
    BY <1>1 DEF Reserve, FirstWaiting
  <2>2. /\ Head(ready[p]) \in Jobs
        /\ InReady(i) /\ i # Head(ready[p]) => InReady(i)'
    BY <2>1, PopFacts
  <2>3. UNCHANGED <<scheduled, dlq>>
    BY <1>1 DEF Reserve
  <2>4. CASE i = Head(ready[p])
    BY <2>1, <2>2, <2>4 DEF AddLease, SetStatus, RedisTypeOK, Placed
  <2>5. CASE i # Head(ready[p])
    <3>1. status'[i] = status[i] /\ (i \in processing => i \in processing')
      BY <2>1, <2>2, <2>5 DEF AddLease, SetStatus, RedisTypeOK
    <3> QED BY <1>0, <2>2, <2>3, <2>5, <3>1, KeptIsPlaced DEF Kept
  <2> QED BY <2>4, <2>5
\* ack and nack: the job they settle or reschedule, and every other.
<1>2. ASSUME NEW w \in Workers,
             Ack(w) \/ NackPermanent(w) \/ NackExhausted(w) \/ NackRetry(w)
      PROVE  Placed(i)'
  <2> DEFINE j == held[w]
  <2>1. j \in Jobs /\ ready' = ready /\ DropLease(j)
    BY <1>2 DEF Ack, NackPermanent, NackExhausted, NackRetry, ConsumerTypeOK, Holding
  <2>2. \/ SetStatus(j, "SUCCESS") /\ UNCHANGED <<scheduled, dlq>>
        \/ SetStatus(j, "FAILED") /\ UNCHANGED <<scheduled, dlq>>
        \/ SetStatus(j, "DEAD_LETTER") /\ PushDeadLetter(j) /\ UNCHANGED scheduled
        \/ SetStatus(j, "RETRY_WAIT") /\ AddScheduled(j) /\ UNCHANGED dlq
    BY <1>2 DEF Ack, NackPermanent, NackExhausted, NackRetry
  <2>3. CASE i = j
    BY <2>1, <2>2, <2>3 DEF SetStatus, PushDeadLetter, AddScheduled, RedisTypeOK, Placed
  <2>4. CASE i # j
    <3>1. /\ status'[i] = status[i] /\ dlq'[i] = dlq[i]
          /\ i \in scheduled => i \in scheduled'
          /\ i \in processing => i \in processing'
      BY <2>1, <2>2, <2>4
      DEF SetStatus, PushDeadLetter, AddScheduled, DropLease, RedisTypeOK
    <3>2. InReady(i) => InReady(i)'
      BY <2>1 DEF InReady
    <3> QED BY <1>0, <3>1, <3>2, KeptIsPlaced DEF Kept
  <2> QED BY <2>3, <2>4
<1>3. CASE PromoteDue \/ ReapExpired
  <2>1. PICK B \in SUBSET Jobs :
          /\ PushBatch(B) /\ SetStatuses(B, "QUEUED") /\ dlq' = dlq
          /\ scheduled \ B \subseteq scheduled' /\ processing \ B \subseteq processing'
    <3>1. CASE PromoteDue
      BY <3>1 DEF PromoteDue, Batches, RedisTypeOK
    <3>2. CASE ReapExpired
      BY <3>2 DEF ReapExpired, Expired, Batches, RedisTypeOK
    <3> QED BY <1>3, <3>1, <3>2
  <2>2. InReady(i) \/ i \in B => InReady(i)'
    BY <2>1, PushBatchFacts
  <2>3. CASE i \in B
    BY <2>1, <2>2, <2>3 DEF SetStatuses, Placed
  <2>4. CASE i \notin B
    BY <1>0, <2>1, <2>2, <2>4, KeptIsPlaced DEF SetStatuses, Kept
  <2> QED BY <2>3, <2>4
\* Everything else leaves the lists, the sets and the statuses alone.
<1>4. ASSUME UNCHANGED <<ready, scheduled, processing, dlq, status>> PROVE Placed(i)'
  <2>1. InReady(i) => InReady(i)'
    BY <1>4 DEF InReady
  <2> QED BY <1>0, <1>4, <2>1, KeptIsPlaced DEF Kept
<1>5. ASSUME NEW w \in Workers,
             \/ FetchJob(w) \/ CountAttempt(w) \/ RunHandler(w)
             \/ Restart(w) \/ Crash(w) \/ WorkerLoopEnds(w)
      PROVE  Placed(i)'
  BY <1>4, <1>5 DEF FetchJob, CountAttempt, RunHandler, Restart, Crash, WorkerLoopEnds, redis
<1>6. ASSUME NEW j \in Jobs, RunAtPasses(j) \/ LeaseLapses(j) PROVE Placed(i)'
  BY <1>4, <1>6 DEF RunAtPasses, LeaseLapses
<1>7. CASE SchedulerLoopEnds
  BY <1>4, <1>7 DEF SchedulerLoopEnds, redis
<1> QED BY <1>1, <1>2, <1>3, <1>5, <1>6, <1>7 DEF ConsumerNext, WorkerStep

\* At-least-once delivery: whatever crashes, lapses, is retried or reaped, a job is
\* where its status says it is, so a worker, the scheduler or an operator finds it.
THEOREM NoJobIsEverLost == Spec => []NoJobLost
<1>1. Init => NoJobLost
  BY DEF Init, RedisInit, NoJobLost, Placed
<1>2. TypeOK /\ NoJobLost /\ [Next]_vars => NoJobLost'
  <2> SUFFICES ASSUME TypeOK, NoJobLost, [Next]_vars PROVE NoJobLost'
    OBVIOUS
  <2>1. CASE ClientNext /\ UNCHANGED consumer
    BY <2>1, ClientsLoseNoJob
  <2>2. CASE ConsumerNext /\ UNCHANGED client
    BY <2>2, ConsumersLoseNoJob
  <2>3. CASE UNCHANGED vars
    BY <2>3 DEF vars, redis, client, NoJobLost, Placed, InReady, MidPipeline
  <2> QED BY <2>1, <2>2, <2>3 DEF Next
<1> QED BY <1>1, <1>2, TypeCorrect, PTL DEF Spec
=============================================================================
