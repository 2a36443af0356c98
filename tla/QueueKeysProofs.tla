---------------------------- MODULE QueueKeysProofs ----------------------------
(***************************************************************************)
(* More proofs about Queue, for any constants: an id that is queued or in  *)
(* somebody's hand has its hash, and an enqueue that lost its key to a     *)
(* stored job does not write one of its own; and a key has one job, unless *)
(* a duplicate outruns its original.                                       *)
(***************************************************************************)
EXTENDS QueueProofs

-----------------------------------------------------------------------------
(* What the commands on the ready lists do not add. *)

LEMMA PushReadyAdds ==
    ASSUME RedisTypeOK, NEW j \in Jobs, PushReady(j), NEW i \in Jobs, InReady(i)'
    PROVE  InReady(i) \/ i = j
<1> DEFINE q == PriorityOf[j]
<1>1. /\ q \in Priorities /\ ready[q] \in Seq(Jobs)
      /\ ready' = [ready EXCEPT ![q] = Append(ready[q], j)]
  BY PriorityAssumption DEF RedisTypeOK, PushReady
<1>2. PICK p \in Priorities : \E k \in DOMAIN ready'[p] : ready'[p][k] = i
  BY DEF InReady
<1>3. CASE p # q
  BY <1>1, <1>2, <1>3 DEF RedisTypeOK, InReady
<1>4. CASE p = q
  <2> DEFINE s == ready[q]
  <2>1. PICK k \in DOMAIN ready'[q] : ready'[q][k] = i
    BY <1>2, <1>4
  <2>2. ready'[q] = Append(s, j) /\ s \in Seq(Jobs)
    BY <1>1 DEF RedisTypeOK
  <2> HIDE DEF s
  <2>3. (k \in DOMAIN s /\ s[k] = i) \/ i = j
    BY <2>1, <2>2
  <2> QED BY <1>1, <2>3 DEF s, InReady
<1> QED BY <1>3, <1>4

LEMMA PopAdds ==
    ASSUME RedisTypeOK, NEW p \in Priorities, ready[p] # <<>>,
           ready' = [ready EXCEPT ![p] = Tail(@)], NEW i \in Jobs, InReady(i)'
    PROVE  InReady(i)
<1> DEFINE s == ready[p]
<1>1. /\ s \in Seq(Jobs) /\ s # <<>> /\ ready'[p] = Tail(s)
      /\ \A q \in Priorities : q # p => ready'[q] = ready[q]
  BY DEF RedisTypeOK
<1>2. PICK q \in Priorities : \E k \in DOMAIN ready'[q] : ready'[q][k] = i
  BY DEF InReady
<1>3. CASE q # p
  BY <1>1, <1>2, <1>3 DEF InReady
<1>4. CASE q = p
  <2>1. PICK k \in DOMAIN Tail(s) : Tail(s)[k] = i
    BY <1>1, <1>2, <1>4
  <2>2. k + 1 \in DOMAIN s /\ s[k + 1] = i
    <3> HIDE DEF s
    <3> QED BY <1>1, <2>1
  <2> QED BY <2>2 DEF InReady
<1> QED BY <1>3, <1>4

LEMMA OrderingAdds ==
    ASSUME NEW S \in SUBSET Jobs, NEW s \in Orderings(S), NEW k \in DOMAIN s
    PROVE  s[k] \in S
BY DEF Orderings

LEMMA ConcatParts ==
    ASSUME NEW s \in Seq(Jobs), NEW t \in Seq(Jobs), NEW k \in DOMAIN (s \o t)
    PROVE  \/ k \in DOMAIN s /\ (s \o t)[k] = s[k]
           \/ \E n \in DOMAIN t : (s \o t)[k] = t[n]
<1>1. CASE k <= Len(s)
  BY <1>1
<1>2. CASE k > Len(s)
  <2>1. k - Len(s) \in DOMAIN t /\ (s \o t)[k] = t[k - Len(s)]
    BY <1>2
  <2> QED BY <2>1
<1> QED BY <1>1, <1>2

LEMMA PushBatchAdds ==
    ASSUME RedisTypeOK, NEW B \in SUBSET Jobs, PushBatch(B), NEW i \in Jobs, InReady(i)'
    PROVE  InReady(i) \/ i \in B
<1> DEFINE Of(p) == {j \in B : PriorityOf[j] = p}
<1>1. PICK p \in Priorities : \E k \in DOMAIN ready'[p] : ready'[p][k] = i
  BY DEF InReady
<1>2. PICK t \in Orderings(Of(p)) : ready'[p] = ready[p] \o t
  <2>1. PICK h \in Orderings(Of("HIGH")), m \in Orderings(Of("MEDIUM")),
             l \in Orderings(Of("LOW")) :
          ready' = [ready EXCEPT !["HIGH"] = @ \o h,
                                 !["MEDIUM"] = @ \o m,
                                 !["LOW"] = @ \o l]
    BY DEF PushBatch
  <2>2. /\ ready'["HIGH"] = ready["HIGH"] \o h /\ ready'["MEDIUM"] = ready["MEDIUM"] \o m
        /\ ready'["LOW"] = ready["LOW"] \o l
    BY <2>1 DEF RedisTypeOK, Priorities
  <2> HIDE DEF Of
  <2> QED BY <2>2 DEF Priorities
<1>3. ready[p] \in Seq(Jobs) /\ t \in Seq(Jobs) /\ Of(p) \in SUBSET Jobs
  <2>1. Of(p) \in SUBSET Jobs
    OBVIOUS
  <2> HIDE DEF Of
  <2> QED BY <2>1, OrderingFacts DEF RedisTypeOK
<1>4. PICK k \in DOMAIN (ready[p] \o t) : (ready[p] \o t)[k] = i
  BY <1>1, <1>2
<1>5. \/ k \in DOMAIN ready[p] /\ ready[p][k] = i
      \/ \E n \in DOMAIN t : t[n] = i
  BY <1>3, <1>4, ConcatParts
<1>6. CASE k \in DOMAIN ready[p] /\ ready[p][k] = i
  BY <1>6 DEF InReady
<1>7. ASSUME NEW n \in DOMAIN t, t[n] = i PROVE i \in B
  <2>1. t[n] \in Of(p)
    <3> HIDE DEF Of
    <3> QED BY <1>3, <1>7, OrderingAdds
  <2> QED BY <1>7, <2>1
<1> QED BY <1>5, <1>6, <1>7

-----------------------------------------------------------------------------
(***************************************************************************)
(* Every id has its hash.  A hash is never deleted, and an id gets into a  *)
(* list, a set or a hand only from another of these, from a client that    *)
(* has written the hash in an earlier command, or in the command that      *)
(* writes it.                                                              *)
(***************************************************************************)

\* A client that writes or has written the hash of `j` and goes on with it.
Links(j) == \E c \in Clients :
    cjob[c] = j /\ cpc[c] \in {"linkReady", "linkScheduled", "requeue", "reset", "repush"}

Held(j) == \E w \in Workers : held[w] = j

Named(j) == InReady(j) \/ j \in scheduled \/ j \in processing \/ dlq[j] > 0 \/ Held(j) \/ Links(j)

HashInv == \A j \in Jobs : Named(j) => Stored(j)

LEMMA ClientsKeepHashes ==
    ASSUME TypeOK, HashInv, ClientNext, UNCHANGED consumer, NEW i \in Jobs
    PROVE  /\ Stored(i) => Stored(i)'
           /\ Named(i)' => Stored(i)'
<1> USE DEF TypeOK
<1>0. Held(i)' <=> Held(i)
  BY DEF Held, consumer
<1>1. ASSUME UNCHANGED <<ready, scheduled, processing, dlq, status>>, Links(i)' => Links(i) \/ Stored(i)
      PROVE  (Stored(i) => Stored(i)') /\ (Named(i)' => Stored(i)')
  <2>1. InReady(i)' <=> InReady(i)
    BY <1>1 DEF InReady
  <2> QED BY <1>0, <1>1, <2>1 DEF HashInv, Named, Stored
<1>2. ASSUME NEW c \in Clients, NEW j \in Jobs,
             EnqueueUnkeyed(c, j) \/ ClaimKey(c, j) \/ KeyTaken(c, j) \/ StartRequeue(c, j)
      PROVE  (Stored(i) => Stored(i)') /\ (Named(i)' => Stored(i)')
  <2>1. UNCHANGED <<ready, scheduled, processing, dlq, status>>
    BY <1>2 DEF EnqueueUnkeyed, ClaimKey, KeyTaken, StartEnqueue, StartRequeue, redis
  <2>2. /\ \A d \in Clients \ {c} : cpc'[d] = cpc[d] /\ cjob'[d] = cjob[d]
        /\ cjob'[c] = j /\ (cpc'[c] \in {"push", "lookup"} \/ Stored(j))
    BY <1>2 DEF EnqueueUnkeyed, ClaimKey, KeyTaken, StartEnqueue, StartRequeue, Goto, ClientTypeOK
  <2>3. Links(i)' => Links(i) \/ Stored(i)
    BY <2>2 DEF Links
  <2> QED BY <1>1, <2>1, <2>3
<1>3. ASSUME NEW c \in Clients, LookupOwner(c) \/ ReturnOriginal(c) \/ OwnerMissing(c) \/ ClientDies(c)
      PROVE  (Stored(i) => Stored(i)') /\ (Named(i)' => Stored(i)')
  <2>1. UNCHANGED <<ready, scheduled, processing, dlq, status>>
    BY <1>3 DEF LookupOwner, ReturnOriginal, OwnerMissing, ClientDies, redis
  <2>2. /\ \A d \in Clients \ {c} : cpc'[d] = cpc[d] /\ cjob'[d] = cjob[d]
        /\ cpc'[c] \in {"push", "fetch", "idle"}
    BY <1>3 DEF LookupOwner, ReturnOriginal, OwnerMissing, ClientDies, Finish, Goto, ClientTypeOK
  <2>3. Links(i)' => Links(i) \/ Stored(i)
    BY <2>2 DEF Links
  <2> QED BY <1>1, <2>1, <2>3
<1>4. ASSUME NEW k \in Keys, ExpireKey(k)
      PROVE  (Stored(i) => Stored(i)') /\ (Named(i)' => Stored(i)')
  BY <1>1, <1>4 DEF ExpireKey, client, Links
\* A command of a client for its own job, which then has its hash or had it before.
<1>5. ASSUME NEW c \in Clients,
             \/ PushDue(c) \/ PushLater(c) \/ NodeWriteHash(c)
             \/ NodeLinkReady(c) \/ NodeLinkScheduled(c) \/ Requeue(c)
             \/ NodeRemove(c) \/ NodeReset(c) \/ NodeRepush(c)
      PROVE  (Stored(i) => Stored(i)') /\ (Named(i)' => Stored(i)')
  <2>1. PICK j \in Jobs : j = cjob[c]
    <3>1. cpc[c] # "idle"
      BY <1>5 DEF PushDue, PushLater, NodeWriteHash, NodeLinkReady, NodeLinkScheduled, Requeue,
                  NodeRemove, NodeReset, NodeRepush
    <3> QED BY <3>1 DEF ClientTypeOK
  <2>2. /\ ready' = ready \/ PushReady(j)
        /\ scheduled' = scheduled \/ AddScheduled(j)
        /\ processing' = processing
        /\ dlq' = dlq \/ RemoveDeadLetter(j)
        /\ \/ status' = status /\ Stored(j)
           \/ \E s \in Status : SetStatus(j, s)
    <3>1. cpc[c] \in {"linkReady", "linkScheduled", "requeue", "reset", "repush"} => Stored(j)
      BY <2>1 DEF HashInv, Named, Links
    <3> QED BY <1>5, <2>1, <3>1
        DEF PushDue, PushLater, NodeWriteHash, NodeLinkReady, NodeLinkScheduled, Requeue,
            NodeRemove, NodeReset, NodeRepush, Status
  <2>3. \A d \in Clients \ {c} : cpc'[d] = cpc[d] /\ cjob'[d] = cjob[d]
    BY <1>5 DEF PushDue, PushLater, NodeWriteHash, NodeLinkReady, NodeLinkScheduled, Requeue,
                NodeRemove, NodeReset, NodeRepush, Finish, Goto, ClientTypeOK
  <2>4. cjob'[c] \in {j, NoJob}
    BY <1>5, <2>1 DEF PushDue, PushLater, NodeWriteHash, NodeLinkReady, NodeLinkScheduled, Requeue,
                NodeRemove, NodeReset, NodeRepush, Finish, ClientTypeOK
  <2>5. Stored(j)'
    BY <2>1, <2>2 DEF SetStatus, Stored, RedisTypeOK, Status
  <2>6. Stored(i) => Stored(i)'
    BY <2>1, <2>2, <2>5 DEF SetStatus, Stored, RedisTypeOK
  <2>7. CASE i = j
    BY <2>5, <2>7
  <2>8. CASE i # j
    <3>1. InReady(i)' => InReady(i)
      BY <2>1, <2>2, <2>8, PushReadyAdds DEF InReady
    <3>2. i \in scheduled' => i \in scheduled
      BY <2>2, <2>8 DEF AddScheduled
    <3>3. dlq'[i] = dlq[i]
      BY <2>2, <2>8 DEF RemoveDeadLetter, RedisTypeOK
    <3>4. Links(i)' => Links(i)
      BY <2>3, <2>4, <2>8, JobsAssumption DEF Links
    <3> QED BY <1>0, <2>2, <2>6, <3>1, <3>2, <3>3, <3>4 DEF HashInv, Named
  <2> QED BY <2>6, <2>7, <2>8
<1> QED BY <1>2, <1>3, <1>4, <1>5 DEF ClientNext, ClientStep

LEMMA ConsumersKeepHashes ==
    ASSUME TypeOK, HashInv, ConsumerNext, UNCHANGED client, NEW i \in Jobs
    PROVE  /\ Stored(i) => Stored(i)'
           /\ Named(i)' => Stored(i)'
<1> USE DEF TypeOK
<1>0. Links(i)' <=> Links(i)
  BY DEF Links, client
<1>1. ASSUME UNCHANGED <<ready, scheduled, processing, dlq, status>>, Held(i)' => Held(i)
      PROVE  (Stored(i) => Stored(i)') /\ (Named(i)' => Stored(i)')
  <2>1. InReady(i)' <=> InReady(i)
    BY <1>1 DEF InReady
  <2> QED BY <1>0, <1>1, <2>1 DEF HashInv, Named, Stored
<1>2. ASSUME NEW w \in Workers, Reserve(w)
      PROVE  (Stored(i) => Stored(i)') /\ (Named(i)' => Stored(i)')
  <2>1. PICK p \in Priorities :
          /\ ready[p] # <<>>
          /\ ready' = [ready EXCEPT ![p] = Tail(@)]
          /\ held' = [held EXCEPT ![w] = Head(ready[p])]
          /\ AddLease(Head(ready[p]))
          /\ SetStatus(Head(ready[p]), "PROCESSING")
    BY <1>2 DEF Reserve, FirstWaiting
  <2>2. PICK j \in Jobs : j = Head(ready[p]) /\ (InReady(i)' => InReady(i))
    BY <2>1, PopFacts, PopAdds
  <2>3. /\ held' = [held EXCEPT ![w] = j] /\ AddLease(j) /\ SetStatus(j, "PROCESSING")
        /\ UNCHANGED <<scheduled, dlq>>
    BY <1>2, <2>1, <2>2 DEF Reserve
  <2>4. Stored(j)' /\ (i # j => status'[i] = status[i])
    BY <2>2, <2>3 DEF SetStatus, Stored, RedisTypeOK
  <2>5. CASE i = j
    BY <2>4, <2>5
  <2>6. CASE i # j
    <3>1. (i \in processing' => i \in processing) /\ (Held(i)' => Held(i))
      BY <2>3, <2>6 DEF AddLease, Held, ConsumerTypeOK
    <3> QED BY <1>0, <2>2, <2>3, <2>4, <2>6, <3>1 DEF HashInv, Named, Stored
  <2> QED BY <2>5, <2>6
<1>3. ASSUME NEW w \in Workers, Ack(w) \/ NackPermanent(w) \/ NackExhausted(w) \/ NackRetry(w)
      PROVE  (Stored(i) => Stored(i)') /\ (Named(i)' => Stored(i)')
  <2>1. PICK j \in Jobs : /\ j = held[w] /\ ready' = ready /\ DropLease(j) /\ LetGo(w, "idle")
    BY <1>3 DEF Ack, NackPermanent, NackExhausted, NackRetry, ConsumerTypeOK, Holding
  <2>2. /\ \E s \in Status : SetStatus(j, s)
        /\ scheduled' = scheduled \/ AddScheduled(j)
        /\ dlq' = dlq \/ PushDeadLetter(j)
    BY <1>3, <2>1 DEF Ack, NackPermanent, NackExhausted, NackRetry, Status
  <2>3. Stored(j)' /\ (i # j => status'[i] = status[i])
    BY <2>1, <2>2 DEF SetStatus, Stored, RedisTypeOK, Status
  <2>4. CASE i = j
    BY <2>3, <2>4
  <2>5. CASE i # j
    <3>1. /\ i \in scheduled' => i \in scheduled
          /\ i \in processing' => i \in processing
          /\ dlq'[i] = dlq[i]
      BY <2>1, <2>2, <2>5 DEF AddScheduled, DropLease, PushDeadLetter, RedisTypeOK
    <3>2. (Held(i)' => Held(i)) /\ (InReady(i)' => InReady(i))
      BY <2>1, <2>5, JobsAssumption DEF LetGo, Held, InReady, ConsumerTypeOK
    <3> QED BY <1>0, <2>3, <2>5, <3>1, <3>2 DEF HashInv, Named, Stored
  <2> QED BY <2>4, <2>5
<1>4. CASE PromoteDue \/ ReapExpired
  <2>1. PICK B \in SUBSET Jobs :
          /\ PushBatch(B) /\ SetStatuses(B, "QUEUED") /\ dlq' = dlq /\ UNCHANGED consumer
          /\ scheduled' \subseteq scheduled /\ processing' \subseteq processing
    <3>1. CASE PromoteDue
      BY <3>1 DEF PromoteDue, Batches, RedisTypeOK
    <3>2. CASE ReapExpired
      BY <3>2 DEF ReapExpired, Expired, Batches, RedisTypeOK
    <3> QED BY <1>4, <3>1, <3>2
  <2>2. InReady(i)' => InReady(i) \/ i \in B
    BY <2>1, PushBatchAdds
  <2>3. (i \in B => Stored(i)') /\ (i \notin B => status'[i] = status[i])
    BY <2>1 DEF SetStatuses, Stored
  <2>4. Held(i)' <=> Held(i)
    BY <2>1 DEF Held, consumer
  <2> QED BY <1>0, <2>1, <2>2, <2>3, <2>4 DEF HashInv, Named, Stored
<1>5. ASSUME NEW w \in Workers,
             \/ FetchJob(w) \/ CountAttempt(w) \/ RunHandler(w)
             \/ Restart(w) \/ Crash(w) \/ WorkerLoopEnds(w)
      PROVE  (Stored(i) => Stored(i)') /\ (Named(i)' => Stored(i)')
  <2>1. UNCHANGED <<ready, scheduled, processing, dlq, status>>
    BY <1>5 DEF FetchJob, CountAttempt, RunHandler, Restart, Crash, WorkerLoopEnds, redis
  <2>2. held' = held \/ held' = [held EXCEPT ![w] = NoJob]
    BY <1>5 DEF FetchJob, CountAttempt, RunHandler, Restart, Crash, WorkerLoopEnds, LetGo
  <2>3. Held(i)' => Held(i)
    BY <2>2, JobsAssumption DEF Held, ConsumerTypeOK
  <2> QED BY <1>1, <2>1, <2>3
<1>6. ASSUME NEW j \in Jobs, RunAtPasses(j) \/ LeaseLapses(j)
      PROVE  (Stored(i) => Stored(i)') /\ (Named(i)' => Stored(i)')
  BY <1>1, <1>6 DEF RunAtPasses, LeaseLapses, Held, consumer
<1>7. CASE SchedulerLoopEnds
  BY <1>1, <1>7 DEF SchedulerLoopEnds, redis, Held
<1> QED BY <1>2, <1>3, <1>4, <1>5, <1>6, <1>7 DEF ConsumerNext, WorkerStep

\* Hashes are never deleted, and whoever is named has one.
LEMMA HashesStay ==
    ASSUME TypeOK, HashInv, [Next]_vars
    PROVE  HashInv' /\ \A i \in Jobs : Stored(i) => Stored(i)'
<1>1. CASE UNCHANGED vars
  BY <1>1 DEF vars, redis, client, consumer, HashInv, Named, Held, Links, InReady, Stored
<1>2. CASE Next
  BY <1>2, ClientsKeepHashes, ConsumersKeepHashes DEF Next, HashInv
<1> QED BY <1>1, <1>2

LEMMA HashInvHolds == Spec => []HashInv
<1>1. Init => HashInv
  <2> SUFFICES ASSUME Init, NEW j \in Jobs PROVE ~Named(j)
    BY DEF HashInv
  <2>1. ~InReady(j) /\ j \notin scheduled \cup processing /\ dlq[j] = 0
    BY DEF Init, RedisInit, InReady
  <2>2. ~Held(j) /\ ~Links(j)
    BY JobsAssumption DEF Init, ClientInit, ConsumerInit, Held, Links
  <2> QED BY <2>1, <2>2 DEF Named
<1>2. TypeOK /\ HashInv /\ [Next]_vars => HashInv'
  BY HashesStay
<1> QED BY <1>1, <1>2, TypeCorrect, PTL DEF Spec

\* An id that is queued, leased, a dead letter or in a worker's hand has a hash to read:
\* no worker loop ends on a KeyError of its own making.
THEOREM EveryIdAlwaysHasItsHash == Spec => []EveryIdHasItsHash
<1>1. HashInv => EveryIdHasItsHash
  BY DEF HashInv, EveryIdHasItsHash, Named, Held
<1> QED BY <1>1, HashInvHolds, PTL

-----------------------------------------------------------------------------
(***************************************************************************)
(* A duplicate gets the original.  An id is drawn once, so a key that has  *)
(* stopped naming a job never names it again; and while it names the job   *)
(* an enqueue lost to, that is what the enqueue's GET returns.             *)
(***************************************************************************)

\* What an enqueue has found, while its key still names the job it lost to.
LostTo(c) ==
    /\ original[c] \in drawn /\ Stored(original[c]) /\ KeyOf[cjob[c]] \in Keys
    /\ idem[KeyOf[cjob[c]]] = original[c] =>
         /\ cpc[c] \in {"lookup", "fetch"}
         /\ found[c] = IF cpc[c] = "lookup" THEN NoJob ELSE original[c]

DuplicateInv ==
    /\ \A k \in Keys : idem[k] \in drawn \cup {NoJob}
    /\ \A c \in Clients : /\ cpc[c] = "idle" => original[c] = NoJob
                          /\ cpc[c] \in {"idle", "lookup"} => found[c] = NoJob
                          /\ original[c] # NoJob => LostTo(c)

\* Another client's step: the key may have moved on, but not to a job drawn before.
LEMMA LostToKept ==
    ASSUME DuplicateInv, drawn \subseteq drawn', NEW c \in Clients, original[c] # NoJob,
           UNCHANGED <<cpc[c], cjob[c], found[c], original[c]>>,
           Stored(original[c]) => Stored(original[c])',
           \A k \in Keys : idem'[k] = idem[k] \/ idem'[k] \notin drawn
    PROVE  LostTo(c)'
<1>1. LostTo(c) /\ KeyOf[cjob[c]] \in Keys
  BY DEF DuplicateInv, LostTo
<1>2. idem'[KeyOf[cjob[c]]] = original[c] => idem[KeyOf[cjob[c]]] = original[c]
  BY <1>1 DEF LostTo
<1> QED BY <1>1, <1>2 DEF LostTo

\* A step of client `c` alone; what `c` itself has to show is the last assumption.
LEMMA OneClientMoves ==
    ASSUME TypeOK, HashInv, DuplicateInv, [Next]_vars, NEW c \in Clients,
           \A d \in Clients \ {c} : UNCHANGED <<cpc[d], cjob[d], found[d], original[d]>>,
           drawn \subseteq drawn',
           \A k \in Keys : idem'[k] = idem[k] \/ (idem'[k] \in drawn' \cup {NoJob} /\ idem'[k] \notin drawn),
           /\ cpc'[c] = "idle" => original'[c] = NoJob
           /\ cpc'[c] \in {"idle", "lookup"} => found'[c] = NoJob
           /\ original'[c] # NoJob => LostTo(c)'
    PROVE  DuplicateInv'
<1>1. \A i \in Jobs : Stored(i) => Stored(i)'
  BY HashesStay
<1>2. ASSUME NEW d \in Clients \ {c}, original'[d] # NoJob
      PROVE  LostTo(d)'
  <2>1. original[d] \in Jobs /\ original[d] # NoJob
    BY <1>2 DEF TypeOK, ClientTypeOK
  <2>2. Stored(original[d]) => Stored(original[d])'
    <3>1. PICK j \in Jobs : j = original[d]
      BY <2>1
    <3>2. original'[d] = j
      BY <3>1
    <3> QED BY <1>1, <3>1, <3>2 DEF Stored
  <2> QED BY <2>1, <2>2, LostToKept
<1>3. \A k \in Keys : idem'[k] \in drawn' \cup {NoJob}
  BY DEF DuplicateInv
<1>4. ASSUME NEW d \in Clients
      PROVE  /\ cpc'[d] = "idle" => original'[d] = NoJob
             /\ cpc'[d] \in {"idle", "lookup"} => found'[d] = NoJob
             /\ original'[d] # NoJob => LostTo(d)'
  BY <1>2 DEF DuplicateInv
<1> QED BY <1>3, <1>4 DEF DuplicateInv

LEMMA EnqueueKeepsDuplicate ==
    ASSUME TypeOK, HashInv, DuplicateInv, [Next]_vars, NEW c \in Clients, NEW j \in Jobs,
           EnqueueUnkeyed(c, j) \/ ClaimKey(c, j) \/ KeyTaken(c, j) \/ StartRequeue(c, j)
    PROVE  DuplicateInv'
<1>1. /\ \A d \in Clients \ {c} : UNCHANGED <<cpc[d], cjob[d], found[d], original[d]>>
      /\ drawn \subseteq drawn' /\ found' = found
      /\ cpc[c] = "idle" /\ cpc'[c] # "idle" /\ cjob'[c] = j
  BY DEF EnqueueUnkeyed, ClaimKey, KeyTaken, StartEnqueue, StartRequeue, Goto, TypeOK, ClientTypeOK
<1>2. \A k \in Keys : idem'[k] = idem[k] \/ (idem'[k] \in drawn' \cup {NoJob} /\ idem'[k] \notin drawn)
  BY KeysAssumption
     DEF EnqueueUnkeyed, ClaimKey, KeyTaken, StartEnqueue, StartRequeue, redis, TypeOK, RedisTypeOK
<1>3. original[c] = NoJob /\ found'[c] = NoJob
  BY <1>1 DEF DuplicateInv
<1>4. ASSUME original'[c] # NoJob PROVE LostTo(c)'
  <2>1. KeyTaken(c, j)
    BY <1>3, <1>4 DEF EnqueueUnkeyed, ClaimKey, StartRequeue
  <2>2. KeyOf[j] \in Keys /\ idem' = idem /\ cpc'[c] = "lookup" /\ status' = status
    BY <2>1, KeysAssumption DEF KeyTaken, StartEnqueue, Goto, TypeOK, ClientTypeOK
  <2>3. PICK x \in Jobs : x = idem[KeyOf[j]] /\ original'[c] = x /\ Stored(x)
    BY <1>4, <2>1, <2>2 DEF KeyTaken, TypeOK, ClientTypeOK, RedisTypeOK
  <2>4. x \in drawn'
    BY <1>1, <2>2, <2>3, JobsAssumption DEF DuplicateInv
  <2> QED BY <1>1, <1>3, <2>2, <2>3, <2>4 DEF LostTo, Stored
<1> QED BY <1>1, <1>2, <1>3, <1>4, OneClientMoves

LEMMA LookupKeepsDuplicate ==
    ASSUME TypeOK, HashInv, DuplicateInv, [Next]_vars, NEW c \in Clients, LookupOwner(c)
    PROVE  DuplicateInv'
<1> DEFINE k == KeyOf[cjob[c]]
<1>1. /\ \A d \in Clients \ {c} : UNCHANGED <<cpc[d], cjob[d], found[d], original[d]>>
      /\ drawn' = drawn /\ idem' = idem /\ status' = status
      /\ UNCHANGED <<cjob, original>>
      /\ found'[c] = idem[k]
      /\ cpc'[c] = IF idem[k] = NoJob THEN "push" ELSE "fetch"
  BY DEF LookupOwner, Goto, redis, TypeOK, ClientTypeOK
<1>2. ASSUME original'[c] # NoJob PROVE LostTo(c)'
  <2>1. LostTo(c) /\ original'[c] = original[c] /\ original[c] # NoJob
    BY <1>1, <1>2 DEF DuplicateInv
  <2> QED BY <1>1, <2>1 DEF LostTo, Stored
<1>3. cpc'[c] \notin {"idle", "lookup"}
  BY <1>1
<1> QED BY <1>1, <1>2, <1>3, OneClientMoves

LEMMA MissingKeepsDuplicate ==
    ASSUME TypeOK, HashInv, DuplicateInv, [Next]_vars, NEW c \in Clients, OwnerMissing(c)
    PROVE  DuplicateInv'
<1>1. /\ \A d \in Clients \ {c} : UNCHANGED <<cpc[d], cjob[d], found[d], original[d]>>
      /\ drawn' = drawn /\ idem' = idem /\ status' = status
      /\ UNCHANGED <<cjob, original, found>>
      /\ cpc[c] = "fetch" /\ ~Stored(found[c]) /\ cpc'[c] = "push"
  BY DEF OwnerMissing, Goto, redis, TypeOK, ClientTypeOK
<1>2. ASSUME original'[c] # NoJob PROVE LostTo(c)'
  <2>1. LostTo(c) /\ original'[c] = original[c]
    BY <1>1, <1>2 DEF DuplicateInv
  <2>2. idem[KeyOf[cjob[c]]] # original[c]
    BY <1>1, <2>1 DEF LostTo
  <2> QED BY <1>1, <2>1, <2>2 DEF LostTo, Stored
<1> QED BY <1>1, <1>2, OneClientMoves

\* A request that ends forgets; one that writes its job goes on with a key that is not
\* the original's any more.
LEMMA WriteKeepsDuplicate ==
    ASSUME TypeOK, HashInv, DuplicateInv, [Next]_vars, NEW c \in Clients,
           \/ ReturnOriginal(c) \/ ClientDies(c) \/ PushDue(c) \/ PushLater(c) \/ NodeWriteHash(c)
           \/ NodeLinkReady(c) \/ NodeLinkScheduled(c) \/ Requeue(c)
           \/ NodeRemove(c) \/ NodeReset(c) \/ NodeRepush(c)
    PROVE  DuplicateInv'
<1>1. /\ \A d \in Clients \ {c} : UNCHANGED <<cpc[d], cjob[d], found[d], original[d]>>
      /\ drawn' = drawn /\ idem' = idem
  BY DEF ReturnOriginal, ClientDies, PushDue, PushLater, NodeWriteHash, NodeLinkReady,
         NodeLinkScheduled, Requeue, NodeRemove, NodeReset, NodeRepush, Finish, Goto, redis,
         TypeOK, ClientTypeOK
<1>2. CASE Finish(c)
  <2>1. original'[c] = NoJob /\ found'[c] = NoJob
    BY <1>2 DEF Finish, TypeOK, ClientTypeOK
  <2> QED BY <1>1, <2>1, OneClientMoves
<1>3. CASE NodeWriteHash(c) \/ NodeRemove(c) \/ NodeReset(c)
  <2>1. /\ UNCHANGED <<cjob, original, found>>
        /\ cpc[c] \notin {"lookup", "fetch"} /\ cpc'[c] \notin {"idle", "lookup"}
    BY <1>3 DEF NodeWriteHash, NodeRemove, NodeReset, Goto, TypeOK, ClientTypeOK
  <2>2. ASSUME original'[c] # NoJob PROVE LostTo(c)'
    <3>1. PICK x \in Jobs : x = original[c] /\ original'[c] = x
      BY <2>1, <2>2 DEF TypeOK, ClientTypeOK
    <3>2. LostTo(c) /\ idem[KeyOf[cjob[c]]] # x
      BY <2>1, <2>2, <3>1 DEF DuplicateInv, LostTo
    <3>3. Stored(x)'
      BY <3>1, <3>2, HashesStay DEF LostTo
    <3> QED BY <1>1, <2>1, <3>1, <3>2, <3>3 DEF LostTo, Stored
  <2> QED BY <1>1, <2>1, <2>2, OneClientMoves
<1> QED BY <1>2, <1>3 DEF ReturnOriginal, ClientDies, PushDue, PushLater, NodeLinkReady,
                          NodeLinkScheduled, Requeue, NodeRepush

\* What no client does.
LEMMA OthersKeepDuplicate ==
    ASSUME TypeOK, HashInv, DuplicateInv, [Next]_vars, UNCHANGED client,
           \A k \in Keys : idem'[k] = idem[k] \/ idem'[k] = NoJob
    PROVE  DuplicateInv'
<1>1. UNCHANGED <<cpc, cjob, found, original, drawn>>
  BY DEF client
<1>2. NoJob \notin drawn
  BY JobsAssumption DEF TypeOK, ClientTypeOK
<1>3. ASSUME NEW c \in Clients, original[c] # NoJob PROVE LostTo(c)'
  <2>1. PICK x \in Jobs : x = original[c] /\ original'[c] = x
    BY <1>1, <1>3 DEF TypeOK, ClientTypeOK
  <2>2. Stored(x) => Stored(x)'
    BY HashesStay
  <2>3. Stored(original[c]) => Stored(original[c])'
    BY <2>1, <2>2 DEF Stored
  <2> QED BY <1>1, <1>2, <1>3, <2>3, LostToKept
<1> QED BY <1>1, <1>3 DEF DuplicateInv

LEMMA DuplicateInvHolds == Spec => []DuplicateInv
<1>1. Init => DuplicateInv
  BY DEF Init, RedisInit, ClientInit, DuplicateInv
<1>2. TypeOK /\ HashInv /\ DuplicateInv /\ [Next]_vars => DuplicateInv'
  <2> SUFFICES ASSUME TypeOK, HashInv, DuplicateInv, [Next]_vars PROVE DuplicateInv'
    OBVIOUS
  <2>1. CASE UNCHANGED vars
    BY <2>1, OthersKeepDuplicate DEF vars, redis
  <2>2. CASE ConsumerNext /\ UNCHANGED client
    <3>1. idem' = idem
      BY <2>2 DEF ConsumerNext, WorkerStep, Reserve, FetchJob, CountAttempt, RunHandler, Ack,
                  NackPermanent, NackExhausted, NackRetry, PromoteDue, ReapExpired, RunAtPasses,
                  LeaseLapses, Crash, Restart, WorkerLoopEnds, SchedulerLoopEnds, redis
    <3> QED BY <2>2, <3>1, OthersKeepDuplicate
  <2>3. ASSUME NEW k \in Keys, ExpireKey(k) PROVE DuplicateInv'
    <3>1. UNCHANGED client /\ \A l \in Keys : idem'[l] = idem[l] \/ idem'[l] = NoJob
      BY <2>3 DEF ExpireKey, TypeOK, RedisTypeOK
    <3> QED BY <3>1, OthersKeepDuplicate
  <2>4. CASE ClientNext
    BY <2>3, <2>4, EnqueueKeepsDuplicate, LookupKeepsDuplicate, MissingKeepsDuplicate, WriteKeepsDuplicate
       DEF ClientNext, ClientStep
  <2> QED BY <2>1, <2>2, <2>4 DEF Next
<1> QED BY <1>1, <1>2, TypeCorrect, HashInvHolds, PTL DEF Spec

\* However long an enqueue's GET and HGETALL take, and whoever dies or comes between, it
\* does not write a job of its own while its key names the stored job it lost to.
THEOREM DuplicateAlwaysReturnsOriginal == Spec => []DuplicateReturnsOriginal
<1>1. DuplicateInv => DuplicateReturnsOriginal
  BY DEF DuplicateInv, LostTo, DuplicateReturnsOriginal
<1> QED BY <1>1, DuplicateInvHolds, PTL

-----------------------------------------------------------------------------
(***************************************************************************)
(* One job to a key, where a duplicate comes late enough.  A key names the *)
(* first job enqueued under it as long as it lives; only a client that     *)
(* found no stored owner writes another.                                   *)
(***************************************************************************)

\* No enqueue loses SET NX to a job whose hash is not there yet.
NeverRaced == \A c \in Clients, j \in Jobs : KeyTaken(c, j) => Stored(idem[KeyOf[j]])

Owns(j) == KeyOf[j] # NoKey => idem[KeyOf[j]] = j

OwnerInv ==
    /\ \A j \in Jobs : Stored(j) => Owns(j)
    /\ \A c \in Clients :
         /\ cpc[c] = "push" => Owns(cjob[c])
         /\ cpc[c] = "lookup" => \E i \in Jobs : i = idem[KeyOf[cjob[c]]] /\ Stored(i)
         /\ cpc[c] = "fetch" => \E i \in Jobs : i = found[c] /\ Stored(i)

\* A hash appears in the push of its own job only.
LEMMA ClientsStore ==
    ASSUME TypeOK, HashInv, ClientNext, NEW i \in Jobs, Stored(i)', ~Stored(i)
    PROVE  \E c \in Clients : cpc[c] = "push" /\ cjob[c] = i
<1> USE DEF TypeOK
<1>1. ~(UNCHANGED status)
  BY DEF Stored
<1>2. PICK c \in Clients :
        \/ PushDue(c) \/ PushLater(c) \/ NodeWriteHash(c) \/ Requeue(c) \/ NodeReset(c)
  BY <1>1 DEF ClientNext, ClientStep, EnqueueUnkeyed, ClaimKey, KeyTaken, StartEnqueue, StartRequeue,
              LookupOwner, ReturnOriginal, OwnerMissing, ClientDies, NodeLinkReady,
              NodeLinkScheduled, NodeRemove, NodeRepush, ExpireKey, redis
<1>3. cpc[c] # "idle" /\ \E s \in Status : SetStatus(cjob[c], s)
  BY <1>2 DEF PushDue, PushLater, NodeWriteHash, Requeue, NodeReset, Status
<1>4. cjob[c] = i
  BY <1>3 DEF SetStatus, Stored, RedisTypeOK, ClientTypeOK
<1>5. CASE Requeue(c) \/ NodeReset(c)
  <2>1. Links(i)
    BY <1>4, <1>5 DEF Requeue, NodeReset, Links
  <2> QED BY <2>1 DEF HashInv, Named
<1>6. CASE PushDue(c) \/ PushLater(c) \/ NodeWriteHash(c)
  BY <1>4, <1>6 DEF PushDue, PushLater, NodeWriteHash
<1> QED BY <1>2, <1>5, <1>6

LEMMA ConsumersStoreNothing ==
    ASSUME TypeOK, HashInv, ConsumerNext, NEW i \in Jobs, Stored(i)'
    PROVE  Stored(i)
<1> USE DEF TypeOK
<1>1. CASE UNCHANGED status
  BY <1>1 DEF Stored
<1>2. ASSUME NEW j \in Jobs, Named(j), NEW s, SetStatus(j, s) PROVE Stored(i)
  BY <1>2 DEF SetStatus, Stored, RedisTypeOK, HashInv
<1>3. ASSUME NEW B \in SUBSET Jobs, \A j \in B : Named(j), SetStatuses(B, "QUEUED") PROVE Stored(i)
  BY <1>3 DEF SetStatuses, Stored, HashInv
<1>4. ASSUME NEW w \in Workers, Reserve(w) PROVE Stored(i)
  <2>1. PICK p \in Priorities : ready[p] # <<>> /\ SetStatus(Head(ready[p]), "PROCESSING")
    BY <1>4 DEF Reserve, FirstWaiting
  <2>2. Head(ready[p]) \in Jobs /\ InReady(Head(ready[p]))
    BY <2>1 DEF RedisTypeOK, InReady
  <2> QED BY <1>2, <2>1, <2>2 DEF Named
<1>5. ASSUME NEW w \in Workers, Ack(w) \/ NackPermanent(w) \/ NackExhausted(w) \/ NackRetry(w)
      PROVE Stored(i)
  <2>1. held[w] \in Jobs /\ \E s : SetStatus(held[w], s)
    BY <1>5 DEF Ack, NackPermanent, NackExhausted, NackRetry, ConsumerTypeOK, Holding
  <2> QED BY <1>2, <2>1 DEF Named, Held
<1>6. CASE PromoteDue \/ ReapExpired
  <2>1. PICK B \in SUBSET Jobs : SetStatuses(B, "QUEUED") /\ B \subseteq scheduled \cup processing
    <3>1. CASE PromoteDue
      BY <3>1 DEF PromoteDue, Batches, RedisTypeOK
    <3>2. CASE ReapExpired
      BY <3>2 DEF ReapExpired, Expired, Batches, RedisTypeOK
    <3> QED BY <1>6, <3>1, <3>2
  <2> QED BY <1>3, <2>1 DEF Named
<1> QED
  BY <1>1, <1>4, <1>5, <1>6
     DEF ConsumerNext, WorkerStep, FetchJob, CountAttempt, RunHandler, Restart, Crash,
         WorkerLoopEnds, RunAtPasses, LeaseLapses, SchedulerLoopEnds, redis

\* Where keys live on, a key once taken stays.
LEMMA KeysStay ==
    ASSUME TypeOK, ~KeysExpire, [Next]_vars, NEW k \in Keys, idem[k] # NoJob
    PROVE  idem'[k] = idem[k]
<1>1. CASE UNCHANGED idem
  BY <1>1
<1>2. ASSUME NEW c \in Clients, NEW j \in Jobs, ClaimKey(c, j) PROVE idem'[k] = idem[k]
  BY <1>2 DEF ClaimKey, TypeOK, RedisTypeOK
<1>3. CASE ConsumerNext
  BY <1>1, <1>3 DEF ConsumerNext, WorkerStep, Reserve, FetchJob, CountAttempt, RunHandler, Ack,
                  NackPermanent, NackExhausted, NackRetry, PromoteDue, ReapExpired, RunAtPasses,
                  LeaseLapses, Crash, Restart, WorkerLoopEnds, SchedulerLoopEnds, redis
<1>4. CASE ClientNext
  BY <1>1, <1>2, <1>4
     DEF ClientNext, ClientStep, EnqueueUnkeyed, KeyTaken, StartEnqueue, StartRequeue,
         LookupOwner, ReturnOriginal, OwnerMissing, ClientDies, PushDue, PushLater, NodeWriteHash,
         NodeLinkReady, NodeLinkScheduled, Requeue, NodeRemove, NodeReset, NodeRepush, ExpireKey, redis
<1>5. CASE UNCHANGED vars
  BY <1>1, <1>5 DEF vars, redis
<1> QED BY <1>3, <1>4, <1>5 DEF Next

\* What a step leaves of ownership, for whoever it does not concern.
LEMMA OwnersStay ==
    ASSUME TypeOK, HashInv, ~KeysExpire, [Next]_vars, NEW j \in Jobs
    PROVE  /\ Owns(j) => Owns(j)'
           /\ \A k \in Keys : j = idem[k] => j = idem'[k]
           /\ Stored(j) => Stored(j)'
<1>1. \A k \in Keys : j = idem[k] => j = idem'[k]
  BY KeysStay, JobsAssumption
<1>2. KeyOf[j] # NoKey => KeyOf[j] \in Keys
  BY KeysAssumption
<1>3. Stored(j) => Stored(j)'
  BY HashesStay
<1> QED BY <1>1, <1>2, <1>3 DEF Owns

\* What a client is about to do with the key of its job.
ClientOwns(c) ==
    /\ cpc[c] = "push" => Owns(cjob[c])
    /\ cpc[c] = "lookup" => \E i \in Jobs : i = idem[KeyOf[cjob[c]]] /\ Stored(i)
    /\ cpc[c] = "fetch" => \E i \in Jobs : i = found[c] /\ Stored(i)

LEMMA RestingClientOwns ==
    ASSUME TypeOK, HashInv, OwnerInv, ~KeysExpire, [Next]_vars, NEW c \in Clients,
           UNCHANGED <<cpc[c], cjob[c], found[c]>>
    PROVE  ClientOwns(c)'
<1>1. CASE cpc[c] = "push"
  <2>1. cjob[c] \in Jobs /\ Owns(cjob[c])
    BY <1>1 DEF TypeOK, ClientTypeOK, OwnerInv
  <2>2. PICK j \in Jobs : j = cjob[c] /\ Owns(j)
    BY <2>1
  <2>3. Owns(j)'
    BY <2>2, OwnersStay
  <2> QED BY <1>1, <2>2, <2>3 DEF ClientOwns, Owns
<1>2. CASE cpc[c] = "lookup"
  <2>1. PICK i \in Jobs : i = idem[KeyOf[cjob[c]]] /\ Stored(i)
    BY <1>2 DEF OwnerInv
  <2>2. KeyOf[cjob[c]] \in Keys
    BY <1>2 DEF TypeOK, ClientTypeOK
  <2>3. i = idem'[KeyOf[cjob[c]]] /\ Stored(i)'
    BY <2>1, <2>2, OwnersStay
  <2> QED BY <1>2, <2>3 DEF ClientOwns
<1>3. CASE cpc[c] = "fetch"
  <2>1. PICK i \in Jobs : i = found[c] /\ Stored(i)
    BY <1>3 DEF OwnerInv
  <2>2. Stored(i)'
    BY <2>1, OwnersStay
  <2> QED BY <1>3, <2>1, <2>2 DEF ClientOwns
<1> QED BY <1>1, <1>2, <1>3 DEF ClientOwns

\* The client that makes the step.
LEMMA MovingClientOwns ==
    ASSUME TypeOK, HashInv, OwnerInv, ~KeysExpire, [Next]_vars, NeverRaced, NEW c \in Clients,
           \/ ClientStep(c) \/ ClientDies(c)
           \/ \E j \in Jobs : EnqueueUnkeyed(c, j) \/ ClaimKey(c, j) \/ KeyTaken(c, j)
                                \/ StartRequeue(c, j)
    PROVE  /\ ClientOwns(c)'
           /\ \A d \in Clients \ {c} : UNCHANGED <<cpc[d], cjob[d], found[d]>>
<1> USE DEF TypeOK
<1>1. ASSUME NEW j \in Jobs, EnqueueUnkeyed(c, j) \/ ClaimKey(c, j)
      PROVE  ClientOwns(c)' /\ \A d \in Clients \ {c} : UNCHANGED <<cpc[d], cjob[d], found[d]>>
  <2>1. /\ cpc'[c] = "push" /\ cjob'[c] = j
        /\ \A d \in Clients \ {c} : UNCHANGED <<cpc[d], cjob[d], found[d]>>
    BY <1>1 DEF EnqueueUnkeyed, ClaimKey, StartEnqueue, Goto, ClientTypeOK
  <2>2. KeyOf[j] # NoKey => idem'[KeyOf[j]] = j
    BY <1>1, KeysAssumption DEF EnqueueUnkeyed, ClaimKey, RedisTypeOK
  <2> QED BY <2>1, <2>2 DEF ClientOwns, Owns
<1>2. ASSUME NEW j \in Jobs, KeyTaken(c, j)
      PROVE  ClientOwns(c)' /\ \A d \in Clients \ {c} : UNCHANGED <<cpc[d], cjob[d], found[d]>>
  <2>1. /\ cpc'[c] = "lookup" /\ cjob'[c] = j /\ UNCHANGED <<idem, status>>
        /\ \A d \in Clients \ {c} : UNCHANGED <<cpc[d], cjob[d], found[d]>>
    BY <1>2 DEF KeyTaken, StartEnqueue, Goto, ClientTypeOK
  <2>2. KeyOf[j] \in Keys /\ idem[KeyOf[j]] # NoJob /\ Stored(idem[KeyOf[j]])
    BY <1>2, KeysAssumption DEF KeyTaken, NeverRaced
  <2>3. idem[KeyOf[j]] \in Jobs
    BY <2>2 DEF RedisTypeOK
  <2> QED BY <2>1, <2>2, <2>3 DEF ClientOwns, Stored
<1>3. CASE LookupOwner(c)
  <2>1. /\ cpc'[c] \in {"push", "fetch"} /\ UNCHANGED <<idem, status, cjob>>
        /\ found'[c] = idem[KeyOf[cjob[c]]]
        /\ cpc'[c] = "push" => idem[KeyOf[cjob[c]]] = NoJob
        /\ \A d \in Clients \ {c} : UNCHANGED <<cpc[d], cjob[d], found[d]>>
    BY <1>3 DEF LookupOwner, Goto, ClientTypeOK, redis
  <2>2. PICK i \in Jobs : i = idem[KeyOf[cjob[c]]] /\ Stored(i)
    BY <1>3 DEF LookupOwner, OwnerInv
  <2>3. cpc'[c] = "fetch" /\ i = found'[c] /\ Stored(i)'
    BY <2>1, <2>2, JobsAssumption DEF Stored
  <2> QED BY <2>1, <2>3 DEF ClientOwns
<1>4. CASE OwnerMissing(c)
  BY <1>4 DEF OwnerMissing, OwnerInv
<1>5. ASSUME \/ ReturnOriginal(c) \/ PushDue(c) \/ PushLater(c) \/ NodeWriteHash(c)
             \/ NodeLinkReady(c) \/ NodeLinkScheduled(c) \/ Requeue(c) \/ NodeRemove(c)
             \/ NodeReset(c) \/ NodeRepush(c) \/ ClientDies(c)
             \/ \E j \in Jobs : StartRequeue(c, j)
      PROVE  ClientOwns(c)' /\ \A d \in Clients \ {c} : UNCHANGED <<cpc[d], cjob[d], found[d]>>
  <2>1. /\ cpc'[c] \in {"idle", "linkReady", "linkScheduled", "requeue", "reset", "repush"}
        /\ \A d \in Clients \ {c} : UNCHANGED <<cpc[d], cjob[d], found[d]>>
    BY <1>5 DEF ReturnOriginal, PushDue, PushLater, NodeWriteHash, NodeLinkReady,
                NodeLinkScheduled, Requeue, NodeRemove, NodeReset, NodeRepush, ClientDies,
                StartRequeue, Finish, Goto, ClientTypeOK
  <2> QED BY <2>1 DEF ClientOwns
<1> QED BY <1>1, <1>2, <1>3, <1>4, <1>5 DEF ClientStep

LEMMA OwnersKept ==
    ASSUME TypeOK, HashInv, OwnerInv, ~KeysExpire, [Next]_vars, NeverRaced
    PROVE  OwnerInv'
<1>1. ASSUME NEW j \in Jobs, Stored(j)' PROVE Owns(j)'
  <2>1. CASE Stored(j)
    BY <2>1, OwnersStay DEF OwnerInv
  <2>2. CASE ~Stored(j)
    <3>1. Next
      BY <1>1, <2>2 DEF vars, redis, Stored
    <3>2. PICK c \in Clients : cpc[c] = "push" /\ cjob[c] = j
      BY <1>1, <2>2, <3>1, ClientsStore, ConsumersStoreNothing DEF Next
    <3>3. Owns(j)
      BY <3>2 DEF OwnerInv
    <3> QED BY <3>3, OwnersStay
  <2> QED BY <2>1, <2>2
<1>2. ASSUME NEW c \in Clients PROVE ClientOwns(c)'
  <2>1. CASE UNCHANGED client
    BY <2>1, RestingClientOwns DEF client
  <2>2. CASE ~(UNCHANGED client)
    <3>1. ClientNext /\ \A k \in Keys : ~ExpireKey(k)
      BY <2>2 DEF Next, vars, ExpireKey
    <3>2. PICK d \in Clients :
            \/ ClientStep(d) \/ ClientDies(d)
            \/ \E j \in Jobs : EnqueueUnkeyed(d, j) \/ ClaimKey(d, j) \/ KeyTaken(d, j)
                                 \/ StartRequeue(d, j)
      BY <3>1 DEF ClientNext
    <3>3. CASE c = d
      BY <3>2, <3>3, MovingClientOwns
    <3>4. CASE c # d
      BY <3>2, <3>4, MovingClientOwns, RestingClientOwns
    <3> QED BY <3>3, <3>4
  <2> QED BY <2>1, <2>2
<1> QED BY <1>1, <1>2 DEF OwnerInv, ClientOwns

\* docs/queue-protocol.md:100, two enqueues with one key make one job, is refuted by one
\* race (queue_one_job_per_key).  It is the only one: while keys live, and as long as nobody
\* loses SET NX to a job whose hash is not written yet, or never will be because its client
\* died, a key has one job, whoever else dies, retries or comes late.
THEOREM OneJobPerKeyUnlessRaced ==
    ASSUME ~KeysExpire
    PROVE  Spec /\ [][NeverRaced]_vars => []OneJobPerKey
<1>1. Init => OwnerInv
  BY DEF Init, RedisInit, ClientInit, OwnerInv, Stored
<1>2. TypeOK /\ HashInv /\ OwnerInv /\ [Next]_vars /\ [NeverRaced]_vars => OwnerInv'
  <2> SUFFICES ASSUME TypeOK, HashInv, OwnerInv, [Next]_vars, [NeverRaced]_vars PROVE OwnerInv'
    OBVIOUS
  <2>1. CASE NeverRaced
    BY <2>1, OwnersKept
  <2>2. CASE UNCHANGED vars
    BY <2>2 DEF vars, redis, client, OwnerInv, Owns, Stored
  <2> QED BY <2>1, <2>2
<1>3. OwnerInv => OneJobPerKey
  <2> SUFFICES ASSUME OwnerInv, NEW i \in Jobs, NEW j \in Jobs,
                      Stored(i), Stored(j), KeyOf[i] = KeyOf[j], KeyOf[i] # NoKey
               PROVE  i = j
    BY DEF OneJobPerKey
  <2> QED BY DEF OwnerInv, Owns
<1> QED BY <1>1, <1>2, <1>3, TypeCorrect, HashInvHolds, PTL DEF Spec
=============================================================================
