---------------------------- MODULE QueueLeaseProofs ---------------------------
(***************************************************************************)
(* What the queue promises when it is used as it is meant to be: leases    *)
(* that cover the handlers, and one operator at a time, who retries only   *)
(* dead letters.  A job then is in one place at most, the place its record *)
(* names; so no two workers ever hold it, what is settled stays so, its    *)
(* attempts are bounded, and the queue keeps the contract of JobContract.  *)
(***************************************************************************)
EXTENDS QueueKeysProofs

\* Leases cover the handlers, and one operator at a time retries dead letters only.
Disciplined ==
    /\ MaxOverruns = 0
    /\ OnlyDeadLetters
    /\ MaxRequeues <= 1 \/ \A c, d \in Clients : c = d


\* No list holds an id twice, and no two lists hold one.
ReadyOnce ==
    \A p, q \in Priorities : \A m \in DOMAIN ready[p], n \in DOMAIN ready[q] :
      ready[p][m] = ready[q][n] => p = q /\ m = n

\* A job is only where its record says it is: the converse of Placed.
RecordTells(j) ==
    /\ InReady(j) => status[j] = "QUEUED"
    /\ j \in scheduled => status[j] \in {"SCHEDULED", "RETRY_WAIT"}
    /\ j \in processing => status[j] = "PROCESSING"
    /\ dlq[j] > 0 => status[j] = "DEAD_LETTER"
    /\ dlq[j] <= 1
    /\ Stored(j) => j \in drawn

\* The same of a client's job, which is nowhere while the client moves it.
ClientTells(c) ==
    /\ cjob[c] \in drawn \cup {NoJob}
    /\ cpc[c] \in {"lookup", "fetch", "push"} => status[cjob[c]] = "NONE"
    /\ cpc[c] = "linkScheduled" => status[cjob[c]] = "SCHEDULED" /\ cjob[c] \notin scheduled
    /\ cpc[c] \in {"linkReady", "repush"} => status[cjob[c]] = "QUEUED" /\ ~InReady(cjob[c])
    /\ cpc[c] = "requeue" => dlq[cjob[c]] > 0
    /\ cpc[c] = "reset" => status[cjob[c]] = "DEAD_LETTER" /\ dlq[cjob[c]] = 0
    /\ cpc[c] \in {"requeue", "reset", "repush"} => requeues > 0

OwnJobs == \A c, d \in Clients : cjob[c] # NoJob /\ cjob[c] = cjob[d] => c = d

\* A live worker's job is under a lease that has not lapsed.
HandLeased(w) == held[w] # NoJob => held[w] \in processing \ lapsed

LeaseInv ==
    /\ ReadyOnce
    /\ \A j \in Jobs : RecordTells(j)
    /\ \A c \in Clients : ClientTells(c)
    /\ OwnJobs
    /\ \A w \in Workers : HandLeased(w)
    /\ SingleHolder

-----------------------------------------------------------------------------
(* The ready lists hold an id once. *)

LEMMA PushKeepsOnce ==
    ASSUME RedisTypeOK, ReadyOnce, NEW j \in Jobs, ~InReady(j), PushReady(j)
    PROVE  ReadyOnce'
<1> DEFINE r == PriorityOf[j]
<1>1. /\ r \in Priorities /\ ready[r] \in Seq(Jobs)
      /\ ready' = [ready EXCEPT ![r] = Append(ready[r], j)]
  BY PriorityAssumption DEF RedisTypeOK, PushReady
<1>2. \A p \in Priorities \ {r} : ready'[p] = ready[p]
  BY <1>1 DEF RedisTypeOK
<1>3. \A m \in DOMAIN ready'[r] :
        \/ m \in DOMAIN ready[r] /\ ready'[r][m] = ready[r][m]
        \/ m = Len(ready[r]) + 1 /\ ready'[r][m] = j
  <2>1. PICK s \in Seq(Jobs) : s = ready[r] /\ ready'[r] = Append(s, j)
    BY <1>1 DEF RedisTypeOK
  <2> QED BY <2>1
<1>4. \A p \in Priorities : \A m \in DOMAIN ready'[p] :
        \/ m \in DOMAIN ready[p] /\ ready'[p][m] = ready[p][m] /\ ready[p][m] # j
        \/ p = r /\ m = Len(ready[r]) + 1 /\ ready'[p][m] = j
  BY <1>2, <1>3 DEF InReady
<1> QED BY <1>4 DEF ReadyOnce

LEMMA TailParts ==
    ASSUME NEW s \in Seq(Jobs), s # <<>>, NEW m \in DOMAIN Tail(s)
    PROVE  m \in Nat \ {0} /\ m + 1 \in DOMAIN s /\ Tail(s)[m] = s[m + 1]
OBVIOUS

LEMMA PopKeepsOnce ==
    ASSUME RedisTypeOK, ReadyOnce, NEW p \in Priorities, ready[p] # <<>>,
           ready' = [ready EXCEPT ![p] = Tail(@)]
    PROVE  /\ ReadyOnce'
           /\ InReady(Head(ready[p]))
           /\ \A h \in Jobs : h = Head(ready[p]) => ~InReady(h)'
<1>1. /\ ready[p] \in Seq(Jobs) /\ ready'[p] = Tail(ready[p])
      /\ \A q \in Priorities \ {p} : ready'[q] = ready[q]
  BY DEF RedisTypeOK
<1>2. \A m \in DOMAIN ready'[p] :
        m \in Nat \ {0} /\ m + 1 \in DOMAIN ready[p] /\ ready'[p][m] = ready[p][m + 1]
  <2>1. PICK s \in Seq(Jobs) : s = ready[p] /\ ready'[p] = Tail(s) /\ s # <<>>
    BY <1>1
  <2>2. \A m \in DOMAIN Tail(s) : m \in Nat \ {0} /\ m + 1 \in DOMAIN s /\ Tail(s)[m] = s[m + 1]
    BY <2>1, TailParts
  <2> QED BY <2>1, <2>2
<1>3. 1 \in DOMAIN ready[p] /\ ready[p][1] = Head(ready[p])
  BY <1>1
<1>4. \A q \in Priorities : \A m \in DOMAIN ready'[q] :
        \E n \in DOMAIN ready[q] : /\ ready'[q][m] = ready[q][n]
                                   /\ n = IF q = p THEN m + 1 ELSE m
                                   /\ q = p => n # 1 /\ m \in Nat
  BY <1>1, <1>2
<1>5. ReadyOnce'
  <2> SUFFICES ASSUME NEW q \in Priorities, NEW r \in Priorities,
                      NEW m \in DOMAIN ready'[q], NEW n \in DOMAIN ready'[r],
                      ready'[q][m] = ready'[r][n]
               PROVE  q = r /\ m = n
    BY DEF ReadyOnce
  <2>1. PICK k \in DOMAIN ready[q] : /\ ready'[q][m] = ready[q][k]
                                     /\ k = IF q = p THEN m + 1 ELSE m
                                     /\ q = p => m \in Nat
    BY <1>4
  <2>2. PICK l \in DOMAIN ready[r] : /\ ready'[r][n] = ready[r][l]
                                     /\ l = IF r = p THEN n + 1 ELSE n
                                     /\ r = p => n \in Nat
    BY <1>4
  <2>3. q = r /\ k = l
    BY <2>1, <2>2 DEF ReadyOnce
  <2> QED BY <2>1, <2>2, <2>3
<1>6. ASSUME NEW h \in Jobs, h = Head(ready[p]), InReady(h)' PROVE FALSE
  <2>0. PICK q \in Priorities : \E m \in DOMAIN ready'[q] : ready'[q][m] = h
    BY <1>6 DEF InReady
  <2>m. PICK m \in DOMAIN ready'[q] : ready'[q][m] = h
    BY <2>0
  <2>1. PICK n \in DOMAIN ready[q] : ready'[q][m] = ready[q][n] /\ (q = p => n # 1)
    BY <1>4
  <2> QED BY <1>3, <1>6, <2>m, <2>1 DEF ReadyOnce
<1> QED BY <1>3, <1>5, <1>6 DEF InReady

\* A script lists each id of its batch once.
LEMMA OrderingOnce ==
    ASSUME NEW S \in SUBSET Jobs, NEW s \in Orderings(S), NEW m \in DOMAIN s, NEW n \in DOMAIN s,
           s[m] = s[n]
    PROVE  m = n
<1> DEFINE N == 1..Cardinality(S)
<1>1. IsFiniteSet(S) /\ Cardinality(S) \in Nat
  BY JobsAssumption, FS_Subset, FS_CardinalityType
<1>2. IsFiniteSet(N) /\ Cardinality(N) = Cardinality(S)
  BY <1>1, FS_Interval
<1>3. s \in [N -> S] /\ DOMAIN s = N
  BY DEF Orderings
<1>4. s \in Surjection(N, S)
  BY <1>3 DEF Orderings, Surjection
<1>5. s \in Injection(N, S)
  BY <1>1, <1>2, <1>4, FS_SurjSameCardinalityImpliesInj
<1> QED BY <1>3, <1>5 DEF Injection, IsInjective

LEMMA BatchKeepsOnce ==
    ASSUME RedisTypeOK, ReadyOnce, NEW B \in SUBSET Jobs, PushBatch(B),
           \A j \in B : ~InReady(j)
    PROVE  ReadyOnce'
<1> DEFINE Of(p) == {j \in B : PriorityOf[j] = p}
<1>1. PICK h \in Orderings(Of("HIGH")), m \in Orderings(Of("MEDIUM")),
           l \in Orderings(Of("LOW")) :
        ready' = [ready EXCEPT !["HIGH"] = @ \o h,
                               !["MEDIUM"] = @ \o m,
                               !["LOW"] = @ \o l]
  BY DEF PushBatch
<1> DEFINE add == [p \in Priorities |-> IF p = "HIGH" THEN h ELSE IF p = "MEDIUM" THEN m ELSE l]
<1>2. \A p \in Priorities : add[p] \in Orderings(Of(p)) /\ ready'[p] = ready[p] \o add[p]
  <2>1. /\ ready'["HIGH"] = ready["HIGH"] \o h /\ ready'["MEDIUM"] = ready["MEDIUM"] \o m
        /\ ready'["LOW"] = ready["LOW"] \o l
    BY <1>1 DEF RedisTypeOK, Priorities
  <2> HIDE DEF Of
  <2> QED BY <2>1 DEF Priorities
<1>3. \A p \in Priorities : Of(p) \in SUBSET Jobs
  OBVIOUS
<1>4. \A p \in Priorities : add[p] \in Seq(Jobs) /\ ready[p] \in Seq(Jobs)
  <2> HIDE DEF Of, add
  <2> QED BY <1>2, <1>3, OrderingFacts DEF RedisTypeOK
\* Where an entry of the new list comes from.
<1>5. ASSUME NEW p \in Priorities, NEW k \in DOMAIN ready'[p]
      PROVE  \/ k \in DOMAIN ready[p] /\ ready'[p][k] = ready[p][k]
             \/ /\ k \in Nat /\ k > Len(ready[p]) /\ k - Len(ready[p]) \in DOMAIN add[p]
                /\ ready'[p][k] = add[p][k - Len(ready[p])]
  <2>1. PICK s \in Seq(Jobs), t \in Seq(Jobs) : s = ready[p] /\ t = add[p] /\ ready'[p] = s \o t
    <3> HIDE DEF add
    <3> QED BY <1>2, <1>4
  <2>2. \A x \in DOMAIN (s \o t) :
          \/ x \in DOMAIN s /\ (s \o t)[x] = s[x]
          \/ x \in Nat /\ x > Len(s) /\ x - Len(s) \in DOMAIN t /\ (s \o t)[x] = t[x - Len(s)]
    OBVIOUS
  <2> HIDE DEF add
  <2> QED BY <2>1, <2>2
<1>6. ASSUME NEW p \in Priorities, NEW k \in DOMAIN add[p]
      PROVE  add[p][k] \in B /\ PriorityOf[add[p][k]] = p
  <2>1. add[p][k] \in Of(p)
    <3> HIDE DEF Of, add
    <3> QED BY <1>2, <1>3, <1>6, OrderingAdds
  <2> HIDE DEF add
  <2> QED BY <2>1
<1>7. ASSUME NEW p \in Priorities, NEW k \in DOMAIN add[p], NEW n \in DOMAIN add[p], add[p][k] = add[p][n]
      PROVE  k = n
  <2> HIDE DEF Of, add
  <2> QED BY <1>2, <1>3, <1>7, OrderingOnce
<1> HIDE DEF Of, add
<1> SUFFICES ASSUME NEW p \in Priorities, NEW q \in Priorities,
                    NEW a \in DOMAIN ready'[p], NEW b \in DOMAIN ready'[q],
                    ready'[p][a] = ready'[q][b]
             PROVE  p = q /\ a = b
  BY DEF ReadyOnce
<1>8. CASE a \in DOMAIN ready[p] /\ ready'[p][a] = ready[p][a]
  <2>1. InReady(ready[p][a])
    BY <1>8 DEF InReady
  <2>2. ready'[p][a] \notin B
    BY <1>8, <2>1
  <2>3. b \in DOMAIN ready[q] /\ ready'[q][b] = ready[q][b]
    BY <1>5, <1>6, <2>2
  <2>4. ready[p][a] = ready[q][b]
    BY <1>8, <2>3
  <2> QED BY <1>8, <2>3, <2>4 DEF ReadyOnce
<1>9. CASE /\ a \in Nat /\ a > Len(ready[p]) /\ a - Len(ready[p]) \in DOMAIN add[p]
           /\ ready'[p][a] = add[p][a - Len(ready[p])]
  <2>1. ready'[p][a] \in B /\ PriorityOf[ready'[p][a]] = p
    BY <1>6, <1>9
  <2>2. ~(b \in DOMAIN ready[q] /\ ready'[q][b] = ready[q][b])
    BY <2>1 DEF InReady
  <2>3. /\ b \in Nat /\ b > Len(ready[q]) /\ b - Len(ready[q]) \in DOMAIN add[q]
        /\ ready'[q][b] = add[q][b - Len(ready[q])]
    BY <1>5, <2>2
  <2>4. p = q
    BY <1>6, <2>1, <2>3
  <2>5. a - Len(ready[p]) = b - Len(ready[p])
    BY <1>7, <1>9, <2>3, <2>4
  <2>6. Len(ready[p]) \in Nat
    BY <1>4
  <2> QED BY <1>9, <2>3, <2>4, <2>5, <2>6
<1> QED BY <1>5, <1>8, <1>9

-----------------------------------------------------------------------------
(* Clients. *)

\* A client that moves one job, which no other client has.
LEMMA ClientMoves ==
    ASSUME TypeOK, TypeOK', LeaseInv, UNCHANGED <<processing, lapsed, held>>,
           NEW c \in Clients, NEW j \in Jobs,
           \A d \in Clients \ {c} : cpc'[d] = cpc[d] /\ cjob'[d] = cjob[d] /\ cjob[d] # j,
           cjob'[c] \in {j, NoJob}, drawn \subseteq drawn', requeues <= requeues',
           \A i \in Jobs \ {j} : /\ status'[i] = status[i] /\ dlq'[i] = dlq[i]
                                 /\ InReady(i)' => InReady(i)
                                 /\ i \in scheduled' => i \in scheduled,
           ReadyOnce', RecordTells(j)', ClientTells(c)'
    PROVE  LeaseInv'
<1>1. ASSUME NEW i \in Jobs PROVE RecordTells(i)'
  BY DEF LeaseInv, RecordTells, Stored
<1>2. ASSUME NEW d \in Clients \ {c} PROVE ClientTells(d)'
  <2>1. ClientTells(d) /\ cpc'[d] = cpc[d] /\ cjob'[d] = cjob[d]
    BY DEF LeaseInv
  <2>2. CASE cjob[d] = NoJob
    <3>1. cpc'[d] = "idle" /\ cjob'[d] = NoJob
      BY <2>1, <2>2 DEF TypeOK, ClientTypeOK
    <3> QED BY <3>1 DEF ClientTells
  <2>3. CASE cjob[d] # NoJob
    <3>1. PICK i \in Jobs \ {j} : i = cjob[d] /\ cjob'[d] = i
      BY <2>1, <2>3 DEF TypeOK, ClientTypeOK
    <3>2. requeues > 0 => requeues' > 0
      BY DEF TypeOK, ClientTypeOK
    <3>3. InReady(cjob[d])' => InReady(cjob[d])
      <4>1. InReady(i)' => InReady(i)
        OBVIOUS
      <4> QED BY <3>1, <4>1 DEF InReady
    <3>4. cjob'[d] \in drawn'
      BY <2>1, <2>3 DEF ClientTells
    <3> QED BY <2>1, <3>1, <3>2, <3>3, <3>4 DEF ClientTells
  <2> QED BY <2>2, <2>3
<1>3. OwnJobs'
  BY DEF LeaseInv, OwnJobs
<1>4. SingleHolder' /\ \A w \in Workers : HandLeased(w)'
  BY DEF LeaseInv, SingleHolder, HandLeased
<1> QED BY <1>1, <1>2, <1>3, <1>4 DEF LeaseInv

\* A client whose step leaves the records alone.
LEMMA ClientsReadOn ==
    ASSUME TypeOK, TypeOK', LeaseInv, UNCHANGED consumer, UNCHANGED redis, NEW c \in Clients,
           LookupOwner(c) \/ OwnerMissing(c) \/ ReturnOriginal(c) \/ ClientDies(c)
    PROVE  LeaseInv'
<1>1. PICK j \in Jobs : j = cjob[c]
  BY DEF LookupOwner, OwnerMissing, ReturnOriginal, ClientDies, TypeOK, ClientTypeOK
<1>2. /\ \A d \in Clients \ {c} : cpc'[d] = cpc[d] /\ cjob'[d] = cjob[d]
      /\ drawn' = drawn /\ requeues' = requeues
  BY DEF LookupOwner, OwnerMissing, ReturnOriginal, ClientDies, Finish, Goto, TypeOK, ClientTypeOK
<1>3. \/ cpc[c] \in {"lookup", "fetch"} /\ cpc'[c] \in {"fetch", "push"} /\ cjob'[c] = cjob[c]
      \/ cpc'[c] = "idle" /\ cjob'[c] = NoJob
  BY DEF LookupOwner, OwnerMissing, ReturnOriginal, ClientDies, Finish, Goto, TypeOK, ClientTypeOK
<1>4. \A d \in Clients \ {c} : cjob[d] # j
  BY <1>1, JobsAssumption DEF LeaseInv, OwnJobs
<1>5. ClientTells(c)'
  BY <1>1, <1>2, <1>3 DEF LeaseInv, ClientTells, redis
<1>6. UNCHANGED <<ready, scheduled, processing, lapsed, dlq, status, held>>
  BY DEF redis, consumer
<1>7. ReadyOnce' /\ \A i \in Jobs : RecordTells(i)' /\ (InReady(i)' <=> InReady(i))
  BY <1>2, <1>6 DEF LeaseInv, ReadyOnce, RecordTells, InReady, Stored
<1>8. cjob'[c] \in {j, NoJob} /\ requeues <= requeues'
  BY <1>1, <1>2, <1>3 DEF TypeOK, ClientTypeOK
<1> QED BY <1>2, <1>4, <1>5, <1>6, <1>7, <1>8, ClientMoves

\* An enqueue draws an id that nobody knows; a retry takes a dead letter that
\* no other client has.
LEMMA ClientsBegin ==
    ASSUME Disciplined, TypeOK, TypeOK', LeaseInv, UNCHANGED consumer, NEW c \in Clients, NEW j \in Jobs,
           EnqueueUnkeyed(c, j) \/ ClaimKey(c, j) \/ KeyTaken(c, j) \/ StartRequeue(c, j)
    PROVE  LeaseInv'
<1>1. /\ UNCHANGED <<ready, scheduled, processing, lapsed, dlq, status, held>>
      /\ cpc[c] = "idle" /\ cjob' = [cjob EXCEPT ![c] = j]
      /\ \A d \in Clients \ {c} : cpc'[d] = cpc[d] /\ cjob'[d] = cjob[d]
      /\ cjob'[c] = j /\ drawn \subseteq drawn' /\ j \in drawn'
  <2>1. CASE EnqueueUnkeyed(c, j) \/ ClaimKey(c, j) \/ KeyTaken(c, j)
    BY <2>1 DEF EnqueueUnkeyed, ClaimKey, KeyTaken, StartEnqueue, Goto, redis, consumer, TypeOK, ClientTypeOK
  <2>2. CASE StartRequeue(c, j)
    <3>1. j \in drawn
      BY <2>2 DEF StartRequeue, LeaseInv, RecordTells
    <3> QED BY <2>2, <3>1 DEF StartRequeue, Goto, redis, consumer, TypeOK, ClientTypeOK
  <2> QED BY <2>1, <2>2
<1>2. requeues <= requeues'
  BY DEF EnqueueUnkeyed, ClaimKey, KeyTaken, StartEnqueue, StartRequeue, TypeOK, ClientTypeOK
<1>3. \A d \in Clients \ {c} : cjob[d] # j
  <2>1. CASE EnqueueUnkeyed(c, j) \/ ClaimKey(c, j) \/ KeyTaken(c, j)
    <3>1. j \notin drawn
      BY <2>1 DEF EnqueueUnkeyed, ClaimKey, KeyTaken, StartEnqueue
    <3> QED BY <3>1, JobsAssumption DEF LeaseInv, ClientTells
  <2>2. ASSUME StartRequeue(c, j), NEW d \in Clients \ {c}, cjob[d] = j PROVE FALSE
    <3>1. requeues < MaxRequeues /\ dlq[j] > 0
      BY <2>2 DEF StartRequeue, Disciplined
    <3>2. status[j] = "DEAD_LETTER"
      BY <3>1 DEF LeaseInv, RecordTells
    <3>3. cpc[d] # "idle" /\ cpc[d] \in ClientPcs
      BY <2>2, JobsAssumption DEF TypeOK, ClientTypeOK
    <3>4. cpc[d] = "requeue"
      BY <2>2, <3>1, <3>2, <3>3 DEF LeaseInv, ClientTells, ClientPcs
    <3>5. requeues > 0
      BY <3>4 DEF LeaseInv, ClientTells
    <3>6. MaxRequeues <= 1
      BY DEF Disciplined
    <3> QED BY <3>1, <3>5, <3>6, ClientsAssumption DEF TypeOK, ClientTypeOK
  <2> QED BY <2>1, <2>2
<1>4. ReadyOnce' /\ \A i \in Jobs : RecordTells(i)' /\ (InReady(i)' <=> InReady(i))
  BY <1>1 DEF LeaseInv, ReadyOnce, RecordTells, InReady, Stored
<1>5. ClientTells(c)'
  <2>1. CASE EnqueueUnkeyed(c, j) \/ ClaimKey(c, j) \/ KeyTaken(c, j)
    <3>1. j \notin drawn /\ cpc'[c] \in {"push", "lookup"}
      BY <2>1 DEF EnqueueUnkeyed, ClaimKey, KeyTaken, StartEnqueue, Goto, TypeOK, ClientTypeOK
    <3>2. status'[j] = "NONE"
      BY <1>1, <3>1 DEF LeaseInv, RecordTells, Stored
    <3> QED BY <1>1, <3>1, <3>2 DEF ClientTells
  <2>2. CASE StartRequeue(c, j)
    <3>1. cpc'[c] = "requeue" /\ requeues' > 0 /\ dlq'[j] > 0
      BY <1>1, <2>2 DEF StartRequeue, Goto, TypeOK, ClientTypeOK, Disciplined
    <3> QED BY <1>1, <3>1 DEF ClientTells
  <2> QED BY <2>1, <2>2
<1> QED BY <1>1, <1>2, <1>3, <1>4, <1>5, ClientMoves

\* A client that writes its job's record or puts its id in a list.
LEMMA ClientsWrite ==
    ASSUME TypeOK, TypeOK', LeaseInv, UNCHANGED consumer, NEW c \in Clients,
           \/ PushDue(c) \/ PushLater(c) \/ NodeWriteHash(c)
           \/ NodeLinkReady(c) \/ NodeLinkScheduled(c) \/ Requeue(c)
           \/ NodeRemove(c) \/ NodeReset(c) \/ NodeRepush(c)
    PROVE  LeaseInv'
<1>1. PICK j \in Jobs : j = cjob[c]
  BY DEF PushDue, PushLater, NodeWriteHash, NodeLinkReady, NodeLinkScheduled, Requeue,
         NodeRemove, NodeReset, NodeRepush, TypeOK, ClientTypeOK
<1>2. /\ \A d \in Clients \ {c} : cpc'[d] = cpc[d] /\ cjob'[d] = cjob[d]
      /\ cjob'[c] \in {j, NoJob} /\ drawn' = drawn /\ requeues' = requeues
      /\ UNCHANGED <<processing, lapsed, held>>
  BY <1>1
  DEF PushDue, PushLater, NodeWriteHash, NodeLinkReady, NodeLinkScheduled, Requeue,
      NodeRemove, NodeReset, NodeRepush, Finish, Goto, consumer, TypeOK, ClientTypeOK
<1>3. \A d \in Clients \ {c} : cjob[d] # j
  BY <1>1, JobsAssumption DEF LeaseInv, OwnJobs
<1>4. RecordTells(j) /\ ClientTells(c) /\ j \in drawn /\ ReadyOnce
  BY <1>1, JobsAssumption DEF LeaseInv, ClientTells
<1>5. \A i \in Jobs \ {j} : /\ status'[i] = status[i] /\ dlq'[i] = dlq[i]
                            /\ InReady(i)' => InReady(i)
                            /\ i \in scheduled' => i \in scheduled
  <2>1. /\ ready' = ready \/ PushReady(j)
        /\ scheduled' = scheduled \/ AddScheduled(j)
        /\ dlq' = dlq \/ RemoveDeadLetter(j)
        /\ status' = status \/ \E s \in Status : SetStatus(j, s)
    BY <1>1 DEF PushDue, PushLater, NodeWriteHash, NodeLinkReady, NodeLinkScheduled, Requeue,
                NodeRemove, NodeReset, NodeRepush, Status
  <2>2. \A i \in Jobs \ {j} : InReady(i)' => InReady(i)
    <3>1. CASE ready' = ready
      BY <3>1 DEF InReady
    <3>2. CASE PushReady(j)
      BY <3>2, PushReadyAdds DEF TypeOK
    <3> QED BY <2>1, <3>1, <3>2
  <2> QED BY <2>1, <2>2 DEF AddScheduled, RemoveDeadLetter, SetStatus, TypeOK, RedisTypeOK
\* What is left to show is about `j` and `c`.
<1>6. SUFFICES ReadyOnce' /\ RecordTells(j)' /\ ClientTells(c)'
  <2>1. requeues <= requeues'
    BY <1>2 DEF TypeOK, ClientTypeOK
  <2> QED BY <1>2, <1>3, <1>5, <2>1, ClientMoves
<1>7. (ready' = ready => ReadyOnce' /\ (InReady(j)' <=> InReady(j)))
  BY <1>4 DEF ReadyOnce, InReady
<1>8. cpc'[c] = "idle" /\ cjob'[c] = NoJob => ClientTells(c)'
  BY DEF ClientTells
<1>9. Finish(c) => cpc'[c] = "idle" /\ cjob'[c] = NoJob
  BY DEF Finish, Goto, TypeOK, ClientTypeOK
<1>10. CASE PushDue(c)
  <2>1. /\ status[j] = "NONE" /\ status'[j] = "QUEUED" /\ PushReady(j)
        /\ UNCHANGED <<scheduled, processing, dlq>> /\ Finish(c)
    BY <1>1, <1>4, <1>10 DEF PushDue, ClientTells, SetStatus, TypeOK, RedisTypeOK
  <2>2. ~InReady(j) /\ j \notin scheduled /\ j \notin processing /\ ~(dlq[j] > 0)
    BY <1>4, <2>1 DEF RecordTells
  <2>3. ReadyOnce'
    BY <1>4, <2>1, <2>2, PushKeepsOnce DEF TypeOK
  <2> QED BY <1>2, <1>4, <1>8, <1>9, <2>1, <2>2, <2>3 DEF RecordTells
<1>11. CASE PushLater(c)
  <2>1. /\ status[j] = "NONE" /\ status'[j] = "SCHEDULED"
        /\ UNCHANGED <<ready, processing, dlq>> /\ Finish(c)
    BY <1>1, <1>4, <1>11 DEF PushLater, ClientTells, SetStatus, TypeOK, RedisTypeOK
  <2>2. ~InReady(j) /\ j \notin processing /\ ~(dlq[j] > 0)
    BY <1>4, <2>1 DEF RecordTells
  <2> QED BY <1>2, <1>4, <1>7, <1>8, <1>9, <2>1, <2>2 DEF RecordTells
<1>12. CASE NodeWriteHash(c)
  <2>1. /\ status[j] = "NONE" /\ UNCHANGED <<ready, scheduled, processing, dlq>> /\ cjob'[c] = j
        /\ \/ status'[j] = "QUEUED" /\ cpc'[c] = "linkReady"
           \/ status'[j] = "SCHEDULED" /\ cpc'[c] = "linkScheduled"
    BY <1>1, <1>4, <1>12 DEF NodeWriteHash, ClientTells, SetStatus, Goto, TypeOK, RedisTypeOK, ClientTypeOK
  <2>2. ~InReady(j) /\ j \notin scheduled /\ j \notin processing /\ ~(dlq[j] > 0)
    BY <1>4, <2>1 DEF RecordTells
  <2>3. ~InReady(cjob[c])'
    <3>1. ~InReady(j)'
      BY <1>7, <2>1, <2>2
    <3> QED BY <2>1, <3>1 DEF InReady
  <2>4. ClientTells(c)'
    BY <1>2, <1>4, <2>1, <2>2, <2>3 DEF ClientTells
  <2> QED BY <1>2, <1>4, <1>7, <2>1, <2>2, <2>4 DEF RecordTells
<1>13. CASE NodeLinkReady(c) \/ NodeRepush(c)
  <2>1. /\ status[j] = "QUEUED" /\ ~InReady(j) /\ PushReady(j)
        /\ UNCHANGED <<status, scheduled, processing, dlq>> /\ Finish(c)
    BY <1>1, <1>4, <1>13 DEF NodeLinkReady, NodeRepush, ClientTells, InReady
  <2>2. ReadyOnce'
    BY <1>4, <2>1, PushKeepsOnce DEF TypeOK
  <2> QED BY <1>2, <1>4, <1>8, <1>9, <2>1, <2>2 DEF RecordTells
<1>14. CASE NodeLinkScheduled(c)
  <2>1. /\ status[j] = "SCHEDULED" /\ UNCHANGED <<ready, status, processing, dlq>> /\ Finish(c)
    BY <1>1, <1>4, <1>14 DEF NodeLinkScheduled, ClientTells
  <2> QED BY <1>2, <1>4, <1>7, <1>8, <1>9, <2>1 DEF RecordTells, Stored
<1>15. CASE Requeue(c)
  <2>1. /\ dlq[j] > 0 /\ dlq'[j] = dlq[j] - 1 /\ status'[j] = "QUEUED" /\ PushReady(j)
        /\ UNCHANGED <<scheduled, processing>> /\ Finish(c) /\ dlq[j] \in Nat
    BY <1>1, <1>4, <1>15 DEF Requeue, ClientTells, SetStatus, RemoveDeadLetter, TypeOK, RedisTypeOK
  <2>2. /\ ~InReady(j) /\ j \notin scheduled /\ j \notin processing /\ dlq[j] <= 1
    BY <1>4, <2>1 DEF RecordTells
  <2>3. dlq'[j] = 0
    BY <2>1, <2>2
  <2>4. ReadyOnce'
    BY <1>4, <2>1, <2>2, PushKeepsOnce DEF TypeOK
  <2> QED BY <1>2, <1>4, <1>8, <1>9, <2>1, <2>2, <2>3, <2>4 DEF RecordTells
<1>16. CASE NodeRemove(c)
  <2>1. /\ cpc[c] = "requeue" /\ dlq[j] > 0 /\ dlq'[j] = dlq[j] - 1 /\ dlq[j] \in Nat /\ cjob'[c] = j
        /\ UNCHANGED <<ready, status, scheduled, processing>> /\ cpc'[c] = "reset"
    BY <1>1, <1>4, <1>16 DEF NodeRemove, ClientTells, RemoveDeadLetter, Goto, TypeOK, RedisTypeOK, ClientTypeOK
  <2>2. dlq'[j] = 0 /\ status[j] = "DEAD_LETTER"
    BY <1>4, <2>1 DEF RecordTells
  <2>3. ClientTells(c)'
    BY <1>2, <1>4, <2>1, <2>2 DEF ClientTells
  <2> QED BY <1>2, <1>4, <1>7, <2>1, <2>2, <2>3 DEF RecordTells, Stored
<1>17. CASE NodeReset(c)
  <2>1. /\ cpc[c] = "reset" /\ dlq[j] = 0 /\ status[j] = "DEAD_LETTER" /\ status'[j] = "QUEUED"
        /\ UNCHANGED <<ready, dlq, scheduled, processing>> /\ cpc'[c] = "repush" /\ cjob'[c] = j
    BY <1>1, <1>4, <1>17 DEF NodeReset, ClientTells, SetStatus, Goto, TypeOK, RedisTypeOK, ClientTypeOK
  <2>2. /\ ~InReady(j) /\ j \notin scheduled /\ j \notin processing
    BY <1>4, <2>1 DEF RecordTells
  <2>3. ~InReady(cjob[c])'
    <3>1. ~InReady(j)'
      BY <1>7, <2>1, <2>2
    <3> QED BY <2>1, <3>1 DEF InReady
  <2>4. ClientTells(c)'
    BY <1>2, <1>4, <2>1, <2>3 DEF ClientTells
  <2> QED BY <1>2, <1>4, <1>7, <2>1, <2>2, <2>4 DEF RecordTells
<1> QED BY <1>10, <1>11, <1>12, <1>13, <1>14, <1>15, <1>16, <1>17

-----------------------------------------------------------------------------
(* Consumers. *)

\* A job in a list or set from which it is taken is no client's.
LEMMA PlacedIsNobodys ==
    ASSUME TypeOK, LeaseInv, NEW j \in Jobs, InReady(j) \/ j \in scheduled \/ j \in processing,
           NEW c \in Clients
    PROVE  cjob[c] # j
<1> SUFFICES ASSUME cjob[c] = j PROVE FALSE
  OBVIOUS
<1>1. cpc[c] # "idle" /\ cpc[c] \in ClientPcs
  BY JobsAssumption DEF TypeOK, ClientTypeOK
<1>2. RecordTells(j) /\ ClientTells(c)
  BY DEF LeaseInv
<1> QED BY <1>1, <1>2 DEF RecordTells, ClientTells, ClientPcs

LEMMA NoDeadLetter ==
    ASSUME TypeOK, LeaseInv, NEW j \in Jobs, status[j] \notin {"NONE", "DEAD_LETTER"}
    PROVE  dlq[j] = 0 /\ j \in drawn
<1>1. dlq[j] \in Nat /\ RecordTells(j)
  BY DEF TypeOK, RedisTypeOK, LeaseInv
<1>2. ~(dlq[j] > 0) /\ j \in drawn
  BY <1>1 DEF RecordTells, Stored
<1> QED BY <1>1, <1>2

\* A step of a worker or the scheduler that moves some of the jobs that wait for it.
LEMMA ConsumerMoves ==
    ASSUME TypeOK, TypeOK', LeaseInv, UNCHANGED client, NEW B \in SUBSET Jobs,
           \A j \in B : InReady(j) \/ j \in scheduled \/ j \in processing,
           \A i \in Jobs \ B : /\ status'[i] = status[i] /\ dlq'[i] = dlq[i]
                               /\ InReady(i)' => InReady(i)
                               /\ i \in scheduled' => i \in scheduled
                               /\ i \in processing' => i \in processing,
           ReadyOnce', \A j \in B : RecordTells(j)',
           \A w \in Workers : HandLeased(w)', SingleHolder'
    PROVE  LeaseInv'
<1>1. ASSUME NEW i \in Jobs PROVE RecordTells(i)'
  <2>1. CASE i \in B
    BY <2>1
  <2>2. CASE i \notin B
    <3>1. drawn' = drawn
      BY DEF client
    <3> QED BY <2>2, <3>1 DEF LeaseInv, RecordTells, Stored
  <2> QED BY <2>1, <2>2
<1>2. ASSUME NEW c \in Clients PROVE ClientTells(c)'
  <2>1. ClientTells(c) /\ UNCHANGED <<cpc, cjob, drawn, requeues>>
    BY DEF LeaseInv, client
  <2>2. CASE cjob[c] = NoJob
    <3>1. cpc'[c] = "idle" /\ cjob'[c] = NoJob
      BY <2>1, <2>2 DEF TypeOK, ClientTypeOK
    <3> QED BY <3>1 DEF ClientTells
  <2>3. CASE cjob[c] # NoJob
    <3>1. PICK i \in Jobs : i = cjob[c] /\ cjob'[c] = i
      BY <2>1, <2>3 DEF TypeOK, ClientTypeOK
    <3>2. i \notin B
      BY <3>1, PlacedIsNobodys
    <3>3. InReady(cjob[c])' => InReady(cjob[c])
      <4>1. InReady(i)' => InReady(i)
        BY <3>2
      <4> QED BY <3>1, <4>1 DEF InReady
    <3> QED BY <2>1, <3>1, <3>2, <3>3 DEF ClientTells
  <2> QED BY <2>2, <2>3
<1>3. OwnJobs'
  BY DEF LeaseInv, OwnJobs, client
<1> QED BY <1>1, <1>2, <1>3 DEF LeaseInv

LEMMA ReserveKeepsLease ==
    ASSUME TypeOK, TypeOK', LeaseInv, UNCHANGED client, NEW w \in Workers, Reserve(w)
    PROVE  LeaseInv'
<1>1. PICK p \in Priorities :
        /\ ready[p] # <<>>
        /\ ready' = [ready EXCEPT ![p] = Tail(@)]
        /\ held' = [held EXCEPT ![w] = Head(ready[p])]
        /\ AddLease(Head(ready[p]))
        /\ SetStatus(Head(ready[p]), "PROCESSING")
  BY DEF Reserve, FirstWaiting
<1>2. PICK j \in Jobs : j = Head(ready[p])
  BY <1>1, PopFacts DEF TypeOK
<1>3. ReadyOnce' /\ InReady(j) /\ ~InReady(j)' /\ \A i \in Jobs : InReady(i)' => InReady(i)
  BY <1>1, <1>2, PopKeepsOnce, PopAdds DEF TypeOK, LeaseInv
<1>4. /\ held' = [held EXCEPT ![w] = j] /\ processing' = processing \cup {j} /\ lapsed' = lapsed \ {j}
      /\ status' = [status EXCEPT ![j] = "PROCESSING"] /\ UNCHANGED <<scheduled, dlq>>
  BY <1>1, <1>2 DEF AddLease, SetStatus, Reserve
<1>5. /\ status[j] = "QUEUED" /\ j \notin scheduled /\ j \notin processing /\ dlq[j] = 0
      /\ j \in drawn' /\ status'[j] = "PROCESSING"
  <2>1. status[j] = "QUEUED" /\ j \notin scheduled /\ j \notin processing
    BY <1>3 DEF LeaseInv, RecordTells
  <2>2. status'[j] = "PROCESSING"
    BY <1>4 DEF TypeOK, RedisTypeOK
  <2> QED BY <2>1, <2>2, NoDeadLetter DEF client
<1>6. RecordTells(j)'
  BY <1>3, <1>4, <1>5 DEF RecordTells
<1>7. \A v \in Workers : held[v] # j
  BY <1>5, JobsAssumption DEF LeaseInv, HandLeased
<1>8. held'[w] = j /\ \A v \in Workers \ {w} : held'[v] = held[v]
  BY <1>4 DEF TypeOK, ConsumerTypeOK
<1>9. SingleHolder'
  BY <1>7, <1>8 DEF LeaseInv, SingleHolder
<1>10. ASSUME NEW v \in Workers PROVE HandLeased(v)'
  <2>1. CASE v = w
    BY <1>4, <1>8, <2>1, JobsAssumption DEF HandLeased, TypeOK, RedisTypeOK
  <2>2. CASE v # w
    <3>1. HandLeased(v) /\ held'[v] = held[v]
      BY <1>8, <2>2 DEF LeaseInv
    <3> QED BY <1>4, <3>1 DEF HandLeased
  <2> QED BY <2>1, <2>2
<1>11. \A i \in Jobs \ {j} : /\ status'[i] = status[i] /\ dlq'[i] = dlq[i]
                             /\ i \in scheduled' => i \in scheduled
                             /\ i \in processing' => i \in processing
  BY <1>4 DEF TypeOK, RedisTypeOK
<1>12. PICK B \in SUBSET Jobs : B = {j}
  OBVIOUS
<1>13. \A i \in B : i = j
  BY <1>12
<1> QED BY <1>3, <1>6, <1>9, <1>10, <1>11, <1>12, <1>13, ConsumerMoves

LEMMA SettleKeepsLease ==
    ASSUME TypeOK, TypeOK', LeaseInv, UNCHANGED client, NEW w \in Workers,
           Ack(w) \/ NackPermanent(w) \/ NackExhausted(w) \/ NackRetry(w)
    PROVE  LeaseInv'
<1>1. PICK j \in Jobs : j = held[w]
  BY DEF Ack, NackPermanent, NackExhausted, NackRetry, TypeOK, ConsumerTypeOK, Holding
<1>2. /\ ready' = ready /\ processing' = processing \ {j} /\ lapsed' = lapsed \ {j}
      /\ held' = [held EXCEPT ![w] = NoJob]
  BY <1>1 DEF Ack, NackPermanent, NackExhausted, NackRetry, DropLease, LetGo
<1>3. /\ j \in processing /\ status[j] = "PROCESSING" /\ ~InReady(j) /\ j \notin scheduled
      /\ dlq[j] = 0 /\ j \in drawn
  <2>1. j \in processing
    BY <1>1, JobsAssumption DEF LeaseInv, HandLeased
  <2>2. status[j] = "PROCESSING" /\ ~InReady(j) /\ j \notin scheduled
    BY <2>1 DEF LeaseInv, RecordTells
  <2> QED BY <2>1, <2>2, NoDeadLetter
<1>4. /\ \A i \in Jobs \ {j} : /\ status'[i] = status[i] /\ dlq'[i] = dlq[i]
                               /\ i \in scheduled' => i \in scheduled
      /\ \/ status'[j] \in {"SUCCESS", "FAILED"} /\ scheduled' = scheduled /\ dlq'[j] = 0
         \/ status'[j] = "DEAD_LETTER" /\ scheduled' = scheduled /\ dlq'[j] = 1
         \/ status'[j] = "RETRY_WAIT" /\ dlq'[j] = 0
  BY <1>1, <1>3 DEF Ack, NackPermanent, NackExhausted, NackRetry, SetStatus, AddScheduled,
                    PushDeadLetter, TypeOK, RedisTypeOK
<1>5. ReadyOnce' /\ \A i \in Jobs : InReady(i)' <=> InReady(i)
  BY <1>2 DEF LeaseInv, ReadyOnce, InReady
<1>6. RecordTells(j)'
  BY <1>2, <1>3, <1>4, <1>5 DEF RecordTells, client
<1>7. \A v \in Workers : held'[v] = NoJob \/ (held'[v] = held[v] /\ held[v] # j)
  BY <1>1, <1>2, JobsAssumption DEF LeaseInv, SingleHolder, TypeOK, ConsumerTypeOK
<1>8. SingleHolder' /\ \A v \in Workers : HandLeased(v)'
  BY <1>2, <1>7 DEF LeaseInv, SingleHolder, HandLeased
<1> QED BY <1>2, <1>3, <1>4, <1>5, <1>6, <1>8, ConsumerMoves

LEMMA BatchKeepsLease ==
    ASSUME TypeOK, TypeOK', LeaseInv, UNCHANGED client, PromoteDue \/ ReapExpired
    PROVE  LeaseInv'
<1>1. PICK B \in SUBSET Jobs :
        /\ PushBatch(B) /\ SetStatuses(B, "QUEUED") /\ dlq' = dlq /\ UNCHANGED consumer
        /\ scheduled' = scheduled \ B /\ processing' = processing \ B
        /\ lapsed' = lapsed \ B
        /\ \/ B \subseteq scheduled
           \/ B \subseteq lapsed
  <2>1. ASSUME PromoteDue PROVE \E B \in SUBSET due : /\ PushBatch(B) /\ SetStatuses(B, "QUEUED")
                                                     /\ scheduled' = scheduled \ B
    BY <2>1 DEF PromoteDue, Batches
  <2>2. CASE PromoteDue
    <3>1. PICK B \in SUBSET due : PushBatch(B) /\ SetStatuses(B, "QUEUED") /\ scheduled' = scheduled \ B
      BY <2>1, <2>2
    <3>2. B \in SUBSET Jobs /\ B \subseteq scheduled
      BY DEF TypeOK, RedisTypeOK
    <3>3. \A j \in B : j \notin processing
      BY <3>2 DEF LeaseInv, RecordTells
    <3>4. processing' = processing \ B /\ lapsed' = lapsed \ B
      BY <2>2, <3>3 DEF PromoteDue, TypeOK, RedisTypeOK
    <3> QED BY <2>2, <3>1, <3>2, <3>4 DEF PromoteDue
  <2>3. CASE ReapExpired
    <3>1. PICK B \in SUBSET lapsed : /\ PushBatch(B) /\ SetStatuses(B, "QUEUED")
                                     /\ processing' = processing \ B /\ lapsed' = lapsed \ B
      BY <2>3 DEF ReapExpired, Expired, Batches
    <3>2. B \in SUBSET Jobs /\ B \subseteq processing
      BY DEF TypeOK, RedisTypeOK
    <3>3. \A j \in B : j \notin scheduled
      BY <3>2 DEF LeaseInv, RecordTells
    <3>4. scheduled' = scheduled \ B
      BY <2>3, <3>3 DEF ReapExpired
    <3> QED BY <2>3, <3>1, <3>2, <3>4 DEF ReapExpired
  <2> QED BY <2>2, <2>3
<1>2. \A j \in B : /\ j \in scheduled \/ j \in processing
                   /\ ~InReady(j) /\ dlq[j] = 0 /\ j \in drawn
  <2> SUFFICES ASSUME NEW j \in B PROVE /\ j \in scheduled \/ j \in processing
                                        /\ ~InReady(j) /\ dlq[j] = 0 /\ j \in drawn
    OBVIOUS
  <2>1. j \in scheduled \/ j \in processing
    BY <1>1 DEF TypeOK, RedisTypeOK
  <2>2. status[j] \in {"SCHEDULED", "RETRY_WAIT", "PROCESSING"} /\ ~InReady(j)
    BY <2>1 DEF LeaseInv, RecordTells
  <2> QED BY <2>1, <2>2, NoDeadLetter
<1>3. ReadyOnce'
  BY <1>1, <1>2, BatchKeepsOnce DEF LeaseInv, TypeOK
<1>4. \A j \in B : RecordTells(j)'
  BY <1>1, <1>2 DEF SetStatuses, RecordTells, client
<1>5. \A i \in Jobs \ B : status'[i] = status[i] /\ (InReady(i)' => InReady(i))
  BY <1>1, PushBatchAdds DEF SetStatuses, TypeOK
<1>6. \A w \in Workers : held[w] # NoJob => held[w] \notin B
  BY <1>1 DEF LeaseInv, HandLeased, RecordTells, TypeOK, RedisTypeOK
<1>7. SingleHolder' /\ \A w \in Workers : HandLeased(w)'
  BY <1>1, <1>6 DEF LeaseInv, SingleHolder, HandLeased, consumer
<1> QED BY <1>1, <1>2, <1>3, <1>4, <1>5, <1>7, ConsumerMoves

\* What moves no job: a worker goes on or is gone, and time passes.
LEMMA RestKeepsLease ==
    ASSUME Disciplined, TypeOK, TypeOK', LeaseInv, UNCHANGED client,
           \/ \E w \in Workers : \/ FetchJob(w) \/ CountAttempt(w) \/ RunHandler(w)
                                 \/ Restart(w) \/ Crash(w) \/ WorkerLoopEnds(w)
           \/ \E j \in Jobs : RunAtPasses(j) \/ LeaseLapses(j)
           \/ SchedulerLoopEnds
    PROVE  LeaseInv'
<1>1. UNCHANGED <<ready, scheduled, processing, dlq, status>>
  BY DEF FetchJob, CountAttempt, RunHandler, Restart, Crash, WorkerLoopEnds, RunAtPasses,
         LeaseLapses, SchedulerLoopEnds, redis
<1>2. ReadyOnce' /\ \A i \in Jobs : InReady(i)' <=> InReady(i)
  BY <1>1 DEF LeaseInv, ReadyOnce, InReady
<1>3. \A w \in Workers : held'[w] \in {held[w], NoJob}
  BY DEF FetchJob, CountAttempt, RunHandler, Restart, Crash, WorkerLoopEnds, RunAtPasses,
         LeaseLapses, SchedulerLoopEnds, LetGo, consumer, TypeOK, ConsumerTypeOK
<1>4. SingleHolder'
  BY <1>3 DEF LeaseInv, SingleHolder
<1>5. ASSUME NEW w \in Workers, held'[w] # NoJob PROVE held'[w] \notin lapsed'
  <2>1. CASE lapsed' = lapsed
    BY <1>3, <1>5, <2>1 DEF LeaseInv, HandLeased
  <2>2. ASSUME NEW j \in Jobs, LeaseLapses(j) PROVE held'[w] \notin lapsed'
    <3>1. held' = held /\ lapsed' = lapsed \cup {j}
      BY <2>2 DEF LeaseLapses
    <3>2. ~Holds(w, j)
      BY <2>2 DEF LeaseLapses, Disciplined, TypeOK, ConsumerTypeOK
    <3> QED BY <1>5, <3>1, <3>2 DEF Holds, LeaseInv, HandLeased, TypeOK, ConsumerTypeOK
  <2> QED BY <2>1, <2>2 DEF FetchJob, CountAttempt, RunHandler, Restart, Crash, WorkerLoopEnds,
                            RunAtPasses, SchedulerLoopEnds, redis
<1>6. \A w \in Workers : HandLeased(w)'
  BY <1>1, <1>3, <1>5 DEF LeaseInv, HandLeased
<1>7. PICK B \in SUBSET Jobs : B = {}
  OBVIOUS
<1> QED BY <1>1, <1>2, <1>4, <1>6, <1>7, ConsumerMoves

LEMMA LeaseStep ==
    ASSUME Disciplined, TypeOK, TypeOK', LeaseInv, [Next]_vars
    PROVE  LeaseInv'
<1>1. CASE UNCHANGED vars
  BY <1>1 DEF vars, redis, client, consumer, LeaseInv, ReadyOnce, RecordTells, ClientTells, OwnJobs,
              HandLeased, SingleHolder, InReady, Stored
<1>2. CASE ClientNext /\ UNCHANGED consumer
  <2>1. ASSUME NEW k \in Keys, ExpireKey(k) PROVE LeaseInv'
    BY <1>2, <2>1 DEF ExpireKey, client, consumer, LeaseInv, ReadyOnce, RecordTells, ClientTells,
                      OwnJobs, HandLeased, SingleHolder, InReady, Stored
  <2>2. ASSUME NEW c \in Clients,
               LookupOwner(c) \/ OwnerMissing(c) \/ ReturnOriginal(c) \/ ClientDies(c)
        PROVE  LeaseInv'
    BY <1>2, <2>2, ClientsReadOn DEF LookupOwner, OwnerMissing, ReturnOriginal, ClientDies
  <2> QED BY <1>2, <2>1, <2>2, ClientsBegin, ClientsWrite DEF ClientNext, ClientStep
<1>3. CASE ConsumerNext /\ UNCHANGED client
  BY <1>3, ReserveKeepsLease, SettleKeepsLease, BatchKeepsLease, RestKeepsLease
  DEF ConsumerNext, WorkerStep
<1> QED BY <1>1, <1>2, <1>3 DEF Next

LEMMA LeaseInvHolds ==
    ASSUME Disciplined
    PROVE  Spec => []LeaseInv
<1>1. Init => LeaseInv
  <2> SUFFICES ASSUME Init PROVE LeaseInv
    OBVIOUS
  <2>1. ReadyOnce /\ \A j \in Jobs : ~InReady(j)
    BY DEF Init, RedisInit, ReadyOnce, InReady
  <2> QED BY <2>1 DEF Init, RedisInit, ClientInit, ConsumerInit, LeaseInv, RecordTells, ClientTells,
                      OwnJobs, HandLeased, SingleHolder, Stored
<1>2. TypeOK /\ TypeOK' /\ LeaseInv /\ [Next]_vars => LeaseInv'
  BY LeaseStep
<1> QED BY <1>1, <1>2, TypeCorrect, PTL DEF Spec

\* While leases cover the handlers and one operator retries dead letters, no two live
\* workers hold one job, so no handler of it runs twice at once.
THEOREM OneHolderAtATime ==
    ASSUME Disciplined
    PROVE  Spec => []SingleHolder
<1>1. LeaseInv => SingleHolder
  BY DEF LeaseInv
<1> QED BY <1>1, LeaseInvHolds, PTL

-----------------------------------------------------------------------------
(* What is settled stays settled: no step that writes a record finds one that is. *)

LEMMA SettledStays ==
    ASSUME TypeOK, LeaseInv, [Next]_vars, NEW j \in Jobs
    PROVE  /\ status[j] \in {"SUCCESS", "FAILED"} => status'[j] = status[j]
           /\ status[j] = "DEAD_LETTER" => status'[j] \in {"DEAD_LETTER", "QUEUED"}
<1> SUFFICES ASSUME status'[j] # status[j]
             PROVE  \/ status[j] \in {"NONE", "SCHEDULED", "QUEUED", "RETRY_WAIT", "PROCESSING"}
                    \/ status[j] = "DEAD_LETTER" /\ status'[j] = "QUEUED"
  OBVIOUS
<1>1. ASSUME NEW c \in Clients, PushDue(c) \/ PushLater(c) \/ NodeWriteHash(c) \/ Requeue(c) \/ NodeReset(c)
      PROVE  \/ status[j] = "NONE"
             \/ status[j] = "DEAD_LETTER" /\ status'[j] = "QUEUED"
  <2>1. j = cjob[c]
    <3>1. PICK i \in Jobs : i = cjob[c] /\ \E x \in Status : SetStatus(i, x)
      BY <1>1 DEF PushDue, PushLater, NodeWriteHash, Requeue, NodeReset, TypeOK, ClientTypeOK, Status
    <3> QED BY <3>1 DEF SetStatus, TypeOK, RedisTypeOK
  <2>2. ClientTells(c) /\ RecordTells(j)
    BY DEF LeaseInv
  <2> QED BY <1>1, <2>1, <2>2
      DEF PushDue, PushLater, NodeWriteHash, Requeue, NodeReset, SetStatus, ClientTells, RecordTells,
          TypeOK, RedisTypeOK
<1>2. ASSUME NEW w \in Workers, Reserve(w) PROVE status[j] = "QUEUED"
  <2>1. PICK p \in Priorities : /\ ready[p] # <<>> /\ SetStatus(Head(ready[p]), "PROCESSING")
                                /\ ready' = [ready EXCEPT ![p] = Tail(@)]
    BY <1>2 DEF Reserve, FirstWaiting
  <2>2. j = Head(ready[p])
    BY <2>1 DEF SetStatus, TypeOK, RedisTypeOK
  <2>3. InReady(j)
    BY <2>1, <2>2, PopKeepsOnce DEF LeaseInv, TypeOK
  <2> QED BY <2>3 DEF LeaseInv, RecordTells
<1>3. ASSUME NEW w \in Workers, Ack(w) \/ NackPermanent(w) \/ NackExhausted(w) \/ NackRetry(w)
      PROVE  status[j] = "PROCESSING"
  <2>1. PICK i \in Jobs : i = held[w] /\ \E x \in Status : SetStatus(i, x)
    BY <1>3 DEF Ack, NackPermanent, NackExhausted, NackRetry, TypeOK, ConsumerTypeOK, Holding, Status
  <2>2. j = i
    BY <2>1 DEF SetStatus, TypeOK, RedisTypeOK
  <2>3. j \in processing
    BY <2>1, <2>2, JobsAssumption DEF LeaseInv, HandLeased
  <2> QED BY <2>3 DEF LeaseInv, RecordTells
<1>4. CASE PromoteDue \/ ReapExpired
  <2>1. PICK B \in SUBSET (due \cup lapsed) : SetStatuses(B, "QUEUED")
    BY <1>4 DEF PromoteDue, ReapExpired, Expired, Batches
  <2>2. j \in scheduled \cup processing
    BY <2>1 DEF SetStatuses, TypeOK, RedisTypeOK
  <2> QED BY <2>2 DEF LeaseInv, RecordTells
<1>5. status' # status
  OBVIOUS
<1> QED BY <1>1, <1>2, <1>3, <1>4, <1>5
    DEF Next, ClientNext, ClientStep, ConsumerNext, WorkerStep, vars, redis, ExpireKey, LookupOwner,
        ReturnOriginal, OwnerMissing, NodeLinkReady, NodeLinkScheduled, NodeRemove, NodeRepush,
        ClientDies, EnqueueUnkeyed, ClaimKey, KeyTaken, StartEnqueue, StartRequeue, FetchJob,
        CountAttempt, RunHandler, Restart, Crash, WorkerLoopEnds, RunAtPasses, LeaseLapses,
        SchedulerLoopEnds

\* With that discipline a completed or failed job is never touched again, and a dead letter
\* only by an operator.
THEOREM SettledStaysFinal ==
    ASSUME Disciplined
    PROVE  Spec => SettledIsFinal
<1>1. TypeOK /\ LeaseInv /\ [Next]_vars =>
        [\A j \in Jobs :
           /\ status[j] \in {"SUCCESS", "FAILED"} => status'[j] = status[j]
           /\ status[j] = "DEAD_LETTER" => status'[j] \in {"DEAD_LETTER", "QUEUED"}]_vars
  BY SettledStays
<1> QED BY <1>1, TypeCorrect, LeaseInvHolds, PTL DEF Spec, SettledIsFinal

-----------------------------------------------------------------------------
(* Attempts.  Only the count that a worker read and raised is ever written back, so *)
(* the limit is passed only by jobs whose worker died or left after counting.       *)

Cap == MaxAttempts + crashes + redisErrors

\* A job that may be taken up, or has been and is not counted yet.
MayBeTaken(j) ==
    \/ status[j] \in {"SCHEDULED", "QUEUED", "RETRY_WAIT"}
    \/ status[j] = "PROCESSING" /\ \A w \in Workers : held[w] = j => wpc[w] = "fetch"

CountInv ==
    /\ \A j \in Jobs : attempt[j] <= Cap /\ (MayBeTaken(j) => attempt[j] < Cap)
    /\ \A w \in Workers : wpc[w] \in Holding \ {"fetch"} => snap[w] <= Cap

LEMMA CapGrows ==
    ASSUME TypeOK, TypeOK', crashes <= crashes', redisErrors <= redisErrors'
    PROVE  Cap \in Nat /\ Cap' \in Nat /\ Cap <= Cap'
<1>1. /\ MaxAttempts \in Nat /\ crashes \in Nat /\ crashes' \in Nat
      /\ redisErrors \in Nat /\ redisErrors' \in Nat
  BY LimitsAssumption, ConsumerAssumption DEF TypeOK, ConsumerTypeOK
<1>2. \A a, b, c, d \in Nat : a <= b /\ c <= d => /\ MaxAttempts + a + c \in Nat
                                                 /\ MaxAttempts + b + d \in Nat
                                                 /\ MaxAttempts + a + c <= MaxAttempts + b + d
  BY <1>1
<1>3. /\ MaxAttempts + crashes + redisErrors \in Nat
      /\ MaxAttempts + crashes' + redisErrors' \in Nat
      /\ MaxAttempts + crashes + redisErrors <= MaxAttempts + crashes' + redisErrors'
  BY <1>1, <1>2
<1> QED BY <1>3 DEF Cap

\* What a step has to show, of each job and each worker.
LEMMA CountKept ==
    ASSUME TypeOK, TypeOK', CountInv, crashes <= crashes', redisErrors <= redisErrors',
           \A i \in Jobs :
             \/ attempt'[i] = attempt[i] /\ (MayBeTaken(i)' => MayBeTaken(i))
             \/ attempt'[i] <= Cap /\ (MayBeTaken(i)' => attempt'[i] < Cap),
           \A w \in Workers : wpc'[w] \in Holding \ {"fetch"} => snap'[w] <= Cap
    PROVE  CountInv'
<1>1. /\ Cap \in Nat /\ Cap' \in Nat /\ Cap <= Cap'
      /\ attempt \in [Jobs -> Nat] /\ attempt' \in [Jobs -> Nat] /\ snap' \in [Workers -> Nat]
  BY CapGrows DEF TypeOK, RedisTypeOK, ConsumerTypeOK
<1>2. ASSUME NEW i \in Jobs PROVE attempt'[i] <= Cap' /\ (MayBeTaken(i)' => attempt'[i] < Cap')
  <2>1. attempt'[i] <= Cap /\ (MayBeTaken(i)' => attempt'[i] < Cap)
    BY DEF CountInv
  <2> HIDE DEF Cap
  <2> QED BY <1>1, <2>1
<1>3. ASSUME NEW w \in Workers, wpc'[w] \in Holding \ {"fetch"} PROVE snap'[w] <= Cap'
  <2>1. snap'[w] <= Cap
    BY <1>3
  <2> QED BY <1>1, <2>1
<1> QED BY <1>2, <1>3 DEF CountInv, Holding

\* Clients write a count of 0 or none.
LEMMA ClientsKeepCount ==
    ASSUME TypeOK, TypeOK', LeaseInv, CountInv, ClientNext, UNCHANGED consumer
    PROVE  CountInv'
<1>1. UNCHANGED <<wpc, held, snap, crashes, redisErrors>> /\ 0 < Cap /\ Cap \in Nat
  BY LimitsAssumption DEF consumer, Cap, TypeOK, ConsumerTypeOK
<1>2. \A w \in Workers : wpc'[w] \in Holding \ {"fetch"} => snap'[w] <= Cap
  BY <1>1 DEF CountInv
<1>3. crashes <= crashes' /\ redisErrors <= redisErrors'
  BY <1>1 DEF TypeOK, ConsumerTypeOK
<1>4. CASE UNCHANGED <<status, attempt>>
  <2>1. \A i \in Jobs : attempt'[i] = attempt[i] /\ (MayBeTaken(i)' => MayBeTaken(i))
    BY <1>1, <1>4 DEF MayBeTaken
  <2> QED BY <1>2, <1>3, <2>1, CountKept
<1>5. ASSUME NEW c \in Clients, PushDue(c) \/ PushLater(c) \/ NodeWriteHash(c) \/ Requeue(c) \/ NodeReset(c)
      PROVE  CountInv'
  <2>1. PICK j \in Jobs : SetAttempt(j, 0) /\ \E x \in Status : SetStatus(j, x)
    BY <1>5 DEF PushDue, PushLater, NodeWriteHash, Requeue, NodeReset, TypeOK, ClientTypeOK, Status
  <2>2. \A i \in Jobs \ {j} : attempt'[i] = attempt[i] /\ status'[i] = status[i]
    BY <2>1 DEF SetAttempt, SetStatus, TypeOK, RedisTypeOK
  <2>3. \A i \in Jobs \ {j} : MayBeTaken(i)' => MayBeTaken(i)
    BY <1>1, <2>2 DEF MayBeTaken
  <2>4. attempt'[j] = 0
    BY <2>1 DEF SetAttempt, TypeOK, RedisTypeOK
  <2>5. attempt'[j] <= Cap /\ attempt'[j] < Cap
    BY <1>1, <2>4
  <2> QED BY <1>2, <1>3, <2>2, <2>3, <2>5, CountKept
<1> QED BY <1>4, <1>5
    DEF ClientNext, ClientStep, redis, ExpireKey, LookupOwner, ReturnOriginal, OwnerMissing,
        NodeLinkReady, NodeLinkScheduled, NodeRemove, NodeRepush, ClientDies, EnqueueUnkeyed,
        ClaimKey, KeyTaken, StartEnqueue, StartRequeue

\* The holder of a job is the only one; its job is under its lease.
LEMMA HolderFacts ==
    ASSUME TypeOK, LeaseInv, NEW w \in Workers, NEW j \in Jobs, j = held[w]
    PROVE  /\ status[j] = "PROCESSING"
           /\ \A v \in Workers : held[v] = j => v = w
<1>1. j \in processing
  BY JobsAssumption DEF LeaseInv, HandLeased
<1> QED BY <1>1, JobsAssumption DEF LeaseInv, RecordTells, SingleHolder

LEMMA WorkersKeepCount ==
    ASSUME TypeOK, TypeOK', LeaseInv, CountInv, NEW w \in Workers,
           FetchJob(w) \/ CountAttempt(w) \/ RunHandler(w)
    PROVE  CountInv'
<1>1. PICK j \in Jobs : j = held[w]
  BY DEF FetchJob, CountAttempt, RunHandler, TypeOK, ConsumerTypeOK, Holding
<1>2. status[j] = "PROCESSING" /\ \A v \in Workers : held[v] = j => v = w
  BY <1>1, HolderFacts
<1>3. /\ UNCHANGED <<status, held, crashes, redisErrors>>
      /\ \A v \in Workers \ {w} : wpc'[v] = wpc[v] /\ snap'[v] = snap[v]
  BY DEF FetchJob, CountAttempt, RunHandler, Becomes, redis, TypeOK, ConsumerTypeOK
<1>4. crashes <= crashes' /\ redisErrors <= redisErrors'
  BY <1>3 DEF TypeOK, ConsumerTypeOK
<1>5. /\ Cap \in Nat /\ attempt[j] \in Nat
      /\ \A v \in Workers : wpc[v] \in Holding \ {"fetch"} => snap[v] <= Cap
  BY LimitsAssumption DEF Cap, CountInv, TypeOK, RedisTypeOK, ConsumerTypeOK
<1>6. \A i \in Jobs \ {j} : MayBeTaken(i)' => MayBeTaken(i)
  BY <1>1, <1>3 DEF MayBeTaken
\* After any of these steps the job is in a hand that counts it.
<1>7. ~MayBeTaken(j)'
  <2>1. wpc'[w] \notin {"idle", "fetch"} /\ held'[w] = j /\ status'[j] = "PROCESSING"
    BY <1>1, <1>2, <1>3 DEF FetchJob, CountAttempt, RunHandler, Becomes, TypeOK, ConsumerTypeOK
  <2> QED BY <2>1 DEF MayBeTaken
<1>8. CASE FetchJob(w)
  <2>1. attempt[j] < Cap
    BY <1>1, <1>2, <1>8 DEF CountInv, MayBeTaken, FetchJob
  <2>2. attempt' = attempt /\ snap'[w] = attempt[j] + 1
    BY <1>1, <1>8 DEF FetchJob, redis, TypeOK, ConsumerTypeOK
  <2>3. \A v \in Workers : wpc'[v] \in Holding \ {"fetch"} => snap'[v] <= Cap
    <3>1. snap'[w] <= Cap
      <4> HIDE DEF Cap
      <4> QED BY <1>5, <2>1, <2>2
    <3> QED BY <1>3, <1>5, <3>1
  <2> QED BY <1>4, <1>6, <1>7, <2>2, <2>3, CountKept
<1>9. CASE CountAttempt(w) \/ RunHandler(w)
  <2>1. snap' = snap /\ wpc[w] \in Holding \ {"fetch"}
    BY <1>9 DEF CountAttempt, RunHandler, Holding
  <2>2. \A v \in Workers : wpc'[v] \in Holding \ {"fetch"} => snap'[v] <= Cap
    BY <1>3, <1>5, <2>1
  <2>3. /\ \A i \in Jobs \ {j} : attempt'[i] = attempt[i]
        /\ attempt'[j] = attempt[j] \/ attempt'[j] = snap[w]
    BY <1>1, <1>9 DEF CountAttempt, RunHandler, SetAttempt, redis, TypeOK, RedisTypeOK
  <2>4. attempt'[j] <= Cap
    BY <1>5, <2>1, <2>3 DEF CountInv
  <2> QED BY <1>4, <1>6, <1>7, <2>2, <2>3, <2>4, CountKept
<1> QED BY <1>8, <1>9

LEMMA SettlersKeepCount ==
    ASSUME TypeOK, TypeOK', LeaseInv, CountInv, NEW w \in Workers,
           Ack(w) \/ NackPermanent(w) \/ NackExhausted(w) \/ NackRetry(w)
    PROVE  CountInv'
<1>1. PICK j \in Jobs : j = held[w]
  BY DEF Ack, NackPermanent, NackExhausted, NackRetry, TypeOK, ConsumerTypeOK, Holding
<1>2. /\ UNCHANGED <<crashes, redisErrors>> /\ LetGo(w, "idle")
      /\ SetAttempt(j, snap[w]) \/ attempt' = attempt
      /\ \/ SetStatus(j, "SUCCESS") \/ SetStatus(j, "FAILED") \/ SetStatus(j, "DEAD_LETTER")
         \/ SetStatus(j, "RETRY_WAIT") /\ snap[w] < MaxAttempts /\ SetAttempt(j, snap[w])
      /\ wpc[w] \in Holding \ {"fetch"}
  BY <1>1, LimitsAssumption
  DEF Ack, NackPermanent, NackExhausted, NackRetry, Exhausted, Holding, TypeOK, ConsumerTypeOK
<1>3. /\ \A v \in Workers \ {w} : wpc'[v] = wpc[v] /\ snap'[v] = snap[v] /\ held'[v] = held[v]
      /\ wpc'[w] = "idle" /\ held'[w] = NoJob
  BY <1>2 DEF LetGo, Becomes, TypeOK, ConsumerTypeOK
<1>4. crashes <= crashes' /\ redisErrors <= redisErrors'
  BY <1>2 DEF TypeOK, ConsumerTypeOK
<1>5. \A v \in Workers : wpc'[v] \in Holding \ {"fetch"} => snap'[v] <= Cap
  BY <1>3 DEF CountInv, Holding
<1>6. \A i \in Jobs \ {j} : status'[i] = status[i] /\ attempt'[i] = attempt[i]
  BY <1>2 DEF SetStatus, SetAttempt, TypeOK, RedisTypeOK
<1>7. \A i \in Jobs \ {j} : MayBeTaken(i)' => MayBeTaken(i)
  BY <1>1, <1>3, <1>6 DEF MayBeTaken
<1>8. attempt'[j] <= Cap /\ (MayBeTaken(j)' => attempt'[j] < Cap)
  <2>1. snap[w] \in Nat /\ snap[w] <= Cap /\ attempt[j] <= Cap
    BY <1>2 DEF CountInv, TypeOK, ConsumerTypeOK
  <2>2. CASE SetStatus(j, "RETRY_WAIT") /\ snap[w] < MaxAttempts /\ SetAttempt(j, snap[w])
    <3>1. attempt'[j] = snap[w]
      BY <2>2 DEF SetAttempt, TypeOK, RedisTypeOK
    <3>2. MaxAttempts <= Cap /\ MaxAttempts \in Nat /\ Cap \in Nat
      BY LimitsAssumption DEF Cap, TypeOK, ConsumerTypeOK
    <3> HIDE DEF Cap
    <3> QED BY <2>1, <2>2, <3>1, <3>2
  <2>3. CASE SetStatus(j, "SUCCESS") \/ SetStatus(j, "FAILED") \/ SetStatus(j, "DEAD_LETTER")
    <3>1. ~MayBeTaken(j)'
      BY <2>3 DEF SetStatus, MayBeTaken, TypeOK, RedisTypeOK
    <3>2. attempt'[j] \in {snap[w], attempt[j]}
      BY <1>2 DEF SetAttempt, TypeOK, RedisTypeOK
    <3> QED BY <2>1, <3>1, <3>2
  <2> QED BY <1>2, <2>2, <2>3
<1> QED BY <1>4, <1>5, <1>6, <1>7, <1>8, CountKept

\* Reserving, the scheduler's scripts, clocks.
LEMMA OthersKeepCount ==
    ASSUME TypeOK, TypeOK', LeaseInv, CountInv, UNCHANGED attempt,
           \/ \E w \in Workers : Reserve(w) \/ Restart(w)
           \/ \E j \in Jobs : RunAtPasses(j) \/ LeaseLapses(j)
           \/ PromoteDue \/ ReapExpired \/ SchedulerLoopEnds
    PROVE  CountInv'
<1>1. crashes <= crashes' /\ redisErrors <= redisErrors'
  BY DEF Reserve, Restart, RunAtPasses, LeaseLapses, PromoteDue, ReapExpired,
         SchedulerLoopEnds, consumer, TypeOK, ConsumerTypeOK
<1>2. \A w \in Workers : wpc'[w] \in Holding \ {"fetch"} => snap'[w] <= Cap
  <2>1. \A w \in Workers : \/ wpc'[w] = wpc[w] /\ snap'[w] = snap[w]
                           \/ wpc'[w] \notin Holding \ {"fetch"}
    BY DEF Reserve, Restart, RunAtPasses, LeaseLapses, PromoteDue, ReapExpired,
           SchedulerLoopEnds, consumer, Becomes, LetGo, Holding, TypeOK, ConsumerTypeOK
  <2> QED BY <2>1 DEF CountInv
<1>3. SUFFICES \A i \in Jobs : \/ MayBeTaken(i)' => MayBeTaken(i)
                               \/ attempt[i] < Cap
  <2>1. \A i \in Jobs : attempt[i] <= Cap
    BY DEF CountInv
  <2> QED BY <1>1, <1>2, <1>3, <2>1, CountKept
<1>4. ASSUME NEW w \in Workers, Reserve(w), NEW i \in Jobs PROVE MayBeTaken(i)' => MayBeTaken(i)
  <2>1. PICK p \in Priorities : /\ ready[p] # <<>> /\ SetStatus(Head(ready[p]), "PROCESSING")
                                /\ ready' = [ready EXCEPT ![p] = Tail(@)]
    BY <1>4 DEF Reserve, FirstWaiting
  <2>2. CASE i = Head(ready[p])
    <3>1. InReady(i)
      BY <2>1, <2>2, PopKeepsOnce DEF LeaseInv, TypeOK
    <3> QED BY <3>1 DEF LeaseInv, RecordTells, MayBeTaken
  <2>3. CASE i # Head(ready[p])
    <3>1. status'[i] = status[i]
      BY <2>1, <2>3 DEF SetStatus, TypeOK, RedisTypeOK
    <3>2. \A v \in Workers : held[v] = i => held'[v] = i /\ wpc'[v] = wpc[v]
      BY <1>4, JobsAssumption DEF Reserve, Becomes, Holding, TypeOK, ConsumerTypeOK
    <3> QED BY <3>1, <3>2 DEF MayBeTaken
  <2> QED BY <2>2, <2>3
<1>5. ASSUME PromoteDue \/ ReapExpired, NEW i \in Jobs PROVE MayBeTaken(i)' => MayBeTaken(i)
  <2>1. PICK B \in SUBSET (due \cup lapsed) : SetStatuses(B, "QUEUED") /\ UNCHANGED <<held, wpc>>
    BY <1>5 DEF PromoteDue, ReapExpired, Expired, Batches, consumer
  <2>2. CASE i \in B
    <3>1. \/ status[i] \in {"SCHEDULED", "RETRY_WAIT"}
          \/ status[i] = "PROCESSING" /\ i \in lapsed
      BY <2>1, <2>2 DEF LeaseInv, RecordTells, TypeOK, RedisTypeOK
    <3>2. i \in lapsed => \A w \in Workers : held[w] # i
      BY JobsAssumption DEF LeaseInv, HandLeased
    <3> QED BY <3>1, <3>2 DEF MayBeTaken
  <2>3. CASE i \notin B
    BY <2>1, <2>3 DEF SetStatuses, MayBeTaken
  <2> QED BY <2>2, <2>3
<1>6. ASSUME NEW w \in Workers, Restart(w), NEW i \in Jobs PROVE MayBeTaken(i)' => MayBeTaken(i)
  <2>1. \A v \in Workers : held[v] = i => held'[v] = i /\ wpc'[v] = wpc[v]
    BY <1>6, JobsAssumption DEF Restart, Becomes, Holding, TypeOK, ConsumerTypeOK
  <2>2. status' = status
    BY <1>6 DEF Restart, redis
  <2> QED BY <2>1, <2>2 DEF MayBeTaken
<1>7. ASSUME UNCHANGED <<status, held, wpc>>, NEW i \in Jobs PROVE MayBeTaken(i)' => MayBeTaken(i)
  BY <1>7 DEF MayBeTaken
<1> QED BY <1>4, <1>5, <1>6, <1>7
    DEF RunAtPasses, LeaseLapses, SchedulerLoopEnds, redis, consumer

\* A worker that is gone may have counted for nothing; the cap grows by one.
LEMMA LossKeepsCount ==
    ASSUME TypeOK, TypeOK', CountInv, NEW w \in Workers, Crash(w) \/ WorkerLoopEnds(w)
    PROVE  CountInv'
<1>1. attempt \in [Jobs -> Nat] /\ Cap \in Nat /\ Cap' = Cap + 1 /\ attempt' = attempt
  <2>1. /\ MaxAttempts \in Nat /\ crashes \in Nat /\ redisErrors \in Nat
        /\ attempt \in [Jobs -> Nat]
    BY LimitsAssumption, ConsumerAssumption DEF TypeOK, RedisTypeOK, ConsumerTypeOK
  <2>2. \/ crashes' = crashes + 1 /\ redisErrors' = redisErrors
        \/ crashes' = crashes /\ redisErrors' = redisErrors + 1
    BY DEF Crash, WorkerLoopEnds
  <2>3. attempt' = attempt
    BY DEF Crash, WorkerLoopEnds, redis
  <2> QED BY <2>1, <2>2, <2>3 DEF Cap
<1>2. ASSUME NEW i \in Jobs PROVE attempt'[i] <= Cap' /\ attempt'[i] < Cap'
  <2>1. attempt[i] <= Cap
    BY DEF CountInv
  <2> HIDE DEF Cap
  <2> QED BY <1>1, <2>1
<1>3. ASSUME NEW v \in Workers, wpc'[v] \in Holding \ {"fetch"} PROVE snap'[v] <= Cap'
  <2>1. snap'[v] = snap[v] /\ wpc'[v] = wpc[v]
    BY <1>3 DEF Crash, WorkerLoopEnds, LetGo, Becomes, Holding, TypeOK, ConsumerTypeOK
  <2>2. snap[v] \in Nat /\ snap[v] <= Cap
    BY <1>3, <2>1 DEF CountInv, TypeOK, ConsumerTypeOK
  <2> HIDE DEF Cap
  <2> QED BY <1>1, <2>1, <2>2
<1> QED BY <1>2, <1>3 DEF CountInv, Holding

LEMMA CountInvHolds ==
    ASSUME Disciplined
    PROVE  Spec => []CountInv
<1>1. Init => CountInv
  BY LimitsAssumption, JobsAssumption
  DEF Init, RedisInit, ConsumerInit, CountInv, MayBeTaken, Cap, Holding
<1>2. TypeOK /\ TypeOK' /\ LeaseInv /\ CountInv /\ [Next]_vars => CountInv'
  <2> SUFFICES ASSUME TypeOK, TypeOK', LeaseInv, CountInv, [Next]_vars PROVE CountInv'
    OBVIOUS
  <2>1. CASE UNCHANGED vars
    BY <2>1 DEF vars, redis, consumer, CountInv, MayBeTaken, Cap
  <2>2. CASE ClientNext /\ UNCHANGED consumer
    BY <2>2, ClientsKeepCount
  <2>3. CASE ConsumerNext
    <3>1. ASSUME UNCHANGED attempt,
                 \/ \E w \in Workers : Reserve(w) \/ Restart(w)
                 \/ \E j \in Jobs : RunAtPasses(j) \/ LeaseLapses(j)
                 \/ PromoteDue \/ ReapExpired \/ SchedulerLoopEnds
          PROVE  CountInv'
      BY <3>1, OthersKeepCount
    <3> QED BY <2>3, <3>1, WorkersKeepCount, SettlersKeepCount, LossKeepsCount
        DEF ConsumerNext, WorkerStep, Reserve, Restart, RunAtPasses, LeaseLapses, PromoteDue, ReapExpired, SchedulerLoopEnds, redis
  <2> QED BY <2>1, <2>2, <2>3 DEF Next
<1> QED BY <1>1, <1>2, TypeCorrect, LeaseInvHolds, PTL DEF Spec

\* The attempt limit bounds a job's attempts but for one more per worker that was lost
\* while it held a job.
THEOREM AttemptsStayBounded ==
    ASSUME Disciplined
    PROVE  Spec => []AttemptsBounded
<1>1. CountInv => AttemptsBounded
  BY DEF CountInv, Cap, AttemptsBounded
<1> QED BY <1>1, CountInvHolds, PTL

-----------------------------------------------------------------------------
(***************************************************************************)
(* The contract.  Every step of the queue is a step of JobContract or      *)
(* leaves its two variables alone.                                         *)
(***************************************************************************)

\* Where a job is for the contract depends on its record and on its holder.
StateOf(s, taken) ==
    CASE s = "NONE" -> "absent"
      [] s \in {"SCHEDULED", "QUEUED", "RETRY_WAIT"} -> "waiting"
      [] s = "PROCESSING" -> IF taken THEN "working" ELSE "orphaned"
      [] s = "SUCCESS" -> "done"
      [] s = "FAILED" -> "failed"
      [] s = "DEAD_LETTER" -> "dead"

LEMMA AbstractStateIs ==
    AbstractState = [j \in Jobs |-> StateOf(status[j], Held(j))]
BY DEF AbstractState, StateOf, Held

LEMMA ChosenHolder ==
    ASSUME NEW h, NEW j, NEW w \in Workers, h[w] = j, \A v \in Workers : h[v] = j => v = w
    PROVE  (CHOOSE v \in Workers : h[v] = j) = w
OBVIOUS

\* The contract's `by` of a job that is held, or is not.
LEMMA HolderIsBy ==
    ASSUME LeaseInv, NEW j \in Jobs
    PROVE  /\ \A w \in Workers : held[w] = j => AbstractBy[j] = w
           /\ ~Held(j) => AbstractBy[j] = NoJob
<1>1. ASSUME NEW w \in Workers, held[w] = j PROVE AbstractBy[j] = w
  <2>1. \A v \in Workers : held[v] = j => v = w
    BY <1>1, JobsAssumption DEF LeaseInv, SingleHolder
  <2> QED BY <1>1, <2>1, ChosenHolder DEF AbstractBy
<1> QED BY <1>1 DEF AbstractBy, Held

LEMMA HolderIsByNext ==
    ASSUME LeaseInv', NEW j \in Jobs
    PROVE  /\ \A w \in Workers : held'[w] = j => AbstractBy'[j] = w
           /\ ~Held(j)' => AbstractBy'[j] = NoJob
<1>1. ASSUME NEW w \in Workers, held'[w] = j PROVE AbstractBy'[j] = w
  <2>1. \A v \in Workers : held'[v] = j => v = w
    BY <1>1, JobsAssumption DEF LeaseInv, SingleHolder
  <2>2. (CHOOSE v \in Workers : held'[v] = j) = w
    BY <1>1, <2>1, ChosenHolder
  <2> QED BY <1>1, <2>2 DEF AbstractBy
<1> QED BY <1>1 DEF AbstractBy, Held

LEMMA ExceptIs ==
    ASSUME NEW S, NEW f, NEW g, f = [x \in S |-> f[x]], g = [x \in S |-> g[x]], NEW y \in S,
           \A x \in S \ {y} : g[x] = f[x]
    PROVE  g = [f EXCEPT ![y] = g[y]]
OBVIOUS

\* A step that changes the record or the holder of `j` alone.
LEMMA OneJobMoves ==
    ASSUME LeaseInv, LeaseInv', NEW j \in Jobs,
           \A i \in Jobs \ {j} : /\ status'[i] = status[i]
                                 /\ \A w \in Workers : held'[w] = i <=> held[w] = i
    PROVE  /\ AbstractState' = [AbstractState EXCEPT ![j] = StateOf(status'[j], Held(j)')]
           /\ AbstractBy' = [AbstractBy EXCEPT ![j] = AbstractBy'[j]]
<1>1. ASSUME NEW i \in Jobs \ {j}
      PROVE  (Held(i)' <=> Held(i)) /\ AbstractBy'[i] = AbstractBy[i]
  <2>1. Held(i)' <=> Held(i)
    BY DEF Held
  <2>2. CASE Held(i)
    <3>1. PICK w \in Workers : held[w] = i /\ held'[w] = i
      BY <2>2 DEF Held
    <3> QED BY <2>1, <3>1, HolderIsBy, HolderIsByNext
  <2>3. CASE ~Held(i)
    BY <2>1, <2>3, HolderIsBy, HolderIsByNext
  <2> QED BY <2>1, <2>2, <2>3
<1>2. AbstractState' = [i \in Jobs |-> StateOf(status'[i], Held(i)')]
  BY DEF AbstractState, StateOf, Held
<1>3. AbstractState = [i \in Jobs |-> StateOf(status[i], Held(i))]
  BY AbstractStateIs
<1>4. /\ AbstractBy = [i \in Jobs |-> AbstractBy[i]]
      /\ AbstractBy' = [i \in Jobs |-> AbstractBy'[i]]
  BY DEF AbstractBy
<1>5. AbstractBy' = [AbstractBy EXCEPT ![j] = AbstractBy'[j]]
  BY <1>1, <1>4, ExceptIs
<1>6. /\ AbstractState = [i \in Jobs |-> AbstractState[i]]
      /\ AbstractState' = [i \in Jobs |-> AbstractState'[i]]
      /\ AbstractState'[j] = StateOf(status'[j], Held(j)')
      /\ \A i \in Jobs \ {j} : AbstractState'[i] = AbstractState[i]
  <2>1. ASSUME NEW i \in Jobs \ {j} PROVE AbstractState'[i] = AbstractState[i]
    <3>1. AbstractState'[i] = StateOf(status'[i], Held(i)')
      BY <1>2
    <3>2. AbstractState[i] = StateOf(status[i], Held(i))
      BY <1>3
    <3> QED BY <1>1, <3>1, <3>2 DEF StateOf
  <2>2. AbstractState'[j] = StateOf(status'[j], Held(j)')
    BY <1>2
  <2>3. /\ AbstractState = [i \in Jobs |-> AbstractState[i]]
        /\ AbstractState' = [i \in Jobs |-> AbstractState'[i]]
    BY <1>2, <1>3
  <2> QED BY <2>1, <2>2, <2>3
<1>7. AbstractState' = [AbstractState EXCEPT ![j] = AbstractState'[j]]
  BY <1>6, ExceptIs
<1> QED BY <1>5, <1>6, <1>7

LEMMA SameHolders ==
    ASSUME held' = held
    PROVE  AbstractBy' = AbstractBy /\ \A j \in Jobs : Held(j)' <=> Held(j)
BY DEF AbstractBy, Held

LEMMA ContractStutters ==
    ASSUME status' = status, held' = held
    PROVE  UNCHANGED Contract!contract
BY DEF AbstractState, AbstractBy, Contract!contract

\* A command that writes a record and leaves the workers' hands alone.
LEMMA RecordMoves ==
    ASSUME TypeOK, LeaseInv, LeaseInv', held' = held, NEW j \in Jobs, NEW s \in Status, SetStatus(j, s)
    PROVE  /\ AbstractState[j] = StateOf(status[j], Held(j))
           /\ AbstractState' = [AbstractState EXCEPT ![j] = StateOf(s, Held(j))]
           /\ AbstractBy' = AbstractBy
<1>1. status'[j] = s /\ \A i \in Jobs \ {j} : status'[i] = status[i]
  BY DEF SetStatus, TypeOK, RedisTypeOK
<1>2. AbstractState' = [AbstractState EXCEPT ![j] = StateOf(status'[j], Held(j)')]
  BY <1>1, OneJobMoves
<1>3. StateOf(status'[j], Held(j)') = StateOf(s, Held(j))
  BY <1>1, SameHolders DEF StateOf
<1>4. AbstractState[j] = StateOf(status[j], Held(j))
  BY AbstractStateIs
<1> QED BY <1>2, <1>3, <1>4, SameHolders

LEMMA ClientsKeepContract ==
    ASSUME TypeOK, LeaseInv, LeaseInv', ClientNext, UNCHANGED consumer
    PROVE  Contract!Next \/ UNCHANGED Contract!contract
<1>1. held' = held
  BY DEF consumer
<1>2. ASSUME NEW c \in Clients, PushDue(c) \/ PushLater(c) \/ NodeWriteHash(c)
      PROVE  Contract!Next
  <2>1. PICK j \in Jobs : j = cjob[c]
    BY <1>2 DEF PushDue, PushLater, NodeWriteHash, TypeOK, ClientTypeOK
  <2>2. PICK s \in {"QUEUED", "SCHEDULED"} : SetStatus(j, s)
    BY <1>2, <2>1 DEF PushDue, PushLater, NodeWriteHash
  <2>3. status[j] = "NONE"
    BY <1>2, <2>1 DEF PushDue, PushLater, NodeWriteHash, LeaseInv, ClientTells
  <2>4. /\ AbstractState[j] = "absent" /\ AbstractBy' = AbstractBy
        /\ AbstractState' = [AbstractState EXCEPT ![j] = "waiting"]
    BY <1>1, <2>2, <2>3, RecordMoves DEF StateOf, Status
  <2> QED BY <2>4 DEF Contract!Next, Contract!Submit, Contract!Moves
<1>3. ASSUME NEW c \in Clients, Requeue(c) \/ NodeReset(c)
      PROVE  Contract!Next
  <2>1. PICK j \in Jobs : j = cjob[c] /\ SetStatus(j, "QUEUED")
    BY <1>3 DEF Requeue, NodeReset, TypeOK, ClientTypeOK
  <2>2. status[j] = "DEAD_LETTER"
    BY <1>3, <2>1 DEF Requeue, NodeReset, LeaseInv, ClientTells, RecordTells
  <2>3. /\ AbstractState[j] = "dead" /\ AbstractBy' = AbstractBy
        /\ AbstractState' = [AbstractState EXCEPT ![j] = "waiting"]
    BY <1>1, <2>1, <2>2, RecordMoves DEF StateOf, Status
  <2> QED BY <2>3 DEF Contract!Next, Contract!Revive, Contract!Moves
<1>4. CASE status' = status
  BY <1>1, <1>4, ContractStutters
<1> QED BY <1>2, <1>3, <1>4
    DEF ClientNext, ClientStep, redis, ExpireKey, LookupOwner, ReturnOriginal, OwnerMissing,
        NodeLinkReady, NodeLinkScheduled, NodeRemove, NodeRepush, ClientDies, EnqueueUnkeyed,
        ClaimKey, KeyTaken, StartEnqueue, StartRequeue

LEMMA ReserveKeepsContract ==
    ASSUME TypeOK, LeaseInv, LeaseInv', NEW w \in Workers, Reserve(w)
    PROVE  Contract!Next
<1>1. PICK p \in Priorities : /\ ready[p] # <<>> /\ SetStatus(Head(ready[p]), "PROCESSING")
                              /\ ready' = [ready EXCEPT ![p] = Tail(@)]
                              /\ held' = [held EXCEPT ![w] = Head(ready[p])]
  BY DEF Reserve, FirstWaiting
<1>2. PICK j \in Jobs : j = Head(ready[p])
  BY <1>1, PopFacts DEF TypeOK
<1>3. status[j] = "QUEUED" /\ j \notin processing
  <2>1. InReady(j)
    BY <1>1, <1>2, PopKeepsOnce DEF LeaseInv, TypeOK
  <2> QED BY <2>1 DEF LeaseInv, RecordTells
<1>4. /\ held[w] = NoJob /\ held'[w] = j /\ \A v \in Workers \ {w} : held'[v] = held[v]
      /\ status'[j] = "PROCESSING" /\ \A i \in Jobs \ {j} : status'[i] = status[i]
  BY <1>1, <1>2 DEF Reserve, SetStatus, Holding, TypeOK, RedisTypeOK, ConsumerTypeOK
<1>5. \A i \in Jobs \ {j} : \A v \in Workers : held'[v] = i <=> held[v] = i
  BY <1>4, JobsAssumption
<1>6. Held(j)' /\ AbstractBy'[j] = w
  BY <1>4, HolderIsByNext DEF Held
<1>7. /\ AbstractState' = [AbstractState EXCEPT ![j] = "working"]
      /\ AbstractBy' = [AbstractBy EXCEPT ![j] = w]
  BY <1>4, <1>5, <1>6, OneJobMoves DEF StateOf
<1>8. AbstractState[j] = "waiting"
  BY <1>3, AbstractStateIs DEF StateOf
<1>9. ASSUME NEW i \in Jobs PROVE AbstractBy[i] # w
  <2>1. CASE Held(i)
    <3>1. PICK v \in Workers : held[v] = i
      BY <2>1 DEF Held
    <3>2. v # w
      BY <1>4, <3>1, JobsAssumption
    <3> QED BY <3>1, <3>2, HolderIsBy
  <2>2. CASE ~Held(i)
    BY <2>2, HolderIsBy, WorkersAssumption
  <2> QED BY <2>1, <2>2
<1> QED BY <1>7, <1>8, <1>9 DEF Contract!Next, Contract!Take, Contract!Moves

\* A worker lets go of its job: it settles it, puts it back, or is gone.
LEMMA LetGoKeepsContract ==
    ASSUME TypeOK, LeaseInv, LeaseInv', NEW w \in Workers, NEW j \in Jobs, held[w] = j,
           held' = [held EXCEPT ![w] = NoJob],
           status' = status \/ \E s \in {"SUCCESS", "FAILED", "DEAD_LETTER", "RETRY_WAIT"} : SetStatus(j, s)
    PROVE  Contract!Next
<1>1. status[j] = "PROCESSING" /\ Held(j) /\ \A v \in Workers : held[v] = j => v = w
  BY HolderFacts DEF Held
<1>2. /\ \A i \in Jobs \ {j} : status'[i] = status[i]
      /\ status'[j] \in {"PROCESSING", "SUCCESS", "FAILED", "DEAD_LETTER", "RETRY_WAIT"}
  BY <1>1 DEF SetStatus, TypeOK, RedisTypeOK
<1>3. held'[w] = NoJob /\ \A v \in Workers \ {w} : held'[v] = held[v]
  BY DEF TypeOK, ConsumerTypeOK
<1>4. ~Held(j)' /\ \A i \in Jobs \ {j} : \A v \in Workers : held'[v] = i <=> held[v] = i
  BY <1>1, <1>3, JobsAssumption DEF Held
<1>5. AbstractBy'[j] = NoJob
  BY <1>4, HolderIsByNext
<1>6. /\ AbstractState' = [AbstractState EXCEPT ![j] = StateOf(status'[j], FALSE)]
      /\ AbstractBy' = [AbstractBy EXCEPT ![j] = NoJob]
  <2>1. AbstractState' = [AbstractState EXCEPT ![j] = StateOf(status'[j], Held(j)')]
    BY <1>2, <1>4, OneJobMoves
  <2>2. AbstractBy' = [AbstractBy EXCEPT ![j] = AbstractBy'[j]]
    BY <1>2, <1>4, OneJobMoves
  <2>3. StateOf(status'[j], Held(j)') = StateOf(status'[j], FALSE)
    BY <1>4 DEF StateOf
  <2> QED BY <1>5, <2>1, <2>2, <2>3
<1>7. AbstractState[j] = "working"
  BY <1>1, AbstractStateIs DEF StateOf
<1>8. CASE status'[j] = "PROCESSING"
  <2>1. AbstractState' = [AbstractState EXCEPT ![j] = "orphaned"]
    BY <1>6, <1>8 DEF StateOf
  <2> QED BY <1>6, <1>7, <2>1 DEF Contract!Next, Contract!Lose, Contract!Moves
<1>9. CASE status'[j] # "PROCESSING"
  <2>1. PICK to \in {"done", "failed", "dead", "waiting"} :
          AbstractState' = [AbstractState EXCEPT ![j] = to]
    BY <1>2, <1>6, <1>9 DEF StateOf
  <2> QED BY <1>6, <1>7, <2>1 DEF Contract!Next, Contract!Release, Contract!Moves
<1> QED BY <1>8, <1>9

LEMMA PromoteKeepsContract ==
    ASSUME TypeOK, LeaseInv, PromoteDue
    PROVE  UNCHANGED Contract!contract
<1>1. PICK B \in SUBSET due : SetStatuses(B, "QUEUED") /\ held' = held
  BY DEF PromoteDue, Batches, consumer
<1>2. AbstractBy' = AbstractBy /\ \A j \in Jobs : Held(j)' <=> Held(j)
  BY <1>1, SameHolders
<1>3. ASSUME NEW j \in Jobs PROVE StateOf(status'[j], Held(j)') = StateOf(status[j], Held(j))
  <2>1. CASE j \in B
    <3>1. j \in scheduled
      BY <2>1 DEF TypeOK, RedisTypeOK
    <3>2. status[j] \in {"SCHEDULED", "RETRY_WAIT"}
      BY <3>1 DEF LeaseInv, RecordTells
    <3>3. status'[j] = "QUEUED"
      BY <1>1, <2>1 DEF SetStatuses
    <3> QED BY <3>2, <3>3 DEF StateOf
  <2>2. CASE j \notin B
    <3>1. status'[j] = status[j]
      BY <1>1, <2>2 DEF SetStatuses
    <3> QED BY <1>2, <3>1 DEF StateOf
  <2> QED BY <2>1, <2>2
<1>4. AbstractState' = [i \in Jobs |-> StateOf(status'[i], Held(i)')]
  BY DEF AbstractState, StateOf, Held
<1>5. AbstractState' = AbstractState
  BY <1>3, <1>4, AbstractStateIs
<1> QED BY <1>2, <1>5 DEF Contract!contract

LEMMA ReapKeepsContract ==
    ASSUME TypeOK, LeaseInv, ReapExpired
    PROVE  Contract!Next
<1>1. PICK B \in SUBSET lapsed : SetStatuses(B, "QUEUED") /\ held' = held
  BY DEF ReapExpired, Expired, Batches, consumer
<1>2. AbstractBy' = AbstractBy /\ \A j \in Jobs : Held(j)' <=> Held(j)
  BY <1>1, SameHolders
<1>3. ASSUME NEW j \in B
      PROVE  j \in Jobs /\ AbstractState[j] = "orphaned" /\ StateOf(status'[j], Held(j)') = "waiting"
  <2>1. j \in processing /\ j \in Jobs
    BY DEF TypeOK, RedisTypeOK
  <2>2. status[j] = "PROCESSING"
    BY <2>1 DEF LeaseInv, RecordTells
  <2>3. ~Held(j)
    BY <2>1, JobsAssumption DEF LeaseInv, HandLeased, Held
  <2>4. status'[j] = "QUEUED"
    BY <1>1, <2>1 DEF SetStatuses
  <2> QED BY <2>1, <2>2, <2>3, <2>4, AbstractStateIs DEF StateOf
<1>4. ASSUME NEW j \in Jobs \ B PROVE StateOf(status'[j], Held(j)') = AbstractState[j]
  <2>1. status'[j] = status[j]
    BY <1>1 DEF SetStatuses
  <2>2. AbstractState[j] = StateOf(status[j], Held(j))
    BY AbstractStateIs
  <2> QED BY <1>2, <2>1, <2>2 DEF StateOf
<1>5. AbstractState' = [i \in Jobs |-> StateOf(status'[i], Held(i)')]
  BY DEF AbstractState, StateOf, Held
<1>6. AbstractState' = [i \in Jobs |-> IF i \in B THEN "waiting" ELSE AbstractState[i]]
  BY <1>3, <1>4, <1>5
<1>7. B \in SUBSET {i \in Jobs : AbstractState[i] = "orphaned"}
  BY <1>3
<1>8. Contract!RecoverSome
  BY <1>2, <1>6, <1>7 DEF Contract!RecoverSome
<1> QED BY <1>8 DEF Contract!Next

LEMMA ConsumersKeepContract ==
    ASSUME TypeOK, LeaseInv, LeaseInv', ConsumerNext
    PROVE  Contract!Next \/ UNCHANGED Contract!contract
<1>1. ASSUME NEW w \in Workers, Ack(w) \/ NackPermanent(w) \/ NackExhausted(w) \/ NackRetry(w)
      PROVE  Contract!Next
  <2>1. PICK j \in Jobs : held[w] = j
    BY <1>1 DEF Ack, NackPermanent, NackExhausted, NackRetry, TypeOK, ConsumerTypeOK, Holding
  <2>2. /\ held' = [held EXCEPT ![w] = NoJob]
        /\ \E s \in {"SUCCESS", "FAILED", "DEAD_LETTER", "RETRY_WAIT"} : SetStatus(j, s)
    BY <1>1, <2>1 DEF Ack, NackPermanent, NackExhausted, NackRetry, LetGo
  <2> QED BY <2>1, <2>2, LetGoKeepsContract
<1>2. ASSUME NEW w \in Workers, Crash(w) \/ WorkerLoopEnds(w)
      PROVE  Contract!Next \/ UNCHANGED Contract!contract
  <2>1. held' = [held EXCEPT ![w] = NoJob] /\ status' = status
    BY <1>2 DEF Crash, WorkerLoopEnds, LetGo, redis
  <2>2. CASE held[w] = NoJob
    <3>1. held' = held
      BY <2>1, <2>2 DEF TypeOK, ConsumerTypeOK
    <3> QED BY <2>1, <3>1, ContractStutters
  <2>3. CASE held[w] # NoJob
    <3>1. PICK j \in Jobs : held[w] = j
      BY <2>3 DEF TypeOK, ConsumerTypeOK
    <3> QED BY <2>1, <3>1, LetGoKeepsContract
  <2> QED BY <2>2, <2>3
<1>3. CASE UNCHANGED <<status, held>>
  BY <1>3, ContractStutters
<1> QED BY <1>1, <1>2, <1>3, ReserveKeepsContract, PromoteKeepsContract, ReapKeepsContract
    DEF ConsumerNext, WorkerStep, FetchJob, CountAttempt, RunHandler, Restart, RunAtPasses,
        LeaseLapses, SchedulerLoopEnds, redis, consumer

\* The queue does to its jobs only what JobContract says: one worker at a time takes a waiting
\* job, only that worker settles it or puts it back, a job whose worker is gone is recovered.
THEOREM QueueKeepsContract ==
    ASSUME Disciplined
    PROVE  Spec => KeepsContract
<1>1. Init => Contract!Init
  <2> SUFFICES ASSUME Init PROVE Contract!Init
    OBVIOUS
  <2>1. \A j \in Jobs : status[j] = "NONE" /\ ~Held(j)
    BY JobsAssumption DEF Init, RedisInit, ConsumerInit, Held
  <2>2. AbstractState = [j \in Jobs |-> "absent"]
    BY <2>1, AbstractStateIs DEF StateOf
  <2>3. AbstractBy = [j \in Jobs |-> NoJob]
    BY <2>1 DEF AbstractBy, Held
  <2> QED BY <2>2, <2>3 DEF Contract!Init
<1>2. TypeOK /\ LeaseInv /\ LeaseInv' /\ [Next]_vars => [Contract!Next]_(Contract!contract)
  <2> SUFFICES ASSUME TypeOK, LeaseInv, LeaseInv', [Next]_vars
               PROVE  Contract!Next \/ UNCHANGED Contract!contract
    OBVIOUS
  <2>1. CASE UNCHANGED vars
    BY <2>1, ContractStutters DEF vars, redis, consumer
  <2> QED BY <2>1, ClientsKeepContract, ConsumersKeepContract DEF Next
<1> QED BY <1>1, <1>2, TypeCorrect, LeaseInvHolds, PTL DEF Spec, KeepsContract, Contract!Spec
=============================================================================
