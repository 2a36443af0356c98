----------------------------- MODULE QueueClient ------------------------------
(***************************************************************************)
(* The producers and operators of the queue: QueueClient in                *)
(* packages/queue-py (used by the AI service) and its TypeScript subset in *)
(* services/api/src/lib/queue.ts.  Both take the same round trips; they    *)
(* differ in the last one.  redis-py's pipeline is a MULTI/EXEC            *)
(* transaction, ioredis's `pipeline()` is not, so a Node client's commands *)
(* are steps of their own that others may come between, and a broken       *)
(* connection can cut them short.                                          *)
(***************************************************************************)
EXTENDS QueueState

CONSTANTS
    Clients,            \* requests in flight, each enqueueing or requeueing
    NodeClients,        \* those served by the Node API
    KeysExpire,         \* whether a key's 24 hours may pass
    OnlyDeadLetters,    \* whether operators retry only what the DLQ lists
    MaxRequeues         \* bound: operator retries in a behaviour

ASSUME ClientsAssumption ==
    /\ NodeClients \subseteq Clients
    /\ KeysExpire \in BOOLEAN /\ OnlyDeadLetters \in BOOLEAN
    /\ MaxRequeues \in Nat

VARIABLES
    cpc,            \* what a client does next
    cjob,           \* the job it is building, or requeueing
    found,          \* the id its GET of the key returned
    original,       \* history: the stored job its SET NX lost to
    drawn,          \* ids uuid4 has handed out
    torn,           \* history: jobs whose Node pipeline was cut short
    requeues        \* operator retries so far

client == <<cpc, cjob, found, original, drawn, torn, requeues>>

ClientPcs == {"idle", "lookup", "fetch", "push", "linkReady", "linkScheduled",
              "requeue", "reset", "repush"}

ClientTypeOK ==
    /\ cpc \in [Clients -> ClientPcs]
    /\ cjob \in [Clients -> Jobs \cup {NoJob}]
    /\ \A c \in Clients :
         /\ cpc[c] = "idle" <=> cjob[c] = NoJob
         /\ cpc[c] \in {"lookup", "fetch"} => KeyOf[cjob[c]] \in Keys
    /\ found \in [Clients -> Jobs \cup {NoJob}]
    /\ original \in [Clients -> Jobs \cup {NoJob}]
    /\ drawn \subseteq Jobs /\ torn \subseteq Jobs
    /\ requeues \in 0..MaxRequeues

ClientInit ==
    /\ cpc = [c \in Clients |-> "idle"]
    /\ cjob = [c \in Clients |-> NoJob]
    /\ found = [c \in Clients |-> NoJob]
    /\ original = [c \in Clients |-> NoJob]
    /\ drawn = {} /\ torn = {}
    /\ requeues = 0

Goto(c, pc) == cpc' = [cpc EXCEPT ![c] = pc]

\* The request is over, and its locals are gone.
Finish(c) ==
    /\ Goto(c, "idle")
    /\ cjob' = [cjob EXCEPT ![c] = NoJob]
    /\ found' = [found EXCEPT ![c] = NoJob]
    /\ original' = [original EXCEPT ![c] = NoJob]

-----------------------------------------------------------------------------
(* enqueue *)

StartEnqueue(c, j) ==
    /\ cpc[c] = "idle" /\ j \notin drawn
    /\ drawn' = drawn \cup {j}
    /\ cjob' = [cjob EXCEPT ![c] = j]
    /\ UNCHANGED <<found, torn, requeues, ready, scheduled, due, processing,
                   lapsed, dlq, status, attempt>>

EnqueueUnkeyed(c, j) ==
    /\ KeyOf[j] = NoKey
    /\ StartEnqueue(c, j)
    /\ Goto(c, "push")
    /\ UNCHANGED <<original, idem>>

\* SET NX succeeds: this client owns the key.
ClaimKey(c, j) ==
    /\ KeyOf[j] # NoKey /\ idem[KeyOf[j]] = NoJob
    /\ StartEnqueue(c, j)
    /\ idem' = [idem EXCEPT ![KeyOf[j]] = j]
    /\ Goto(c, "push")
    /\ UNCHANGED original

\* SET NX fails: someone else does.
KeyTaken(c, j) ==
    /\ KeyOf[j] # NoKey /\ idem[KeyOf[j]] # NoJob
    /\ StartEnqueue(c, j)
    /\ original' = [original EXCEPT ![c] = IF Stored(idem[KeyOf[j]])
                                             THEN idem[KeyOf[j]] ELSE NoJob]
    /\ Goto(c, "lookup")
    /\ UNCHANGED idem

\* GET of the key, which may have expired since.
LookupOwner(c) ==
    /\ cpc[c] = "lookup"
    /\ found' = [found EXCEPT ![c] = idem[KeyOf[cjob[c]]]]
    /\ Goto(c, IF idem[KeyOf[cjob[c]]] = NoJob THEN "push" ELSE "fetch")
    /\ UNCHANGED <<redis, cjob, original, drawn, torn, requeues>>

ReturnOriginal(c) ==
    /\ cpc[c] = "fetch" /\ Stored(found[c])
    /\ Finish(c)
    /\ UNCHANGED <<redis, drawn, torn, requeues>>

\* Mutated form: the lookup's answer is ignored.
AlwaysMissing(c) ==
    /\ cpc[c] = "fetch"
    /\ Goto(c, "push")
    /\ UNCHANGED <<redis, cjob, found, original, drawn, torn, requeues>>

\* The owner has no hash (yet, or ever): `enqueue` falls through and creates
\* its own job, under a key that names another.
OwnerMissing(c) ==
    /\ cpc[c] = "fetch" /\ ~Stored(found[c])
    /\ Goto(c, "push")
    /\ UNCHANGED <<redis, cjob, found, original, drawn, torn, requeues>>

PushDue(c) ==
    LET j == cjob[c] IN
    /\ cpc[c] = "push" /\ c \notin NodeClients
    /\ SetStatus(j, "QUEUED") /\ SetAttempt(j, 0) /\ PushReady(j)
    /\ Finish(c)
    /\ UNCHANGED <<scheduled, due, processing, lapsed, dlq, idem, drawn, torn,
                   requeues>>

PushLater(c) ==
    LET j == cjob[c] IN
    /\ cpc[c] = "push" /\ c \notin NodeClients
    /\ SetStatus(j, "SCHEDULED") /\ SetAttempt(j, 0) /\ AddScheduled(j)
    /\ Finish(c)
    /\ UNCHANGED <<ready, processing, lapsed, dlq, idem, drawn, torn, requeues>>

\* Mutated form: the id is listed before its hash is written.
NodeListsFirst(c) ==
    /\ cpc[c] = "push" /\ c \in NodeClients
    /\ PushReady(cjob[c]) /\ Goto(c, "linkReady")
    /\ UNCHANGED <<scheduled, due, processing, lapsed, dlq, status, attempt, idem,
                   cjob, found, original, drawn, torn, requeues>>

\* The Node pipeline: HSET, then RPUSH or ZADD.
NodeWriteHash(c) ==
    /\ cpc[c] = "push" /\ c \in NodeClients
    /\ \/ SetStatus(cjob[c], "QUEUED") /\ Goto(c, "linkReady")
       \/ SetStatus(cjob[c], "SCHEDULED") /\ Goto(c, "linkScheduled")
    /\ SetAttempt(cjob[c], 0)
    /\ UNCHANGED <<ready, scheduled, due, processing, lapsed, dlq, idem, cjob,
                   found, original, drawn, torn, requeues>>

NodeLinkReady(c) ==
    /\ cpc[c] = "linkReady"
    /\ PushReady(cjob[c])
    /\ Finish(c)
    /\ UNCHANGED <<scheduled, due, processing, lapsed, dlq, status, attempt,
                   idem, drawn, torn, requeues>>

NodeLinkScheduled(c) ==
    /\ cpc[c] = "linkScheduled"
    /\ AddScheduled(cjob[c])
    /\ Finish(c)
    /\ UNCHANGED <<ready, processing, lapsed, dlq, status, attempt, idem,
                   drawn, torn, requeues>>

-----------------------------------------------------------------------------
(* requeue_dead_letter, requeueDeadLetter *)

\* The read asks only whether the hash exists, not whether the job is in the
\* dead-letter list; OnlyDeadLetters is the operator's discipline, not the code's.
StartRequeue(c, j) ==
    /\ cpc[c] = "idle" /\ requeues < MaxRequeues
    /\ Stored(j)
    /\ OnlyDeadLetters => dlq[j] > 0
    /\ requeues' = requeues + 1
    /\ cjob' = [cjob EXCEPT ![c] = j]
    /\ Goto(c, "requeue")
    /\ UNCHANGED <<redis, found, original, drawn, torn>>

Requeue(c) ==
    LET j == cjob[c] IN
    /\ cpc[c] = "requeue" /\ c \notin NodeClients
    /\ RemoveDeadLetter(j)
    /\ SetStatus(j, "QUEUED") /\ SetAttempt(j, 0) /\ PushReady(j)
    /\ Finish(c)
    /\ UNCHANGED <<scheduled, due, processing, lapsed, idem, drawn, torn, requeues>>

NodeRemove(c) ==
    /\ cpc[c] = "requeue" /\ c \in NodeClients
    /\ RemoveDeadLetter(cjob[c])
    /\ Goto(c, "reset")
    /\ UNCHANGED <<ready, scheduled, due, processing, lapsed, status, attempt,
                   idem, cjob, found, original, drawn, torn, requeues>>

NodeReset(c) ==
    /\ cpc[c] = "reset"
    /\ SetStatus(cjob[c], "QUEUED") /\ SetAttempt(cjob[c], 0)
    /\ Goto(c, "repush")
    /\ UNCHANGED <<ready, scheduled, due, processing, lapsed, dlq, idem, cjob,
                   found, original, drawn, torn, requeues>>

NodeRepush(c) ==
    /\ cpc[c] = "repush"
    /\ PushReady(cjob[c])
    /\ Finish(c)
    /\ UNCHANGED <<scheduled, due, processing, lapsed, dlq, status, attempt,
                   idem, drawn, torn, requeues>>

-----------------------------------------------------------------------------
(* What the environment does to a client and to its keys. *)

\* The process dies, or its connection does, between two commands.
ClientDies(c) ==
    /\ cpc[c] # "idle"
    /\ torn' = IF cpc[c] \in {"linkReady", "linkScheduled", "reset", "repush"}
                 THEN torn \cup {cjob[c]} ELSE torn
    /\ Finish(c)
    /\ UNCHANGED <<redis, drawn, requeues>>

ExpireKey(k) ==
    /\ KeysExpire /\ idem[k] # NoJob
    /\ idem' = [idem EXCEPT ![k] = NoJob]
    /\ UNCHANGED <<ready, scheduled, due, processing, lapsed, dlq, status,
                   attempt, client>>

ClientStep(c) ==
    \/ LookupOwner(c) \/ ReturnOriginal(c) \/ OwnerMissing(c)
    \/ PushDue(c) \/ PushLater(c)
    \/ NodeWriteHash(c) \/ NodeLinkReady(c) \/ NodeLinkScheduled(c)
    \/ Requeue(c) \/ NodeRemove(c) \/ NodeReset(c) \/ NodeRepush(c)

ClientNext ==
    \/ \E c \in Clients :
         \/ ClientStep(c)
         \/ ClientDies(c)
         \/ \E j \in Jobs : \/ EnqueueUnkeyed(c, j) \/ ClaimKey(c, j)
                            \/ KeyTaken(c, j) \/ StartRequeue(c, j)
    \/ \E k \in Keys : ExpireKey(k)
=============================================================================
