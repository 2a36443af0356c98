------------------------------ MODULE QueueState ------------------------------
(***************************************************************************)
(* The state that every speaker of the queue protocol shares: the Redis    *)
(* keys of packages/queue-py/voiceops_queue/keys.py, and the Redis         *)
(* commands and pieces of commands that the clients and consumers are      *)
(* built from.                                                             *)
(*                                                                         *)
(* A job is its id; the fields no operation changes (priority, idempotency *)
(* key, attempt limit) are constants.  Scores of the two sorted sets are   *)
(* epoch seconds, and the code only ever asks whether a score has passed:  *)
(* `due` and `lapsed` are the members whose score has.                     *)
(***************************************************************************)
EXTENDS Naturals, Sequences, FiniteSets

CONSTANTS
    Jobs,           \* the job ids that uuid4 can draw
    NoJob,          \* no job: a missing key, an empty hand
    Keys,           \* idempotency keys
    NoKey,          \* a job enqueued without one
    KeyOf,          \* [Jobs -> Keys \cup {NoKey}]
    PriorityOf,     \* [Jobs -> Priorities]
    MaxAttempts,    \* Job.max_attempts
    BatchLimit      \* the LIMIT of the promote and reap scripts: 500

PRIORITY_ORDER == <<"HIGH", "MEDIUM", "LOW">>

Priorities == {"HIGH", "MEDIUM", "LOW"}

Status == {"SCHEDULED", "QUEUED", "PROCESSING", "SUCCESS", "FAILED",
           "RETRY_WAIT", "DEAD_LETTER"}

ASSUME JobsAssumption == IsFiniteSet(Jobs) /\ NoJob \notin Jobs
ASSUME KeysAssumption == NoKey \notin Keys /\ KeyOf \in [Jobs -> Keys \cup {NoKey}]
ASSUME PriorityAssumption == PriorityOf \in [Jobs -> Priorities]
ASSUME LimitsAssumption == MaxAttempts \in Nat \ {0} /\ BatchLimit \in Nat \ {0}

VARIABLES
    ready,          \* {ns}:ready:{priority}, a list of job ids each
    scheduled,      \* {ns}:scheduled, the ids waiting for their run_at
    due,            \* the scheduled ids whose run_at has passed
    processing,     \* {ns}:processing, the ids under lease
    lapsed,         \* the processing ids whose lease deadline has passed
    dlq,            \* {ns}:dlq, how many copies of an id the list holds
    status,         \* the hash's status, "NONE" while there is no hash
    attempt,        \* the hash's attempt
    idem            \* {ns}:idem:{key}, the job that owns a key

redis == <<ready, scheduled, due, processing, lapsed, dlq, status, attempt, idem>>

RedisTypeOK ==
    /\ ready \in [Priorities -> Seq(Jobs)]
    /\ scheduled \subseteq Jobs /\ due \subseteq scheduled
    /\ processing \subseteq Jobs /\ lapsed \subseteq processing
    /\ dlq \in [Jobs -> Nat]
    /\ status \in [Jobs -> Status \cup {"NONE"}]
    /\ attempt \in [Jobs -> Nat]
    /\ idem \in [Keys -> Jobs \cup {NoJob}]

RedisInit ==
    /\ ready = [p \in Priorities |-> <<>>]
    /\ scheduled = {} /\ due = {}
    /\ processing = {} /\ lapsed = {}
    /\ dlq = [j \in Jobs |-> 0]
    /\ status = [j \in Jobs |-> "NONE"]
    /\ attempt = [j \in Jobs |-> 0]
    /\ idem = [k \in Keys |-> NoJob]

-----------------------------------------------------------------------------
(* Reading the state. *)

Stored(j) == status[j] # "NONE"

InReady(j) == \E p \in Priorities : \E i \in DOMAIN ready[p] : ready[p][i] = j

Settled(j) == status[j] \in {"SUCCESS", "FAILED", "DEAD_LETTER"}

-----------------------------------------------------------------------------
(* Commands. *)

SetStatus(j, s) == status' = [status EXCEPT ![j] = s]

SetAttempt(j, n) == attempt' = [attempt EXCEPT ![j] = n]

PushReady(j) == ready' = [ready EXCEPT ![PriorityOf[j]] = Append(@, j)]

AddScheduled(j) ==                    \* ZADD overwrites an older run_at
    /\ scheduled' = scheduled \cup {j}
    /\ due' = due \ {j}

\* Mutated form: a plain LPOP, with no lease recorded.
NoLease(j) == UNCHANGED <<processing, lapsed>>

AddLease(j) ==                        \* ZADD overwrites an older deadline
    /\ processing' = processing \cup {j}
    /\ lapsed' = lapsed \ {j}

\* Mutated form: ack and nack forget the ZREM.
LeaseKept(j) == UNCHANGED <<processing, lapsed>>

DropLease(j) ==
    /\ processing' = processing \ {j}
    /\ lapsed' = lapsed \ {j}

PushDeadLetter(j) == dlq' = [dlq EXCEPT ![j] = @ + 1]

RemoveDeadLetter(j) == dlq' = [dlq EXCEPT ![j] = IF @ = 0 THEN 0 ELSE @ - 1]

\* What one run of a script may take: everything that matches, up to LIMIT.
Batches(S) ==
    {B \in SUBSET S : /\ B # {}
                      /\ Cardinality(B) <= BatchLimit
                      /\ B = S \/ Cardinality(B) = BatchLimit}

Orderings(S) ==
    {s \in [1..Cardinality(S) -> S] : \A x \in S : \E i \in DOMAIN s : s[i] = x}

\* The scripts' loop: each id goes to the tail of the list its own hash names,
\* in score order, which the abstraction of time leaves open.
PushBatch(B) ==
    LET Of(p) == {j \in B : PriorityOf[j] = p}
    IN  \E h \in Orderings(Of("HIGH")), m \in Orderings(Of("MEDIUM")),
           l \in Orderings(Of("LOW")) :
          ready' = [ready EXCEPT !["HIGH"] = @ \o h,
                                 !["MEDIUM"] = @ \o m,
                                 !["LOW"] = @ \o l]

\* Mutated form: the script forgets the HSET.
StatusesKept(B, s) == UNCHANGED status

SetStatuses(B, s) == status' = [j \in Jobs |-> IF j \in B THEN s ELSE status[j]]
=============================================================================
