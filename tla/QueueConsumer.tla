---------------------------- MODULE QueueConsumer -----------------------------
(***************************************************************************)
(* The consumers of the queue: QueueConsumer in packages/queue-py, driven  *)
(* by the worker_loop and scheduler_loop of services/worker/app/main.py.   *)
(* A worker holds one job at a time and touches Redis in separate round    *)
(* trips: the reserve script, HGETALL, the HSET of the attempt count, and  *)
(* the MULTI of ack or nack.  Between any two of them it can die.          *)
(***************************************************************************)
EXTENDS QueueState

CONSTANTS
    Workers,            \* worker_loop tasks
    MaxCrashes,         \* bound: worker deaths in a behaviour
    MaxOverruns,        \* bound: leases that lapse under a live worker.  Zero is
                        \* the rule of config.py: the visibility timeout exceeds
                        \* the slowest handler
    MaxRedisErrors      \* bound: Redis errors that escape a loop and end it

ASSUME ConsumerAssumption ==
    /\ MaxCrashes \in Nat /\ MaxOverruns \in Nat /\ MaxRedisErrors \in Nat

VARIABLES
    wpc,                \* what a worker does next
    held,               \* its `job`
    snap,               \* job.attempt, as it read and counted it
    scheduling,         \* whether scheduler_loop still runs
    crashes, overruns, redisErrors

consumer == <<wpc, held, snap, scheduling, crashes, overruns, redisErrors>>

\* "down": the process died and will be started again; "stopped": an exception
\* ended the loop inside a process that lives on, so nothing starts it again.
WorkerPcs == {"idle", "fetch", "count", "run", "ack", "nackPermanent",
              "nackTransient", "down", "stopped"}

Holding == {"fetch", "count", "run", "ack", "nackPermanent", "nackTransient"}

ConsumerTypeOK ==
    /\ wpc \in [Workers -> WorkerPcs]
    /\ held \in [Workers -> Jobs \cup {NoJob}]
    /\ \A w \in Workers : (wpc[w] \in Holding) <=> (held[w] # NoJob)
    /\ snap \in [Workers -> Nat]
    /\ scheduling \in BOOLEAN
    /\ crashes \in 0..MaxCrashes
    /\ overruns \in 0..MaxOverruns
    /\ redisErrors \in 0..MaxRedisErrors

ConsumerInit ==
    /\ wpc = [w \in Workers |-> "idle"]
    /\ held = [w \in Workers |-> NoJob]
    /\ snap = [w \in Workers |-> 0]
    /\ scheduling = TRUE
    /\ crashes = 0 /\ overruns = 0 /\ redisErrors = 0

Becomes(w, pc) == wpc' = [wpc EXCEPT ![w] = pc]

\* Mutated form: the worker's job is not forgotten.
LetGoKeepsJob(w, pc) == Becomes(w, pc) /\ UNCHANGED <<held, snap>>

LetGo(w, pc) ==
    /\ Becomes(w, pc)
    /\ held' = [held EXCEPT ![w] = NoJob]
    /\ snap' = [snap EXCEPT ![w] = 0]

Holds(w, j) == wpc[w] \in Holding /\ held[w] = j

-----------------------------------------------------------------------------
(* reserve *)

\* Mutated form: only the urgent list is polled.
OnlyHigh(p) == p = "HIGH" /\ ready[p] # <<>>

\* `p` is the first list of PRIORITY_ORDER that is not empty.
FirstWaiting(p) ==
    \E i \in 1..Len(PRIORITY_ORDER) :
      /\ PRIORITY_ORDER[i] = p /\ ready[p] # <<>>
      /\ \A k \in 1..(i - 1) : ready[PRIORITY_ORDER[k]] = <<>>

\* RESERVE_LUA: the pop, the lease and the status are one step.
Reserve(w) ==
    /\ wpc[w] = "idle"
    /\ \E p \in Priorities :
         /\ FirstWaiting(p)
         /\ ready' = [ready EXCEPT ![p] = Tail(@)]
         /\ held' = [held EXCEPT ![w] = Head(ready[p])]
         /\ AddLease(Head(ready[p]))
         /\ SetStatus(Head(ready[p]), "PROCESSING")
    /\ Becomes(w, "fetch")
    /\ UNCHANGED <<scheduled, due, dlq, attempt, idem, snap, scheduling, crashes,
                   overruns, redisErrors>>

\* HGETALL, and job.attempt += 1 in the worker's memory.
FetchJob(w) ==
    /\ wpc[w] = "fetch"
    /\ snap' = [snap EXCEPT ![w] = attempt[held[w]] + 1]
    /\ Becomes(w, "count")
    /\ UNCHANGED <<redis, held, scheduling, crashes, overruns, redisErrors>>

CountAttempt(w) ==
    /\ wpc[w] = "count"
    /\ SetAttempt(held[w], snap[w])
    /\ Becomes(w, "run")
    /\ UNCHANGED <<ready, scheduled, due, processing, lapsed, dlq, status, idem,
                   held, snap, scheduling, crashes, overruns, redisErrors>>

\* The handler returns, or fails and classify gives the verdict.
RunHandler(w) ==
    /\ wpc[w] = "run"
    /\ \E next \in {"ack", "nackPermanent", "nackTransient"} : Becomes(w, next)
    /\ UNCHANGED <<redis, held, snap, scheduling, crashes, overruns, redisErrors>>

-----------------------------------------------------------------------------
(* ack and nack: the lease and the record change in one transaction.  Neither *)
(* asks whether the lease is still this worker's.                            *)

Ack(w) ==
    /\ wpc[w] = "ack"
    /\ DropLease(held[w])
    /\ SetStatus(held[w], "SUCCESS")
    /\ LetGo(w, "idle")
    /\ UNCHANGED <<ready, scheduled, due, dlq, attempt, idem, scheduling, crashes,
                   overruns, redisErrors>>

NackPermanent(w) ==
    /\ wpc[w] = "nackPermanent"
    /\ DropLease(held[w])
    /\ SetStatus(held[w], "FAILED") /\ SetAttempt(held[w], snap[w])
    /\ LetGo(w, "idle")
    /\ UNCHANGED <<ready, scheduled, due, dlq, idem, scheduling, crashes,
                   overruns, redisErrors>>

\* Mutated form: off by one.
ExhaustedLate(w) == snap[w] > MaxAttempts

Exhausted(w) == snap[w] >= MaxAttempts

NackExhausted(w) ==
    /\ wpc[w] = "nackTransient" /\ Exhausted(w)
    /\ DropLease(held[w])
    /\ SetStatus(held[w], "DEAD_LETTER") /\ SetAttempt(held[w], snap[w])
    /\ PushDeadLetter(held[w])
    /\ LetGo(w, "idle")
    /\ UNCHANGED <<ready, scheduled, due, idem, scheduling, crashes, overruns,
                   redisErrors>>

NackRetry(w) ==
    /\ wpc[w] = "nackTransient" /\ ~Exhausted(w)
    /\ DropLease(held[w])
    /\ SetStatus(held[w], "RETRY_WAIT") /\ SetAttempt(held[w], snap[w])
    /\ AddScheduled(held[w])
    /\ LetGo(w, "idle")
    /\ UNCHANGED <<ready, dlq, idem, scheduling, crashes, overruns, redisErrors>>

-----------------------------------------------------------------------------
(* scheduler_loop: promote_due and reap_expired, one script each. *)

PromoteDue ==
    /\ scheduling
    /\ \E B \in Batches(due) :
         /\ PushBatch(B)
         /\ SetStatuses(B, "QUEUED")
         /\ scheduled' = scheduled \ B /\ due' = due \ B
    /\ UNCHANGED <<processing, lapsed, dlq, attempt, idem, consumer>>

\* Mutated forms: the score is not compared; the wrong set is read.
AnyLease == processing
NoneExpired == processing \cap scheduled

\* ZRANGEBYSCORE processing -inf now
Expired == lapsed

ReapExpired ==
    /\ scheduling
    /\ \E B \in Batches(Expired) :
         /\ PushBatch(B)
         /\ SetStatuses(B, "QUEUED")
         /\ processing' = processing \ B /\ lapsed' = lapsed \ B
    /\ UNCHANGED <<scheduled, due, dlq, attempt, idem, consumer>>

-----------------------------------------------------------------------------
(* Time, deaths and errors. *)

RunAtPasses(j) ==
    /\ j \in scheduled \ due
    /\ due' = due \cup {j}
    /\ UNCHANGED <<ready, scheduled, processing, lapsed, dlq, status, attempt,
                   idem, consumer>>

LeaseLapses(j) ==
    /\ j \in processing \ lapsed
    /\ lapsed' = lapsed \cup {j}
    /\ IF \E w \in Workers : Holds(w, j)
         THEN overruns < MaxOverruns /\ overruns' = overruns + 1
         ELSE UNCHANGED overruns
    /\ UNCHANGED <<ready, scheduled, due, processing, dlq, status, attempt, idem,
                   wpc, held, snap, scheduling, crashes, redisErrors>>

\* kill -9, or a handler that takes its process down.
Crash(w) ==
    /\ wpc[w] \notin {"down", "stopped"} /\ crashes < MaxCrashes
    /\ crashes' = crashes + 1
    /\ LetGo(w, "down")
    /\ UNCHANGED <<redis, scheduling, overruns, redisErrors>>

Restart(w) ==
    /\ wpc[w] = "down"
    /\ Becomes(w, "idle")
    /\ UNCHANGED <<redis, held, snap, scheduling, crashes, overruns, redisErrors>>

\* worker_loop and scheduler_loop have no except: a Redis error ends the task,
\* and main() only waits for the shutdown event.
WorkerLoopEnds(w) ==
    /\ wpc[w] \in {"idle", "fetch", "count", "ack", "nackPermanent", "nackTransient"}
    /\ redisErrors < MaxRedisErrors
    /\ redisErrors' = redisErrors + 1
    /\ LetGo(w, "stopped")
    /\ UNCHANGED <<redis, scheduling, crashes, overruns>>

SchedulerLoopEnds ==
    /\ scheduling /\ redisErrors < MaxRedisErrors
    /\ redisErrors' = redisErrors + 1
    /\ scheduling' = FALSE
    /\ UNCHANGED <<redis, wpc, held, snap, crashes, overruns>>

WorkerStep(w) ==
    \/ FetchJob(w) \/ CountAttempt(w) \/ RunHandler(w)
    \/ Ack(w) \/ NackPermanent(w) \/ NackExhausted(w) \/ NackRetry(w)
    \/ Restart(w)

ConsumerNext ==
    \/ \E w \in Workers : \/ Reserve(w) \/ WorkerStep(w)
                          \/ Crash(w) \/ WorkerLoopEnds(w)
    \/ \E j \in Jobs : RunAtPasses(j) \/ LeaseLapses(j)
    \/ PromoteDue \/ ReapExpired \/ SchedulerLoopEnds
=============================================================================
