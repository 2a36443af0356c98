-------------------------------- MODULE Mirror --------------------------------
(***************************************************************************)
(* The queue with its history: services/worker/app/mirror.py, which copies *)
(* what _run (services/worker/app/main.py) did with a job from Redis into  *)
(* the PostgreSQL tables jobs, job_attempts and failures.  A worker writes *)
(* after the queue changed, one transaction per table, and takes no other  *)
(* step meanwhile; whatever goes wrong with a write is swallowed.          *)
(***************************************************************************)
EXTENDS Queue

CONSTANTS
    MaxHiccups,     \* bound: writes PostgreSQL fails by itself
    Prompt          \* whether a write is done before anyone takes its job up again:
                    \* it races the backoff of that very job, or an operator

ASSUME MirrorAssumption == MaxHiccups \in Nat /\ Prompt \in BOOLEAN

VARIABLES
    row,            \* jobs.status of each job, "NONE" while it has no row
    story,          \* job_attempts of each job: its <<attempt_number, status>> pairs
    todo,           \* the writes that stand before a worker's next step
    untold,         \* history: jobs that lost a write, or the worker in mid-attempt
    hiccups

mirror == <<row, story, todo, untold, hiccups>>

mirrorVars == <<vars, mirror>>

Outcomes == {"SUCCESS", "FAILED"}

Resolutions == {"RETRYING", "DEAD_LETTER", "OPEN"}

\* A write names its table, its job and, with "job_attempts", the attempt.
Writes == [table : {"jobs"}, job : Jobs, says : Status]
            \cup [table : {"job_attempts"}, job : Jobs, number : Nat, says : Outcomes]
            \cup [table : {"failures"}, job : Jobs, says : Resolutions]

MirrorTypeOK ==
    /\ TypeOK
    /\ row \in [Jobs -> Status \cup {"NONE"}]
    /\ story \in [Jobs -> SUBSET (Nat \X Outcomes)]
    /\ todo \in [Workers -> Seq(Writes)]
    /\ untold \subseteq Jobs
    /\ hiccups \in 0..MaxHiccups

MirrorInit ==
    /\ Init
    /\ row = [j \in Jobs |-> "NONE"]
    /\ story = [j \in Jobs |-> {}]
    /\ todo = [w \in Workers |-> <<>>]
    /\ untold = {}
    /\ hiccups = 0

-----------------------------------------------------------------------------
(* The three statements. *)

RowWrite(j, s) == [table |-> "jobs", job |-> j, says |-> s]

AttemptWrite(j, n, o) ==
    [table |-> "job_attempts", job |-> j, number |-> n, says |-> o]

FailureWrite(j, r) == [table |-> "failures", job |-> j, says |-> r]

HasRow(j) == row[j] # "NONE"

\* jobs.idempotency_key is UNIQUE: a second job of one key gets no row.
KeyHasRow(j) ==
    \E i \in Jobs \ {j} : HasRow(i) /\ KeyOf[i] = KeyOf[j] /\ KeyOf[j] # NoKey

\* The constraints: the key, and the other tables' reference to the job.
Accepted(write) ==
    IF write.table = "jobs" THEN HasRow(write.job) \/ ~KeyHasRow(write.job)
                            ELSE HasRow(write.job)

\* INSERT ... ON CONFLICT (id) DO UPDATE
UpsertJob(write) ==
    /\ write.table = "jobs"
    /\ row' = [row EXCEPT ![write.job] = write.says]
    /\ UNCHANGED story

Numbered(j, n) == \E o \in Outcomes : <<n, o>> \in story[j]

\* ON CONFLICT (job_id, attempt_number) DO NOTHING
RecordAttempt(write) ==
    /\ write.table = "job_attempts"
    /\ story' = [story EXCEPT ![write.job] =
                   IF Numbered(write.job, write.number)
                     THEN @ ELSE @ \cup {<<write.number, write.says>>}]
    /\ UNCHANGED row

\* failures is a log: no constraint but the reference, and nothing in the worker
\* reads it, so its rows are not kept.
RecordFailure(write) == write.table = "failures" /\ UNCHANGED <<row, story>>

-----------------------------------------------------------------------------
(* The worker between two steps of the queue. *)

Owes(w, writes) == todo' = [todo EXCEPT ![w] = writes]

WriteDone(w) == Owes(w, Tail(todo[w]))

\* Some worker still has a write about `j` to make.
Pending(j) == \E w \in Workers : \E i \in DOMAIN todo[w] : todo[w][i].job = j

Write(w) ==
    /\ todo[w] # <<>> /\ Accepted(Head(todo[w]))
    /\ \/ UpsertJob(Head(todo[w]))
       \/ RecordAttempt(Head(todo[w]))
       \/ RecordFailure(Head(todo[w]))
    /\ WriteDone(w)
    /\ UNCHANGED <<vars, untold, hiccups>>

\* The statement is refused, or PostgreSQL is not there.
WriteFails(w) ==
    /\ todo[w] # <<>>
    /\ \/ ~Accepted(Head(todo[w])) /\ UNCHANGED hiccups
       \/ hiccups < MaxHiccups /\ hiccups' = hiccups + 1
    /\ untold' = untold \cup {Head(todo[w]).job}
    /\ UNCHANGED <<client, redis, row, story>>

\* Mutated form: the exception is not caught, and ends the worker's loop.
Raise(w) ==
    /\ WriteFails(w)
    /\ LetGo(w, "stopped") /\ Owes(w, <<>>)
    /\ UNCHANGED <<scheduling, crashes, overruns, redisErrors>>

\* _safe: nobody hears of it, and the worker goes on.
Swallow(w) == WriteFails(w) /\ WriteDone(w) /\ UNCHANGED consumer

-----------------------------------------------------------------------------
(* What _run owes after each step. *)

SuccessWrites(j, n) == <<AttemptWrite(j, n, "SUCCESS"), RowWrite(j, "SUCCESS")>>

\* Mutated form: the row is left as it was.
NoRowWrites(j, n, s) == {<<AttemptWrite(j, n, "FAILED")>>}

\* Mutated form: a status where the column takes a resolution.
StatusAsResolution(s) == s

Resolution(s) == CASE s = "RETRY_WAIT" -> "RETRYING"
                   [] s = "DEAD_LETTER" -> "DEAD_LETTER"
                   [] OTHER -> "OPEN"

\* A JobFailure is told in three tables, an exception of another kind, which is
\* always transient, in two, and a job type without a handler, always permanent,
\* in one.
FailureWrites(j, n, s) ==
    LET told == <<AttemptWrite(j, n, "FAILED"), RowWrite(j, s)>>
    IN  {Append(told, FailureWrite(j, Resolution(s)))}
          \cup {IF s = "FAILED" THEN <<RowWrite(j, s)>> ELSE told}

\* Mutated form: the number that is one too low.
StaleNumber(w) == snap[w] - 1

AttemptNumber(w) == snap[w]

OweNothing == UNCHANGED <<row, story, todo, untold, hiccups>>

OweOneOf(w, choices) ==
    /\ \E writes \in choices : Owes(w, writes)
    /\ UNCHANGED <<row, story, untold, hiccups>>

TakeJob(w) ==
    /\ Reserve(w)
    /\ Prompt => ~Pending(held'[w])
    /\ OweNothing

Settle(w) ==
    \/ Ack(w) /\ OweOneOf(w, {SuccessWrites(held[w], AttemptNumber(w))})
    \/ NackPermanent(w)
       /\ OweOneOf(w, FailureWrites(held[w], AttemptNumber(w), "FAILED"))
    \/ NackExhausted(w)
       /\ OweOneOf(w, FailureWrites(held[w], AttemptNumber(w), "DEAD_LETTER"))
    \/ NackRetry(w)
       /\ OweOneOf(w, FailureWrites(held[w], AttemptNumber(w), "RETRY_WAIT"))

\* process begins only when the writes about the last job are made.
Work(w) ==
    /\ todo[w] = <<>>
    /\ \/ TakeJob(w)
       \/ (FetchJob(w) \/ RunHandler(w)) /\ OweNothing
       \/ CountAttempt(w) /\ OweOneOf(w, {<<RowWrite(held[w], "PROCESSING")>>})
       \/ Settle(w)
    /\ UNCHANGED client

\* What a death, or the end of the loop, leaves untold.
Unsaid(w) ==
    {j \in Jobs : held[w] = j \/ \E i \in DOMAIN todo[w] : todo[w][i].job = j}

Die(w) ==
    /\ \/ Crash(w)
       \/ todo[w] = <<>> /\ WorkerLoopEnds(w)
    /\ untold' = untold \cup Unsaid(w)
    /\ Owes(w, <<>>)
    /\ UNCHANGED <<client, row, story, hiccups>>

\* What happens around the workers, which never looks at the mirror.
Around ==
    /\ \/ ClientNext /\ UNCHANGED consumer
       \/ /\ \/ PromoteDue \/ ReapExpired \/ SchedulerLoopEnds
             \/ \E w \in Workers : Restart(w)
             \/ \E j \in Jobs : RunAtPasses(j) \/ LeaseLapses(j)
          /\ UNCHANGED client
    /\ OweNothing

MirrorNext ==
    \/ \E w \in Workers : Work(w) \/ Write(w) \/ Swallow(w) \/ Die(w)
    \/ Around

MirrorSpec == MirrorInit /\ [][MirrorNext]_mirrorVars

-----------------------------------------------------------------------------
(* Safety. *)

\* "A database hiccup must never cost a job" (mirror.py:9-12): whatever becomes of
\* the writes, the queue below behaves as a queue without a mirror does.
HistoryNeverCostsAJob == Init /\ [][Next]_vars

\* The row never runs ahead of Redis: while leases cover the handlers, a row that says
\* how a job ended is right, whoever wrote it and however late.
EndedRowIsTrue ==
    \A j \in Jobs : row[j] \in {"SUCCESS", "FAILED"} => status[j] = row[j]

\* Once nothing is being written, the row of a settled job that lost no write says so:
\* no late write of an earlier attempt covers it.
SettledRowIsCurrent ==
    \A j \in Jobs :
      Settled(j) /\ ~Pending(j) /\ j \notin untold => row[j] = status[j]

\* `jobs` tells you the current state; this tells you the story (0004 sql:46): until an
\* operator requeues, a job that lost no write has a row for each of its attempts, the
\* last one with how it ended.  After a requeue the numbers start again, and ON
\* CONFLICT DO NOTHING keeps the old rows.
StoryIsWhole ==
    \A j \in Jobs :
      /\ status[j] \in {"SUCCESS", "DEAD_LETTER"}
      /\ ~Pending(j) /\ j \notin untold /\ requeues = 0
      => story[j] = {<<n, IF n = attempt[j] /\ status[j] = "SUCCESS"
                            THEN "SUCCESS" ELSE "FAILED">> : n \in 1..attempt[j]}
=============================================================================
