# VoiceOps in TLA+

This directory models VoiceOps, the voice agent of an airline: the conversation
that may change a booking, the job queue that finishes what a call could not, the
flight service both of them call, and the scripts that set its database up. The modules
follow the source; the runs check small instances with TLC, and the proofs, checked with
TLAPS, hold for every value of the constants.

## The system

| Part | State | Operations |
|---|---|---|
| queue layout (`keys.py`, `models.py`) | per job a hash; three ready lists by priority; sorted sets `scheduled` (by `run_at`) and `processing` (by lease deadline); the dead-letter list; idempotency keys that live a day | |
| queue client (`client.py`, AI service and scripts) | locals of a request | `enqueue`, `get`, `requeue_dead_letter` |
| Node producer (`lib/queue.ts`, `routes/jobs.ts`) | locals of a request | the same two, with pipelines that are not transactions |
| queue consumer (`consumer.py`) | the job in hand, its attempt count | `reserve`, `ack`, `nack`, `promote_due`, `reap_expired` (`extend_lease` is never called) |
| worker and scheduler loops (`worker/app/main.py`) | tasks that poll, run a handler, settle | |
| retry policy (`errors.py`, `backoff.py`) | none | `classify`, `backoff_seconds` |
| handlers (`worker/app/handlers.py`) | none | `cancel_booking`, `reschedule_booking`, `check_refund_status`, `scheduled_callback` |
| mirror (`worker/app/mirror.py`) | Postgres tables jobs, job_attempts, failures | best-effort writes after each step of a worker |
| orchestrator (`orchestrator/turn.py`) | a turn's informed set, flow position, messages | `run_turn`: model, gate, tools, final answer |
| flows (`flows/*.py`, `servicing.yaml`) | the position of a call | `next_state`, routing, validation |
| AI routes, persistence (`api/routes.py`, `core/persistence.py`) | the call row and the conversation's rows | a turn (text or audio), create and end a call |
| AI tools (`tools/flight.py`) | none | nine tools over the flight service |
| AI queue glue (`core/queue.py`) | none | `enqueue_retry` |
| flight service (`flight-mock/routers/bookings.py`, `refunds.py`) | bookings, refunds, flights | cancel, list options, reschedule |
| chaos (`chaos.py`, `routers/admin.py`) | its configuration | errors, delays, hangs and corrupt bodies in front of the handlers |
| live data (`live.py`, `routers/live.py`) | a cache with a lifetime per source | weather, aircraft positions |
| API (`services/api`) | none beyond the databases | roles, calls, jobs, voice proxy, reports |
| migrations (`scripts/migrate.py`, `db/migrations`, `make db-reset`) | `schema_migrations`, the files | `up`, `status`, drop |
| reference data (`scripts/load_reference.py`) | copies of three files; airports, airlines, routes | download, parse, replace |
| seed (`scripts/seed.py`) | flights, customers, bookings | read the routes, insert |
| dashboard, telemetry, providers, scripts, infra | | presentation, observation, remote models, operation |

How they meet: the API and the AI service call each other over HTTP; a turn calls
the flight service through a tool and, when a confirmed change fails for a
transient reason, enqueues a job; a worker reserves the job and calls the same
flight service again; operators retry jobs (meant for dead letters; the code takes any
job) and escalate calls through the API. Redis is shared by the API, the AI service, workers and schedulers, Postgres
by all of them. No two processes share memory, and no lock is taken anywhere: what
keeps them apart is the atomicity of single Redis commands, Lua scripts, MULTI
transactions, single SQL statements and table constraints.

What is hard about each part, and what makes it correct:

* **Queue.** Processes die between round trips, leases lapse, clients race on a
  key, Node pipelines tear. Correct: work is never lost, is in one hand at a
  time, is bounded in attempts, settles, and stays settled.
* **Conversation.** The language model may ask for any tool at any time; requests on
  one call overlap; a provider fails after a change was made. Correct: no change
  that the customer did not hear about and ask for on a later turn, consent spent
  on use, history in order, escalation kept, and turns that end.
* **Servicing.** Tries of one change overlap, answers are lost after the commit,
  bodies are corrupt, a cancel and a reschedule race. Correct: a change is carried
  out at most once, its refund matches, a cancelled booking stays so, the customer
  is told the truth, and every wish comes to an end.
* **Mirror.** History is written after the queue changed, one statement at a time, by
  whichever worker comes; any write may fail. Correct: a job never pays for it, and a
  row that speaks of an end is right.
* **Chaos and live data.** Configuration changes under requests that sleep; answers of
  concurrent fetches arrive in any order; the outside world may not answer. Correct: a
  reset heals, the way back is never blocked, nothing stale is served, the quota is
  spared, and requests end.
* **Database scripts.** Two people migrate at once, files are edited, loads overlap a
  seeder, a download is cut. Correct: a script has run once if it is recorded, in order;
  routes name what exists, and so do the flights seeded from them.

`PROJECT.json` lists the hazards, each at its line, with the properties that watch it.

## The modules

```
QueueState ── QueueClient ──┐
     └─────── QueueConsumer ┴─ Queue ── MCQueue, QueueProofs ── QueueKeysProofs
                                │ │                                └ QueueLeaseProofs
                                │ └ implements JobContract
                                └ Mirror ── MCMirror, MirrorProofs (on QueueLeaseProofs)
Flow ── Conversation ── MCConversation, ConversationProofs
Retry ── FlightService ── Servicing ── MCServicing, ServicingProofs
                              └ its jobs live as JobContract lets them
Migrations ── ReferenceData ── Seeding ──┐
                    └───────┐            ├ Platform ── MCPlatform,
              ChaosEngine ──┴ LiveData ──┘             DatabaseProofs ── ServiceProofs
```

**QueueState** holds the Redis keys as variables. A job is its id; priority and
idempotency key never change and are constants. Scores are times, and the code only
asks whether a time has passed: `due` and `lapsed` are the ids whose time has. `dlq` counts copies, because
RPUSH and LREM do. `Batches` is what one run of a Lua script takes.

**QueueClient** has one program counter per request in flight. `enqueue` is
ClaimKey or KeyTaken (SET NX), LookupOwner (GET), ReturnOriginal or OwnerMissing
(HGETALL), then PushDue or PushLater (one MULTI); a Node client goes through
NodeWriteHash and NodeLinkReady or NodeLinkScheduled, which others can come
between. Requeueing is StartRequeue and Requeue, or NodeRemove, NodeReset and
NodeRepush. ClientDies cuts a request off anywhere, ExpireKey ends a key's day.

**QueueConsumer** has one program counter per worker loop: Reserve, FetchJob,
CountAttempt, RunHandler, then Ack or a Nack; the scheduler's PromoteDue and
ReapExpired; Crash and Restart of a worker; leases and `run_at`s that pass
(LeaseLapses, RunAtPasses); a Redis error that escapes a loop and ends it for good
(WorkerLoopEnds, SchedulerLoopEnds).

**Queue** puts them together, states the properties and the refinement of
**JobContract**: a job is absent, waiting, working, orphaned, done, failed or dead,
and at most one worker is on it. That module is what other parts rely on.

**Mirror** is the queue with what `_run` writes about it: after CountAttempt, Ack or a
Nack a worker owes (`todo`) the statements of that step in the code's order, and takes up
no other job before they are made. `Write` is a statement with its ON CONFLICT clause and
the table's constraints (`Accepted`: the unique key, the reference to the job), `Swallow` one
that fails and is forgotten, `Die` what a death leaves untold. `failures` is
a log that nothing reads: its rows are not kept.

**Flow** is `servicing.yaml` as data with the operators of `schema.py`, and the
loader's checks as an assumption that TLC evaluates.

**Conversation** is one call. A request loads the informed set and the position,
asks the model (any answer is possible: text, an empty answer, any tool with any
reference, a provider error), handles the calls one by one through the gate
(`GateOpen`), and persists in the code's order: SetInformed, SetFlow,
NextTurnIndex, the two rows, UpdateCall. Every await is a step, so requests
interleave as the event loop lets them. `surfaced`, `lookedUp`, `fresh` and `heard` are
history variables: they record what happened and are read by properties only.

**Retry** is `classify` and the AI tools' own, different, rule, over what each kind
of answer amounts to. **FlightService** is the three handlers statement by
statement (each SQL statement commits on its own), chaos in front of them, and
failures within them; a request outlives the caller that gave up on it. **Servicing** is the life
of a confirmed change: the turn that tries it, the job that tries again, crashes,
operators. A retry by an operator asks only that the job exists, in `client.py` and in
`queue.ts`; that operators keep to the dead-letter list is a discipline, and in both models
that of the constant `OnlyDeadLetters`. Without it Requeue in Servicing takes a job that is
done or failed as well; the retry of a job that is still queued or running, which puts it in
two places at once, is in Queue, which has those places (`queue_clients`).

**Migrations** is `cmd_up` by several runners: Discover, then per file Skip or Execute
and Record, in one transaction a file. Two runners on one script meet in PostgreSQL,
where the second waits and then finds what it would create. `effects` counts how often
a script has run in this schema. **ReferenceData** is `load_reference.py`: per file a copy,
a download or a copy that a kill cut short, then the parse, TRUNCATE and three inserts in one
transaction. A version of the data gives the rows the loader decides on: a ragged line, a
missing or doubled code, an inactive airline. **Seeding** is what `seed.py` holds of the
reference tables from its first SELECT to its commit, and `db-reset`.

**ChaosEngine** is the middleware (`Dispatch` up to its first await, then the sleep, the
dice and the hang) with `Resolve` and the admin routes. Rates and probabilities amount to
never, sometimes and always. **LiveData** is the two routes behind it, with the
rows they look up, the cache, and fetches in flight; `Tick` lets everything age at once.
**Platform** puts all of that together, in either of two situations: a
new database that people set up, or a running service whose chaos is switched and whose
reference data is loaded again.

What the models leave out of the parts they cover: statistics (`stat:*`,
metrics, spans); fields nobody reads back (`worker_id`, `started_at`, results);
`awaiting_confirmation` and `queued_jobs`, which only shape the response; the text
of messages; the five-row LIMIT of the options; the date part of a flight number
(a flight number is taken to name one flight). A call exists when Conversation
starts. `audio_turn` awaits the same steps as `text_turn`, around speech.

## The runs

| Run | Question | Bounds |
|---|---|---|
| `queue_clients` | Is a job lost, or an id left without its hash, or a duplicate not returned, when clients race on a key that expires, pipelines are cut, a lease lapses under a live worker, an operator retries anything and a Redis error ends a loop? | 2 jobs on 1 key, a Python and a Node client, 2 workers; 1 overrun, 1 retry, 1 Redis error, 1 attempt |
| `queue_liveness` | While leases cover the handlers: one holder, bounded attempts, final outcomes; does each job settle, does each lease come back, is the fair contract kept? | 2 jobs, 2 workers, 1 Node client; 1 crash, 1 retry of a dead letter, 2 attempts, batches of 1 |
| `mirror` | Does the history cost a job, claim an end that did not come, or stay behind the job? | 2 jobs on 1 key that may expire, 1 client, 2 workers; 1 crash, 1 failing write, 2 attempts |
| `conversation_safety` | The gate, the history and the flow with overlapping requests and a fault | 2 requests at once, 3 turns, 2 passes, 1 fault; a lookup and a change as tools |
| `conversation_consent` | Consent, escalation and progress, one request at a time | every state-changing tool, an unknown one, 2 calls a response, 3 turns, 2 passes |
| `servicing_safety` | A cancel and a move of one booking at once | 2 requests at once, a corrupt body, a hang, 1 raising statement, 1 crash, 1 attempt, 1 retry of a job that is done, failed or dead; departures come closer |
| `servicing_liveness` | Does a move with every kind of failure come to an end, as the contract allows? | 1 move, 1 fault, 1 crash, 1 retry of a dead letter, 2 attempts |
| `platform` | Does a database come out of its scripts whole, and does the service on it answer, heal and stay fresh? | 2 migrations, 2 runners, 1 edit, 2 loads, 1 seeder, three issues of the files, one cut short; 2 requests at once of 3, 4 endpoints, every setting of chaos |
| `queue_one_job_per_key` | expected to fail: see the disagreements | 2 clients, 1 key |
| `conversation_fault` | expected to fail | 1 request at a time, 1 fault |
| `servicing_twice` | expected to fail | 1 cancel, callers that lose patience |
| `servicing_corrupt` | expected to fail | 1 cancel, corrupt bodies |

Why the bounds are enough: every race in the code is between two actors (two
clients on a key, a worker and the reaper, two requests on a call, two handlers on
a booking), and two of each are present. Two attempts give a first, a
retry and an exhausted one; in `servicing_safety` an intent is tried up to four times with one attempt, by the
turn, by its job, after a crash and for an operator; three turns give a lookup, a change and another change; two passes
give the last pass and one before. One crash, fault or overrun at any step shows what it
breaks; the proofs cover any number. Conversation's history shows a skipped or
doubled index with three turns. `Horizon` = 1 lets a flight pass the three hours
of the options and the two of the cutoff.

`mirror` assumes `Prompt`: a write is made before the job it tells of is taken up again. The
write races that job's backoff, at least a second, or an operator; without it a late row of an attempt covers
the next one's. In `platform`, loaders and migrations take turns, as a loader asks only whether
the tables exist; one loader runs at a time, so that loaders which overlap are covered by
`RoutesAlwaysResolve` only, which has any number; a running service is loaded from the copies (which may be newer or cut); db-reset comes with no runner
at work (below); `MaxWork` bounds requests and loads together. A lifetime
of one tick for weather and none for aircraft, with fetches of one tick, lets an answer
arrive after its successor and an entry expire on the way. HTTPX bounds each read; the model takes
the timeout for a bound on the whole fetch, so a source that drips its answer is not in it. An airport with a station, one
without, and a code the tables lack are among the rows.
Symmetry is used in safety runs only, over workers or requests, which no constant tells
apart.

Runs set CHECK_DEADLOCK FALSE: a system with every job settled, every turn over
and every bound used up rests, and that is where bounded behaviours end.

## Fairness

* A request or a turn is a coroutine that runs on until it returns or dies: weak
  fairness of its next step (`ClientStep`, `TurnStep`). Nobody has to start one.
* A worker loop polls for ever and goes on with what it holds; the scheduler ticks for ever
  (`PromoteDue`, `ReapExpired`); the clock passes `run_at` and lease deadlines; the
  process supervisor starts a dead worker again.
* In Servicing, handlers go on and callers read their answers or time out. Weak
  fairness of "some caller steps" is enough since a single intent runs.
* In Platform, requests go on (`RequestGoesOn`: sleeps and hangs end, httpx gives up), time
  passes, and a loader that is not killed goes on, as a request may wait for its tables. Nothing
  makes the outside world answer. Mirror's properties are safety and need none.
* Nothing makes a process die, Redis or a provider fail, an operator retry or a
  customer ask. `queue_liveness` allows no Redis error to end a loop: the code has
  no protection from it (below).

## The proofs

Eight modules of proofs, each with no bound on any constant.

**QueueProofs.** `TypeCorrect`, and `NoJobIsEverLost`: at-least-once delivery. The
invariant is the types with `NoJobLost` itself, which is inductive once one knows
that a client between two commands of a torn pipeline still names its job
(`MidPipeline`). The work is in lemmas on the lists: a push, a pop
and a batch keep what they do not take (`PushReadyFacts`, `PopFacts`, `PushBatchFacts`).
Assumptions: the named ASSUMEs of QueueState, QueueClient and QueueConsumer.

**ConversationProofs.** `TypeCorrect`, `HistoryStaysInOrder`,
`ServicingStaysEarned`, `GateHolds`, `EscalationAlwaysKept`. The invariant is
`TypeOK /\ HistoryInv /\ GateInv /\ ServicingIsEarned`. History needs that
the indices taken are exactly 0..n-1 (`Contiguous`) and that a request about to
insert its agent row still owns the customer row before it (`IndexKept`). The
gate needs that every spelling in the row's or a request's informed set was looked
up by a turn that reached the row, or in this very turn, after which `acted` shuts
the gate (`GateInv`): this is why both conditions of the gate are needed.
What ADR 0004 adds is proved under what it takes for granted, one turn at a time (`OneAtATime`)
in which nothing fails (`NothingFails`): `ConsentAlwaysSpent`, if the model also spells a
booking in one way (`OneSpelling`), and `ChangeAlwaysHeard`, if a turn also ends on words
(`Articulate`). `FreshInv` says that a spelling in force has been looked up since its booking
was last changed; `HeardInv` that it was spoken of in a reply, or that this turn's reply,
which no conflict can now keep off the transcript, will. No condition can be left out (below).
Two theorems are the safety half of a liveness property: `TurnsOnlyShorten`, with no assumption, says
that what a turn has left (`Left`, at most `TurnBudget`) is lowered by every step of that turn and
raised by nobody (`LoopInv`: the loop's count is within its bound wherever the turn stands), so only
fairness is missing to `EveryTurnEnds`; `EscalationNeverMislaid`, under `OneAtATime` and
`NothingFails`, that a decided escalation is on the call's row or in the hands of the turn that
carries it there (`CarriedInv`).

**ServicingProofs.** `TypeCorrect`, which here includes that a caller waits for its
own request; `CancelledStaysFinal`; under `OnlyDeadLetters`, `ServicingKeepsContract`, the
refinement (without it a retry revives what is done or failed); and, under `Patient`,
`ChangeOnlyOnce`, `CustomerToldTheTruth` and `RefundsAlwaysMatch`. `IInv` adds to
the types that a request's place fits its operation (`RequestsOK`) and that
`cancelled_at` is set exactly on cancelled rows (`RowsOK`, which is what
makes the table's CHECK refuse a late reschedule). `Once` adds that an intent has one
running try (`OneTry`) and that a booking's status remembers an intent that was carried out, so
that no request past the status check is left (`Remembered`). `Truthful` adds that a request
with a well-shaped answer to a change, or past its UPDATE, has carried its intent out (`Claims`). `Settled` adds that a request
past the status check finds no refund yet, and one about to refund a cancelled
row; it also needs that no two intents cancel one booking (`OneCancellation`), which nothing in the
flight service enforces. `Patient` is the
assumption that no handler outlives its caller's timeout or its job's lease; it is
needed, as `servicing_twice` shows. `DoneWithoutCorruption` proves of the worker's SUCCESS what
`CustomerToldTheTruth` does of the agent's words, once chaos corrupts no 200 (`NoCorruption`;
`servicing_corrupt` shows why): no answer is then malformed, so the one that ends a job claims
its change (`Reported`). `EffortOnlyShrinks`, patient or not, is the safety half of
`EveryIntentEnds`: `EffortLeft` counts the takes an intent's job has left (its attempts, one for each
process that may still die, a new set for each operator's retry of whichever settled job) and its place between two
takes; each step of the intent lowers it and no other step raises it, the requests of other
intents and the handlers included. `RetryRulesAgree` compares the two retry rules, the tool's and the
worker's, over every failure that is not a 200.

**QueueKeysProofs.** `EveryIdAlwaysHasItsHash`: whatever is named in a list, a set or a
worker's hand is stored (`HashInv`); this needs that a client between claim and push is the only one to
know its job. `DuplicateAlwaysReturnsOriginal`: a loser of SET NX whose owner was stored by then (`LostTo`)
finds exactly that job. `OneJobPerKeyUnlessRaced` says what the refuted sentence of
`docs/queue-protocol.md:100` needs: keys that live on (`~KeysExpire`) and no enqueue that loses SET NX to a
job not stored yet (`NeverRaced`, an assumption on steps). A key then names the
only job stored under it, and a client about to push owns its key (`OwnerInv`).

**QueueLeaseProofs**, under `Disciplined`: leases cover the handlers, operators retry dead
letters only, and no two retries meet. `LeaseInv` is the heart: a job is only where its
record says it is (`RecordTells`, the converse of `NoJobLost`), at most once in the ready lists,
and in one hand, which still holds its lease. From it follow `OneHolderAtATime` and
`SettledStaysFinal`; with `CountInv` (a job that may still be taken has an attempt left
within the cap) `AttemptsStayBounded`; and `QueueKeepsContract`, the safety part of the
refinement: every step of the queue moves one job as JobContract allows, or none.

**MirrorProofs.** `MirrorIsAQueue`: every step of the queue with its history is a step of
the queue or none, so every safety theorem of the queue holds of it; `MirrorLosesNoJob`
is one. `MirrorTypeCorrect` needs the shape of every list of writes (`OwedWrites`). Under
`Disciplined`, `EndedRowAlwaysTrue`: no row and no write that is still to be made says of an end that
is not so (`EndedInv`), since an ended job stays ended. With `Prompt` too,
`SettledRowAlwaysCurrent`: whoever still writes about a job is alone with it, in hand and on
paper, and what it writes last is the job's status (`CurrentInv`, on top of `LeaseInv`).
`StoryAlwaysWhole` does not need `Prompt`, though rows may be written late: a worker past its
count holds in memory the number it has written to the job (`SnapInv`), and the attempts told in
rows or owed to them are exactly those made, with their ends, job by job (`StoryInv`).

**DatabaseProofs.** `SchemaNeverHalfBuilt`: one transaction at most on each script, and no
runner past a file that is not recorded (`InSeries`). `RoutesAlwaysResolve`: the
routes in a loader's transaction resolve against that transaction's own airports and airlines
(`TablesOK`). `SeededFlightsExist`: what a seeder chose is in the tables as long as
it shares them (`ChosenIsThere`).

**ServiceProofs.** `AdminAlwaysReachable`, `ResetAlwaysHeals` (the requests broken
since the reset and those still asleep are together no more than slept then, `Healing`), `NothingStaleServed`
(an entry's age and what is left of it add up to no more than `Oldest`, `EntryFresh`), `QuotaAlwaysSpared`
(as long as a key is quiet its report is in the cache, `KeptFor`), and `PlatformTyped`.

Every invariant and every action property a passing run checks is proved, and each of the four
sentences a run refutes has a theorem that says what it lacks: `ConsentAlwaysSpent`,
`ChangeOnlyOnce`, `DoneWithoutCorruption`, `OneJobPerKeyUnlessRaced`. Only model-checked: the
liveness properties and fairness, `KeepsFairContract` among them (beyond the prover's reach; of
`EveryTurnEnds`, `EscalationReachesTheCall` and `EveryIntentEnds` the safety half is proved).

## Where the code and its documents disagree

Four are runs, with a trace each:

* `queue_one_job_per_key`: two enqueues with one key make two jobs when the loser
  reads the owner's hash before it is written (`client.py:43`).
* `conversation_fault`: a provider error after a change leaves the spent consent on
  the row (`routes.py:155`), against ADR 0004.
* `servicing_twice`: two tries that overlap both cancel and both refund
  (`bookings.py:91`).
* `servicing_corrupt`: the worker acks a corrupt 200 as SUCCESS (`handlers.py:74`), being the
  client that only checks status codes of which `docs/chaos.md:27` warns.

Others the models show when a constant is changed, kept out of the runs because they
have the same roots or no document promises otherwise:

* the attempt limit does not bind workers that die (`AttemptsBounded` without its
  `+ crashes`), since only `nack` compares;
* an operator who retries a job twice has it run twice at once
  (`OnlyDeadLetters = FALSE` with `SingleHolder`);
* one who retries a job that is done or failed revives what the contract calls settled
  (`OnlyDeadLetters = FALSE` with `KeepsContract`);
* the Node API cut between RPUSH and HSET leaves a job in no list (`torn`);
* one Redis error ends a loop (`MaxRedisErrors = 1` with `LeasedWorkReturns`);
* a turn that ends on the fallback reply opens the gate all the same (`Articulate =
  FALSE` with `HeardBeforeChange`); overlapping requests (`Requests = {r1, r2}`) and
  two spellings (`Spellings = {p1, p2}`) each break `ConsentSpentOnUse`;
* a failing statement in `_persist` loses an escalation (`MaxFaults = 1` with
  `EscalationReachesTheCall`).

Others were met in the code while it was modelled and have no run:

* `schema.md:41` says that a permanent failure has exactly one attempt; a job that failed for a
  transient reason first has more.
* `live.py:108` caches None and says that no report is a cached answer; `_get` reads it
  back as a miss, so every request asks again. `QuotaIsSpared` speaks of reports.
* PATCH with `enabled=false` leaves overrides, which go on injecting; only a reset or a
  scenario drops them.
* `migrate.py` records the checksum of the file as it is after the script ran: an edit in
  between is recorded as applied.
* db-reset amid another's migrate drops what that runner has recorded; it goes on with the
  next file on an empty schema.
* `bookings.py:98` checks the cutoff at one time and updates later.
* `calls.duration_ms` is a 32-bit integer (`0003_calls_conversations.sql:20`): ending a call
  after 24.8 days fails.

## Not modelled

* The backoff curve: arithmetic without state. The queue leaves the delay open, so every value is covered.
* Authentication and the role table: a pure lookup, whose model would restate the table.
* Flights router, reporting, voice proxy, listing routes, `cmd_status`: they read or forward.
* An operator's retry of a job that is queued or running, carried on into the flight service: what
  the queue makes of it is checked in Queue; two handlers at once meet the booking as one that
  outlives its caller and the next do, in `servicing_twice`.
* Providers: their behaviour is there as the freedom of `ModelWantsTools`, `ModelAnswers` and
  `TurnFails`.
* Telemetry, dashboard, the remaining scripts, infrastructure: observation, presentation and
  operation, with no state the properties are about.

## Plan

Done: the queue, its contract and its history; the conversation; servicing, with the contract in
place of the queue; the platform; the proofs above.

Left to prove: what bounds a queue job's life in the queue itself, where attempts, crashes and
retries are counted apart, and what a request of the platform has left. Left to model: a
conversation whose change becomes a job, end to end (today the two meet in the contract and in
Servicing's turns).
