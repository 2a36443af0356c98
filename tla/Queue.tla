-------------------------------- MODULE Queue ---------------------------------
(***************************************************************************)
(* The whole queue: clients (QueueClient) and consumers (QueueConsumer) on *)
(* one Redis (QueueState), every Redis command or script an atomic step,   *)
(* everything else interleaved.                                            *)
(***************************************************************************)
EXTENDS QueueClient, QueueConsumer

ASSUME WorkersAssumption == NoJob \notin Workers

vars == <<redis, client, consumer>>

TypeOK == RedisTypeOK /\ ClientTypeOK /\ ConsumerTypeOK

Init == RedisInit /\ ClientInit /\ ConsumerInit

Next == \/ ClientNext /\ UNCHANGED consumer
        \/ ConsumerNext /\ UNCHANGED client

Spec == Init /\ [][Next]_vars

(***************************************************************************)
(* Fairness.  A request is a coroutine that runs on until it returns; a    *)
(* worker polls and goes on; the scheduler ticks; clocks advance; and a    *)
(* process that died is started again.  Nothing makes a caller enqueue, an *)
(* operator retry, a process die or Redis fail.  Reserve is a disjunct of  *)
(* the fairness of the set of workers: which one polls first is luck.      *)
(***************************************************************************)
Fairness ==
    /\ \A c \in Clients : WF_vars(ClientStep(c) /\ UNCHANGED consumer)
    /\ \A w \in Workers :
         /\ WF_vars(Reserve(w) /\ UNCHANGED client)
         /\ WF_vars(WorkerStep(w) /\ UNCHANGED client)
    /\ WF_vars(PromoteDue /\ UNCHANGED client)
    /\ WF_vars(ReapExpired /\ UNCHANGED client)
    /\ \A j \in Jobs : /\ WF_vars(RunAtPasses(j) /\ UNCHANGED client)
                       /\ WF_vars(LeaseLapses(j) /\ UNCHANGED client)

FairSpec == Spec /\ Fairness

-----------------------------------------------------------------------------
(* Safety. *)

\* A client of the Node API is between the command that recorded `j` and the one
\* that lists it, or was cut off there once.
MidPipeline(j, pcs) == j \in torn \/ \E c \in Clients : cjob[c] = j /\ cpc[c] \in pcs

\* Where a job's record says it is.
Placed(j) ==
    /\ status[j] = "QUEUED" =>
         InReady(j) \/ MidPipeline(j, {"linkReady", "repush"})
    /\ status[j] = "SCHEDULED" =>
         j \in scheduled \/ MidPipeline(j, {"linkScheduled"})
    /\ status[j] = "RETRY_WAIT" => j \in scheduled
    /\ status[j] = "PROCESSING" => j \in processing
    /\ status[j] = "DEAD_LETTER" => dlq[j] > 0 \/ MidPipeline(j, {"reset"})

\* At-least-once delivery ("work that must not vanish"): whatever dies, laps or
\* is retried, a job that has not settled is still in a list or set from which
\* a worker or the scheduler will take it, and a dead letter can be found by an
\* operator.  The only exceptions are the Node API's cut pipelines.
NoJobLost == \A j \in Jobs : Placed(j)

\* Job.from_redis indexes the hash it reads: an id that is queued anywhere, or in
\* a worker's hand, has one, or the KeyError would end the worker's loop.
EveryIdHasItsHash ==
    \A j \in Jobs :
      InReady(j) \/ j \in scheduled \/ j \in processing \/ dlq[j] > 0
        \/ (\E w \in Workers : held[w] = j) => Stored(j)

\* While leases cover the handlers and only one operator retries dead letters, no
\* two live workers ever hold the same job, so no handler runs twice at once.
SingleHolder ==
    \A v, w \in Workers : held[v] # NoJob /\ held[v] = held[w] => v = w

\* The attempt cap bounds the cost of a failing job (errors.py:82), but only up to an
\* extra attempt per worker that died holding it: nack compares the count to the
\* limit, the reaper and reserve never do.
AttemptsBounded == \A j \in Jobs : attempt[j] <= MaxAttempts + crashes + redisErrors

\* Two enqueues with one key make one job (docs/queue-protocol.md:100).
OneJobPerKey ==
    \A i, j \in Jobs :
      Stored(i) /\ Stored(j) /\ KeyOf[i] = KeyOf[j] /\ KeyOf[i] # NoKey => i = j

\* What the code does give: an enqueue whose SET NX lost to a job already stored
\* never writes a job of its own while the key lives, however long its GET and
\* HGETALL take.
DuplicateReturnsOriginal ==
    \A c \in Clients :
      original[c] # NoJob /\ idem[KeyOf[cjob[c]]] = original[c] =>
        /\ cpc[c] \in {"lookup", "fetch"}
        /\ found[c] \in {NoJob, original[c]}

-----------------------------------------------------------------------------
(* Action properties. *)

\* A settled job is never touched again: SUCCESS and FAILED are final, and a dead
\* letter is taken up again only by an operator.
SettledIsFinal ==
    [][\A j \in Jobs :
         /\ status[j] \in {"SUCCESS", "FAILED"} => status'[j] = status[j]
         /\ status[j] = "DEAD_LETTER" => status'[j] \in {"DEAD_LETTER", "QUEUED"}
       ]_vars

-----------------------------------------------------------------------------
(* Liveness. *)

\* Every job that is stored is eventually settled: completed, permanently failed,
\* or parked for a human; unless the Node API's pipeline for it was cut short.
EveryJobSettles == \A j \in Jobs : Stored(j) ~> Settled(j) \/ j \in torn

\* If a worker dies the lease expires and the reaper returns the job
\* (consumer.py:11-12): no job stays under a lease for ever.
LeasedWorkReturns == \A j \in Jobs : (j \in processing) ~> (j \notin processing)
-----------------------------------------------------------------------------
(***************************************************************************)
(* The queue keeps the contract of JobContract as long as leases cover the *)
(* handlers (MaxOverruns = 0) and a single operator retries only dead      *)
(* letters.  A job under a lease that no live worker holds is orphaned.    *)
(***************************************************************************)
AbstractBy ==
    [j \in Jobs |-> IF \E w \in Workers : held[w] = j
                      THEN CHOOSE w \in Workers : held[w] = j ELSE NoJob]

AbstractState ==
    [j \in Jobs |->
       CASE status[j] = "NONE" -> "absent"
         [] status[j] \in {"SCHEDULED", "QUEUED", "RETRY_WAIT"} -> "waiting"
         [] status[j] = "PROCESSING" ->
              IF \E w \in Workers : held[w] = j THEN "working" ELSE "orphaned"
         [] status[j] = "SUCCESS" -> "done"
         [] status[j] = "FAILED" -> "failed"
         [] status[j] = "DEAD_LETTER" -> "dead"]

Contract == INSTANCE JobContract
              WITH state <- AbstractState, by <- AbstractBy, Nobody <- NoJob

KeepsContract == Contract!Spec

KeepsFairContract == Contract!FairSpec
=============================================================================
