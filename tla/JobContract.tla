----------------------------- MODULE JobContract ------------------------------
(***************************************************************************)
(* What the queue promises about its jobs, with no lists, leases, clients  *)
(* or round trips: the lifecycle of docs/queue-protocol.md as the code     *)
(* gives it.  A job is worked on by at most one worker; only that worker   *)
(* settles it or puts it back; a job whose worker is gone is recovered,    *)
(* never lost; what is settled stays settled, except that a dead letter    *)
(* may be revived.                                                         *)
(***************************************************************************)
CONSTANTS
    Jobs,
    Workers,
    Nobody      \* no worker

VARIABLES
    state,      \* where in its life a job is
    by          \* the worker on it

States == {"absent", "waiting", "working", "orphaned", "done", "failed", "dead"}

contract == <<state, by>>

Init == /\ state = [j \in Jobs |-> "absent"]
        /\ by = [j \in Jobs |-> Nobody]

Moves(j, from, to) == state[j] = from /\ state' = [state EXCEPT ![j] = to]

Submit(j) == Moves(j, "absent", "waiting") /\ UNCHANGED by

Take(w, j) == /\ \A i \in Jobs : by[i] # w
              /\ Moves(j, "waiting", "working")
              /\ by' = [by EXCEPT ![j] = w]

\* The worker on `j` completes it, fails it, gives up on it or puts it back.
Release(j) == /\ \E to \in {"done", "failed", "dead", "waiting"} : Moves(j, "working", to)
              /\ by' = [by EXCEPT ![j] = Nobody]

Lose(j) == /\ Moves(j, "working", "orphaned")
           /\ by' = [by EXCEPT ![j] = Nobody]

Recover(j) == Moves(j, "orphaned", "waiting") /\ UNCHANGED by

Revive(j) == Moves(j, "dead", "waiting") /\ UNCHANGED by

\* One run of the reaper recovers several jobs.
RecoverSome ==
    \E B \in SUBSET {j \in Jobs : state[j] = "orphaned"} :
      /\ state' = [j \in Jobs |-> IF j \in B THEN "waiting" ELSE state[j]]
      /\ UNCHANGED by

Next == \/ \E j \in Jobs : \/ Submit(j) \/ Release(j) \/ Lose(j) \/ Revive(j)
                           \/ \E w \in Workers : Take(w, j)
        \/ RecoverSome

Spec == Init /\ [][Next]_contract

\* An orphaned job is recovered, and a worker that has a job lets go of it.
FairSpec == /\ Spec
            /\ \A j \in Jobs : /\ WF_contract(Recover(j))
                               /\ WF_contract(Release(j) \/ Lose(j))
=============================================================================
