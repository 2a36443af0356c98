------------------------------- MODULE MCMirror -------------------------------
(* Small instances of Mirror for TLC. *)
EXTENDS Mirror, TLC

CONSTANTS j1, j2, k1

\* Both jobs carry one key; j1 is urgent, j2 is not.
MCKeyOf == [j \in Jobs |-> k1]
MCPriorityOf == [j \in Jobs |-> IF j = j1 THEN "HIGH" ELSE "LOW"]

WorkerSymmetry == Permutations(Workers)
=============================================================================
