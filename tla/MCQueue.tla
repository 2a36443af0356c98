------------------------------- MODULE MCQueue --------------------------------
(* Small instances of Queue for TLC. *)
EXTENDS Queue, TLC

CONSTANTS j1, j2, k1

\* Both jobs carry one key, or none; j1 is urgent, j2 is not.
MCKeyOf == [j \in Jobs |-> k1]
MCNoKeys == [j \in Jobs |-> NoKey]
MCPriorityOf == [j \in Jobs |-> IF j = j1 THEN "HIGH" ELSE "LOW"]

WorkerSymmetry == Permutations(Workers)
=============================================================================
