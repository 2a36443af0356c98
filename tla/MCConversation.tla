---------------------------- MODULE MCConversation -----------------------------
(* Small instances of Conversation for TLC. *)
EXTENDS Conversation, TLC

CONSTANTS b1, p1, p2

\* One booking, which the model may write in two ways.
MCNames == [p \in Spellings |-> b1]

RequestSymmetry == Permutations(Requests)
=============================================================================
