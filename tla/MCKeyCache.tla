----------------------------- MODULE MCKeyCache -----------------------------
(***************************************************************************)
(* KeyCache on a small instance.  The history of what was taught is the    *)
(* only part that grows without end, and MaxLearned bounds it.             *)
(***************************************************************************)
EXTENDS KeyCache, TLC

CONSTANT MaxLearned   \* how many spans are taught between two emptyings

Bounded == Cardinality(learned) <= MaxLearned

Symmetric == Permutations(EndPoints) \cup Permutations(Pems)
=============================================================================
