--------------------------- MODULE MCVerification ---------------------------
(* Small instances of Verification: one end point, a few keys and minutes. *)
EXTENDS Verification, TLC

Symmetric == Permutations(Pems) \cup Permutations(Verifiers)
=============================================================================
