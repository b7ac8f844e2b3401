------------------------- MODULE MCCreatorEndPoint -------------------------
(* Small instances of RotationClients, and of CreatorEndPoint within it: two *)
(* ticks to a second and two seconds to a minute.                            *)
EXTENDS RotationClients, TLC

WholeSeconds == {t \in 0 .. LastMoment : t % SecondTicks = 0}

\* Keys that start on a minute or a fraction of a second past it, on a second
\* within one, or a fraction of a second before one.
AroundMinutes == {1, 4, 5, 6, 8, 9, 11, 12, 13, 16}

Symmetric == Permutations(Pems)
=============================================================================
