----------------------------- MODULE Neighbours -----------------------------
(***************************************************************************)
(* Which keys _neighbour_verifies of src/owid/public_key_fetch.py tries    *)
(* besides the one the identifier's own minute selected.  Operators only;  *)
(* Verification tries them one after another as requests are answered, and *)
(* RotationClients at once.                                                *)
(***************************************************************************)
EXTENDS Integers, Sequences

CONSTANTS
  LastMinute,   \* _LAST_MINUTE
  Drift         \* CLOCK_DRIFT_ALLOWANCE_MINUTES

NearEdge(minute, edge) == edge - minute <= Drift /\ minute - edge <= Drift

\* Mutant: both neighbours are tried however far the edges are.
BeyondEitherEdge(minute, tried) ==
  IF ~tried.known THEN <<>>
  ELSE (IF tried.first > 0 THEN <<tried.first - 1>> ELSE <<>>)
       \o (IF tried.last < LastMinute THEN <<tried.last + 1>> ELSE <<>>)

\* Mutant: a key stated from the first minute there is has a neighbour, too.
BeyondTheFirstMinute(minute, tried) ==
  IF ~tried.known THEN <<>>
  ELSE (IF NearEdge(minute, tried.first) THEN <<tried.first - 1>> ELSE <<>>)
       \o (IF tried.last < LastMinute /\ NearEdge(minute, tried.last)
             THEN <<tried.last + 1>> ELSE <<>>)

\* Mutant: only the neighbour before the selected key is tried.
BeyondTheStart(minute, tried) ==
  IF ~tried.known THEN <<>>
  ELSE IF tried.first > 0 /\ NearEdge(minute, tried.first)
    THEN <<tried.first - 1>> ELSE <<>>

\* Mutant: only the neighbour after the selected key is tried.
BeyondTheEnd(minute, tried) ==
  IF ~tried.known THEN <<>>
  ELSE IF tried.last < LastMinute /\ NearEdge(minute, tried.last)
    THEN <<tried.last + 1>> ELSE <<>>

\* The minutes just beyond the edges the identifier's own minute is near.
Beyond(minute, tried) ==
  IF ~tried.known THEN <<>>
  ELSE (IF tried.first > 0 /\ NearEdge(minute, tried.first)
          THEN <<tried.first - 1>> ELSE <<>>)
       \o (IF tried.last < LastMinute /\ NearEdge(minute, tried.last)
             THEN <<tried.last + 1>> ELSE <<>>)
=============================================================================
