--------------------------- MODULE MCSharedFetch ---------------------------
(***************************************************************************)
(* SharedFetch on two loops in two threads, with callers of its own on     *)
(* each, one creator, and the answers that make the store hit and miss: a  *)
(* key with no span, which is held for one old minute, and a key with one. *)
(***************************************************************************)
EXTENDS SharedFetch, TLC

CONSTANTS e, A, B, c1, c2, c3, l1, l2

\* The first caller has a loop to itself.
MCHomeLoop == [c \in Callers |-> IF c = c1 THEN l1 ELSE l2]

MCUrls == {[endPoint |-> e, minute |-> 0], [endPoint |-> e, minute |-> 1]}
MCOneUrl == {[endPoint |-> e, minute |-> 0]}

MCAnswers == {[pem |-> A, start |-> 0, end |-> Store!Absent],
              [pem |-> B, start |-> Store!Absent, end |-> Store!Absent]}
MCOneAnswer == {[pem |-> A, start |-> Store!Absent, end |-> Store!Absent]}

\* Which identity a new future gets makes no difference.
Symmetric == Permutations(Fetches)
=============================================================================
