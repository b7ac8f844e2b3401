----------------------------- MODULE FrameQueue -----------------------------
(***************************************************************************)
(* What a stream of OWIDs promises: the reader gets what was sent, all of  *)
(* it, in order, once, and nothing else.                                   *)
(***************************************************************************)
EXTENDS Naturals, Sequences

CONSTANT Frames    \* what may be sent

VARIABLES
  sent,    \* everything sent so far
  read     \* everything read so far

Init ==
  /\ sent = <<>>
  /\ read = <<>>

Send ==
  /\ \E frame \in Frames : sent' = Append(sent, frame)
  /\ UNCHANGED read

Take ==
  /\ Len(read) < Len(sent)
  /\ read' = Append(read, sent[Len(read) + 1])
  /\ UNCHANGED sent

Next == Send \/ Take

Spec == Init /\ [][Next]_<<sent, read>>

Fairness == WF_<<sent, read>>(Take)
=============================================================================
