----------------------------- MODULE FrameQueue -----------------------------
(***************************************************************************)
(* What rtl8139_poll promises to net.c: the frames that the card has       *)
(* accepted are handed over one at a time, each once, whole, and in the    *)
(* order in which they came.  How soon is not part of it: a poll may       *)
(* return nothing although a frame is there.                               *)
(***************************************************************************)
EXTENDS Naturals, Sequences

CONSTANT Frames

VARIABLES
  waiting,   \* accepted and not handed over yet
  got        \* what was handed over

vars == <<waiting, got>>

Init == waiting = <<>> /\ got = <<>>

Accept(f) == waiting' = Append(waiting, f) /\ UNCHANGED got

HandOver ==
  /\ waiting # <<>>
  /\ got' = Append(got, Head(waiting)) /\ waiting' = Tail(waiting)

Next == HandOver \/ \E f \in Frames : Accept(f)

Spec == Init /\ [][Next]_vars
=============================================================================
