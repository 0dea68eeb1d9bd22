------------------------------ MODULE KeyQueue ------------------------------
(***************************************************************************)
(* What the keyboard driver promises to its caller: the characters typed   *)
(* are returned one at a time, each once and in the order in which they    *)
(* were typed; of those that wait there are never more than Limit, and     *)
(* what is typed beyond it is dropped.  keyboard_getchar returns when a    *)
(* character is there; that it does at all is not part of it.              *)
(***************************************************************************)
EXTENDS Naturals, Sequences

CONSTANTS Chars, NoChar, Limit

VARIABLES
    queue,      \* the characters that wait
    returned    \* the one returned last

vars == <<queue, returned>>

Init == queue = << >> /\ returned = NoChar

Put(c) ==
    /\ Len(queue) < Limit
    /\ queue' = Append(queue, c)
    /\ UNCHANGED returned

Take ==
    /\ queue # << >>
    /\ returned' = Head(queue)
    /\ queue' = Tail(queue)

Next == Take \/ \E c \in Chars : Put(c)

Spec == Init /\ [][Next]_vars
=============================================================================
