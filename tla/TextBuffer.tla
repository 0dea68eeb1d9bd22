----------------------------- MODULE TextBuffer -----------------------------
(***************************************************************************)
(* What the editor of the shell promises of a file: a text with a caret    *)
(* in it, characters put in before the caret and taken out before it, and  *)
(* nothing else of the text ever touched.                                  *)
(***************************************************************************)
EXTENDS Naturals, Sequences

CONSTANTS Symbols,      \* what a text is made of
          MaxText       \* the longest text a file holds

VARIABLES before,       \* the text in front of the caret
          after,        \* the text behind it
          open          \* the editor has the file open

vars == <<before, after, open>>

Init == /\ before \in Seq(Symbols)
        /\ Len(before) <= MaxText
        /\ after = << >>
        /\ open = FALSE

\* The editor starts with the caret behind the text.
Open == /\ ~open
        /\ open' = TRUE
        /\ UNCHANGED <<before, after>>

Insert == /\ open
          /\ Len(before) + Len(after) < MaxText
          /\ \E c \in Symbols : before' = Append(before, c)
          /\ UNCHANGED <<after, open>>

Erase == /\ open
         /\ before # << >>
         /\ before' = SubSeq(before, 1, Len(before) - 1)
         /\ UNCHANGED <<after, open>>

\* The caret moves, and no character does.
Place == /\ open
         /\ before' \o after' = before \o after
         /\ UNCHANGED open

Close == /\ open
         /\ open' = FALSE
         /\ before' = before \o after
         /\ after' = << >>

Next == Open \/ Insert \/ Erase \/ Place \/ Close

Spec == Init /\ [][Next]_vars
=============================================================================
