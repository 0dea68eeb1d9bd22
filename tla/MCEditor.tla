------------------------------ MODULE MCEditor ------------------------------
(* A file of 4 characters, one of each key, one character for the others. *)
EXTENDS Editor

MCKeys == CommandKeys
MCGlyph == [c \in MCKeys \X BOOLEAN |-> IF c[2] THEN "A" ELSE "a"]
MCGlyphs == {"a", "A"}

=============================================================================
