------------------------------ MODULE MCExt4Dir ------------------------------
(* A directory of two blocks: in the first, mkfs put "." and "..", the     *)
(* latter's record reaching to the end of the block; in the second are an  *)
(* unused record, one entry and the 12 bytes reserved for a checksum.      *)
EXTENDS Ext4Dir, TLC

MCNames  == {"dot", "dotdot", "file", "a", "name5"}
MCHidden == {"dot", "dotdot"}
MCLen    == [n \in MCNames \cup {NoName} |->
               CASE n = NoName -> 0 [] n = "dotdot" -> 2 [] n = "file" -> 4
                 [] n = "name5" -> 5 [] OTHER -> 1]

MCRec(ino, rec, name) == [ino |-> ino, rec |-> rec, name |-> name]
MCFirst  == [o \in {0, 3} |-> IF o = 0 THEN MCRec(2, 3, "dot")
                                       ELSE MCRec(2, W - 3, "dotdot")]
MCSecond == [o \in {0, 5, W - 3} |->
               CASE o = 0 -> MCRec(0, 5, NoName)
                 [] o = 5 -> MCRec(4, W - 8, "file")
                 [] OTHER -> MCRec(0, 3, NoName)]
MCImage  == (1 :> MCFirst) @@ (2 :> MCSecond)
=============================================================================
