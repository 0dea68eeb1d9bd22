------------------------------- MODULE MCExt4 -------------------------------
(* A small disk for Ext4: block 0 of the group's bits is metadata, one     *)
(* block per directory, the free blocks are split in two runs.             *)
EXTENDS Ext4

MCNames == {"dot", "sub", "old", "big"}
MCSize  == [one |-> 1, two |-> 2]
MCContents == {"one", "two"}

\* Inode 1 is reserved, 2 the root, 3 the directory "sub", 4 the file "old"
\* of one block, 5 the file "big", whose extents are a tree; the rest free.
MCInode == [i \in 1 .. NInodes |->
  CASE i = 2 -> [NewInode("dir")  EXCEPT !.map = "leaf", !.lo = 2, !.len = 1]
    [] i = 3 -> [NewInode("dir")  EXCEPT !.map = "leaf", !.lo = 3, !.len = 1]
    [] i = 4 -> [NewInode("file") EXCEPT !.map = "leaf", !.lo = 4, !.len = 1,
                                         !.size = 1]
    [] i = 5 -> [NewInode("file") EXCEPT !.map = "tree", !.rest = {6}, !.size = 1]
    [] OTHER -> NewInode("unused")]

MCEntry(name, i, type) == [ino |-> i, name |-> name, type |-> type]
MCDirent == [d \in {2, 3} |-> [s \in 1 .. NSlots |->
  CASE s = 1           -> MCEntry("dot", d, "dir")
    [] d = 2 /\ s = 2  -> MCEntry("sub", 3, "dir")
    [] d = 2 /\ s = 3  -> MCEntry("old", 4, "file")
    [] d = 3 /\ s = 2  -> MCEntry("big", 5, "file")
    [] OTHER           -> MCEntry(NoName, 0, "none")]]

MCImage == [inodeBitmap |-> 1 .. 5, blockBitmap |-> {0, 1, 2, 3, 5},
            inode |-> MCInode, dirent |-> MCDirent,
            data |-> [b \in Blocks |-> <<NoContent, 0>>]]
=============================================================================
