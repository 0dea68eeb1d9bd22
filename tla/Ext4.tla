-------------------------------- MODULE Ext4 --------------------------------
(***************************************************************************)
(* The write path of the ext4 driver, fs/ext4/ext4.c: ext4_write_file and  *)
(* everything it calls.  The driver is sequential; what can interleave     *)
(* with it is the world outside: a block write that the device refuses,    *)
(* and a crash or a power cut between any two block writes.  So every      *)
(* action below is one block write of the code, together with the reads    *)
(* and the computation that precede it, and Crash may come between them.   *)
(*                                                                         *)
(* A block write is atomic with respect to a crash.  A block write that    *)
(* the device refuses (the driver returns 0) may or may not have reached   *)
(* the medium: both outcomes are in the model.                             *)
(***************************************************************************)
EXTENDS Integers, FiniteSets

CONSTANTS
  NBlocks,         \* blocks of group 0, one bit each (sb.blocks_per_group)
  FirstDataBlock,  \* block number of bit 0 (sb.first_data_block)
  NInodes,         \* inodes of group 0 (sb.inodes_per_group)
  Root,            \* the root directory's inode number (2 on a real disk)
  Dirs,            \* the directories the image holds: the driver makes none
  NSlots,          \* entries that fit in a directory
  Names, NoName,   \* file names; the name of an empty slot
  Contents,        \* what a caller may write
  NoContent,       \* what a block holds that nobody has written yet
  Size,            \* Size[c]: the blocks content c needs
  Image,           \* the file system as mkfs (or another system) left it
  ShiftMasked,     \* what the build makes of start_block >> 32, see HiOf
  MaxWrites        \* bound on the calls of ext4_write_file

Inodes == 1 .. NInodes
Slots  == 1 .. NSlots
Bits   == 0 .. (NBlocks - 1)
Blocks == FirstDataBlock .. (FirstDataBlock + NBlocks - 1)

VARIABLES
  \* on the disk
  inodeBitmap,     \* set of inodes whose bit is 1
  blockBitmap,     \* set of bits that are 1
  gdFreeInodes, gdFreeBlocks,   \* the counts of the group descriptor
  sbFreeInodes, sbFreeBlocks,   \* the counts of the superblock
  inode,           \* the inode table
  dirent,          \* dirent[d][s]: the s-th entry that was made in directory d
  data,            \* what each block holds
  \* in memory: the call in progress
  pc,              \* the block write that comes next
  op,              \* arguments of the call
  ino,             \* inode_num
  fi,              \* file_inode, the copy that is written back at the end
  done,            \* blocks of data written so far
  \* for the caller and the properties
  result,          \* what the last call returned, and why when it failed
  writes,          \* calls made so far
  aborts,          \* calls that did not return 1
  overwritten,     \* directories that lost their entries to the text of a call
  missed           \* <<d, name>>: a lookup failed to see the entry that is there

disk     == <<inodeBitmap, blockBitmap, gdFreeInodes, gdFreeBlocks,
              sbFreeInodes, sbFreeBlocks, inode, dirent, data>>
volatile == <<pc, op, ino, fi, done>>
history  == <<overwritten, missed>>
vars     == <<disk, volatile, result, writes, aborts, history>>

-----------------------------------------------------------------------------
(***************************************************************************)
(* An inode keeps what the driver tells apart: no usable extent ("none",   *)
(* also inodes without the extents flag or with no entry), a header of     *)
(* depth 0 with a first extent ("leaf"), or a deeper tree ("tree").  The   *)
(* first extent is start block hi * 2^32 + lo and len blocks; rest are the *)
(* blocks that only the other extents reach.                               *)
(***************************************************************************)
InodeType == [kind : {"unused", "file", "dir"}, map : {"none", "leaf", "tree"},
              hi : Nat, lo : Nat, len : Nat, rest : SUBSET Blocks, size : Nat]

NewInode(kind) == [kind |-> kind, map |-> "none", hi |-> 0, lo |-> 0,
                   len |-> 0, rest |-> {}, size |-> 0]

FirstExtent(n) == IF n.map = "leaf" THEN n.lo .. (n.lo + n.len - 1) ELSE {}
Owned(n)       == FirstExtent(n) \cup n.rest

EntryType == [ino : 0 .. NInodes, name : Names \cup {NoName},
              type : {"none", "file", "dir"}]

Match(d, name) == {s \in Slots : /\ dirent[d][s].ino # 0
                                 /\ dirent[d][s].name = name}
Least(x, S)    == x \in S /\ \A y \in S : x <= y

(***************************************************************************)
(* What a consistent image is, for an inode bitmap, a block bitmap, an     *)
(* inode table and directories.                                            *)
(***************************************************************************)
\* An entry leads to an inode that is allocated and of the entry's type.
EntriesOK(ibm, inodes, entries) ==
  \A d \in Dirs, s \in Slots :
    LET e == entries[d][s]
    IN  e.ino # 0 => e.ino \in ibm /\ inodes[e.ino].kind = e.type

\* Two entries of files lead to two inodes.
OneNameOK(entries) ==
  \A d1, d2 \in Dirs, s1, s2 \in Slots :
    /\ entries[d1][s1].ino # 0 /\ entries[d1][s1].type = "file"
    /\ entries[d1][s1].ino = entries[d2][s2].ino
    => d1 = d2 /\ s1 = s2

\* Two entries of a directory have two names, but for the names excepted.
NamesOK(entries, excepted) ==
  \A d \in Dirs, s, t \in Slots :
    /\ entries[d][s].ino # 0 /\ entries[d][t].ino # 0
    /\ entries[d][s].name = entries[d][t].name
    => s = t \/ <<d, entries[d][s].name>> \in excepted

\* A block that an inode owns is marked used and no other inode owns it.
BlocksOK(bbm, inodes) ==
  \A i \in Inodes : \A b \in Owned(inodes[i]) :
    /\ b - FirstDataBlock \in bbm
    /\ \A j \in Inodes \ {i} : b \notin Owned(inodes[j])

\* Dirs are directories, and no entry leads to another one.
DirsOK(inodes, entries) ==
  /\ \A d \in Dirs : inodes[d].kind = "dir"
  /\ \A d \in Dirs, s \in Slots :
       entries[d][s].ino # 0 /\ entries[d][s].type = "dir" => entries[d][s].ino \in Dirs

ASSUME ConstantsOK ==
  /\ NBlocks \in Nat /\ FirstDataBlock \in Nat /\ NInodes \in Nat
  /\ NSlots \in Nat /\ MaxWrites \in Nat
  /\ Dirs \subseteq Inodes /\ Root \in Dirs
  /\ Size \in [Contents -> Nat \ {0}]
  /\ NoName \notin Names /\ NoContent \notin Contents
  /\ ShiftMasked \in BOOLEAN

ASSUME ImageOK ==
  /\ Image.inodeBitmap \subseteq Inodes /\ Dirs \subseteq Image.inodeBitmap
  /\ Image.blockBitmap \subseteq Bits
  /\ Image.inode \in [Inodes -> InodeType]
  /\ Image.dirent \in [Dirs -> [Slots -> EntryType]]
  /\ Image.data \in [Blocks -> (Contents \cup {NoContent}) \X Nat]
  /\ EntriesOK(Image.inodeBitmap, Image.inode, Image.dirent)
  /\ OneNameOK(Image.dirent) /\ NamesOK(Image.dirent, {})
  /\ BlocksOK(Image.blockBitmap, Image.inode) /\ DirsOK(Image.inode, Image.dirent)
  /\ \A i \in Inodes : Image.inode[i].hi = 0

\* ext4_resolve_path finds a directory from the root: the first entry of a
\* name counts.  What it makes of text where entries were is not followed.
Resolvable(d) ==
  /\ Root \notin overwritten /\ d \notin overwritten
  /\ \/ d = Root
     \/ \E name \in Names, s \in Slots : /\ Least(s, Match(Root, name))
                                        /\ dirent[Root][s].ino = d
                                        /\ dirent[Root][s].type = "dir"

FreeInodes == Inodes \ inodeBitmap
FreeBits   == Bits \ blockBitmap
\* Mutant: a full directory's last record is taken for free space.
FreeSlotsTakesLast(d) == {s \in Slots : dirent[d][s].ino = 0 \/ s = NSlots}
FreeSlots(d) == {s \in Slots : dirent[d][s].ino = 0}
Run(b, n)    == b .. (b + n - 1)
\* Mutant: the scan looks at the first bit only.
FreeRunsFirstBit(n) == {b \in FreeBits : Run(b, n) \subseteq Bits}
FreeRuns(n)  == {b \in Bits : Run(b, n) \subseteq FreeBits}

\* if (count >= n) count -= n;
Less(count, n) == IF count >= n THEN count - n ELSE count

(***************************************************************************)
(* ee_start_hi is (uint16_t)(start_block >> 32) of a 32-bit start_block.   *)
(* C leaves a shift by the operand's width undefined.  Without -O, which   *)
(* is how the Makefile builds, gcc emits shr by a register that holds 32,  *)
(* x86 takes the count modulo 32, and nothing is shifted; a compiler that  *)
(* folds the constant yields 0.                                            *)
(***************************************************************************)
HiOf(block) == IF ShiftMasked THEN block % 65536 ELSE 0

\* A block is eight sectors and a command carries 48 bits of the sector's
\* number (ahci.c): 13 bits of hi count.  Where they are not 0 the block
\* lies beyond every device.
OnDevice(n) == n.hi % 8192 = 0

NoOp == [dir |-> Root, name |-> NoName, content |-> NoContent]
Need == Size[op.content]

-----------------------------------------------------------------------------
Init ==
  /\ inodeBitmap = Image.inodeBitmap
  /\ blockBitmap = Image.blockBitmap
  /\ gdFreeInodes = Cardinality(FreeInodes)
  /\ gdFreeBlocks = Cardinality(FreeBits)
  /\ sbFreeInodes = Cardinality(FreeInodes)
  /\ sbFreeBlocks = Cardinality(FreeBits)
  /\ inode = Image.inode
  /\ dirent = Image.dirent
  /\ data = Image.data
  /\ pc = "idle" /\ op = NoOp /\ ino = 0 /\ fi = NewInode("unused") /\ done = 0
  /\ result = "none" /\ writes = 0 /\ aborts = 0
  /\ overwritten = {} /\ missed = {}

Reset == /\ pc' = "idle" /\ op' = NoOp /\ ino' = 0
         /\ fi' = NewInode("unused") /\ done' = 0
         /\ UNCHANGED writes

\* return 0, because of why
Fail(why) == Reset /\ result' = why /\ aborts' = aborts + 1

\* The call goes on with the block write named next.
Goto(next) == pc' = next /\ UNCHANGED <<op, fi, done, result, writes, aborts>>

(***************************************************************************)
(* Everything is read: the parent exists and the name is or is not in it.  *)
(* A read that fails inside ext4_find_in_dir is indistinguishable from     *)
(* "no such name" (both return 0), so the call goes on to create.  What a  *)
(* name that is found leads to may as well be a directory.                 *)
(***************************************************************************)
Reusable(n, need) == n.map = "leaf" /\ n.len >= need

\* file_inode is node: overwrite its first extent if that is long enough.
Enter(i, node, need) ==
  /\ ino' = i /\ fi' = node /\ done' = 0
  /\ \/ Reusable(node, need)  /\ pc' = "data"
     \/ ~Reusable(node, need) /\ pc' = "blockBitmap"

\* Mutant: the name is not looked up before it is created.
BeginWithoutLookup(d, name, c) ==
  /\ pc = "idle" /\ writes < MaxWrites
  /\ Resolvable(d)
  /\ op' = [dir |-> d, name |-> name, content |-> c]
  /\ pc' = "inodeBitmap" /\ writes' = writes + 1 /\ result' = "none"
  /\ UNCHANGED <<disk, aborts, ino, fi, done, history>>

Begin(d, name, c) ==
  /\ pc = "idle" /\ writes < MaxWrites
  /\ Resolvable(d)
  /\ op' = [dir |-> d, name |-> name, content |-> c]
  /\ \/ /\ \E s \in Slots : /\ Least(s, Match(d, name))
                            /\ Enter(dirent[d][s].ino, inode[dirent[d][s].ino], Size[c])
        /\ UNCHANGED missed
     \/ /\ pc' = "inodeBitmap"
        /\ missed' = missed \cup {<<d, dirent[d][s].name>> : s \in Match(d, name)}
        /\ UNCHANGED <<ino, fi, done>>
  /\ writes' = writes + 1 /\ result' = "none"
  /\ UNCHANGED <<disk, aborts, overwritten>>

-----------------------------------------------------------------------------
(* ext4_alloc_inode: bitmap, then the two counts.  Whether the counts      *)
(* reach the disk is not looked at.                                        *)

\* Mutants: the bit's index is returned, not the inode's number; the counts
\* are written before the bitmap.
AllocInodeBitmapBitIndex ==
  /\ pc = "inodeBitmap"
  /\ \E i \in Inodes : /\ Least(i, FreeInodes)
                       /\ inodeBitmap' = inodeBitmap \cup {i}
                       /\ ino' = i - 1 /\ Goto("inodeGd")
  /\ UNCHANGED <<blockBitmap, gdFreeInodes, gdFreeBlocks, sbFreeInodes,
                 sbFreeBlocks, inode, dirent, data, history>>
AllocInodeBitmapCountsFirst ==
  /\ pc = "inodeBitmap" /\ FreeInodes # {}
  /\ gdFreeInodes' = Less(gdFreeInodes, 1) /\ Fail("device")
  /\ UNCHANGED <<inodeBitmap, blockBitmap, gdFreeBlocks, sbFreeInodes,
                 sbFreeBlocks, inode, dirent, data, history>>

AllocInodeBitmap ==
  /\ pc = "inodeBitmap"
  /\ \/ \E i \in Inodes :
          /\ Least(i, FreeInodes)
          /\ \/ inodeBitmap' = inodeBitmap \cup {i} /\ ino' = i /\ Goto("inodeGd")
             \/ inodeBitmap' \in {inodeBitmap, inodeBitmap \cup {i}} /\ Fail("device")
     \/ FreeInodes = {} /\ Fail("full") /\ UNCHANGED inodeBitmap
  /\ UNCHANGED <<blockBitmap, gdFreeInodes, gdFreeBlocks, sbFreeInodes,
                 sbFreeBlocks, inode, dirent, data, history>>

AllocInodeGd ==
  /\ pc = "inodeGd"
  /\ gdFreeInodes' \in {gdFreeInodes, Less(gdFreeInodes, 1)}
  /\ Goto("inodeSuper")
  /\ UNCHANGED <<inodeBitmap, blockBitmap, gdFreeBlocks, sbFreeInodes,
                 sbFreeBlocks, inode, dirent, data, ino, history>>

\* Mutant: the entry is made before the inode is written.
AllocInodeSuperSkipsInode ==
  /\ pc = "inodeSuper"
  /\ sbFreeInodes' \in {sbFreeInodes, Less(sbFreeInodes, 1)}
  /\ Goto("dirEntry")
  /\ UNCHANGED <<inodeBitmap, blockBitmap, gdFreeInodes, gdFreeBlocks,
                 sbFreeBlocks, inode, dirent, data, ino, history>>

AllocInodeSuper ==
  /\ pc = "inodeSuper"
  /\ sbFreeInodes' \in {sbFreeInodes, Less(sbFreeInodes, 1)}
  /\ Goto("newInode")
  /\ UNCHANGED <<inodeBitmap, blockBitmap, gdFreeInodes, gdFreeBlocks,
                 sbFreeBlocks, inode, dirent, data, ino, history>>

\* The new inode reaches the table before any entry names it.
WriteNewInode ==
  /\ pc = "newInode"
  /\ LET new == [inode EXCEPT ![ino] = NewInode("file")]
     IN  \/ inode' = new /\ Goto("dirEntry") /\ UNCHANGED ino
         \/ inode' \in {inode, new} /\ Fail("device")
  /\ UNCHANGED <<inodeBitmap, blockBitmap, gdFreeInodes, gdFreeBlocks,
                 sbFreeInodes, sbFreeBlocks, dirent, data, history>>

\* Mutant: a full directory is no error.
AddDirEntryFullIsOk ==
  /\ pc = "dirEntry"
  /\ \/ \E s \in Slots :
          /\ Least(s, FreeSlots(op.dir))
          /\ dirent' = [dirent EXCEPT ![op.dir][s] =
                          [ino |-> ino, name |-> op.name, type |-> "file"]]
     \/ FreeSlots(op.dir) = {} /\ UNCHANGED dirent
  /\ Enter(ino, inode[ino], Need)
  /\ UNCHANGED <<inodeBitmap, blockBitmap, gdFreeInodes, gdFreeBlocks,
                 sbFreeInodes, sbFreeBlocks, inode, data, op, result, writes, aborts, history>>

\* ext4_add_dir_entry, then ext4_read_inode of the new inode.
AddDirEntry ==
  /\ pc = "dirEntry"
  /\ \/ \E s \in Slots :
          /\ Least(s, FreeSlots(op.dir))
          /\ LET new == [dirent EXCEPT ![op.dir][s] =
                           [ino |-> ino, name |-> op.name, type |-> "file"]]
             IN  \/ /\ dirent' = new
                    /\ Enter(ino, inode[ino], Need)
                    /\ UNCHANGED <<op, result, writes, aborts>>
                 \/ dirent' \in {dirent, new} /\ Fail("device")
     \/ FreeSlots(op.dir) = {} /\ Fail("full") /\ UNCHANGED dirent
  /\ UNCHANGED <<inodeBitmap, blockBitmap, gdFreeInodes, gdFreeBlocks,
                 sbFreeInodes, sbFreeBlocks, inode, data, history>>

-----------------------------------------------------------------------------
(* ext4_alloc_block_run: the first run of free bits that is long enough.   *)
(* The blocks the file had before stay allocated.                          *)

AllocRunBitmap ==
  /\ pc = "blockBitmap"
  /\ \/ \E b \in Bits :
          /\ Least(b, FreeRuns(Need))
          /\ LET new == blockBitmap \cup Run(b, Need)
                 block == b + FirstDataBlock
             IN  \/ /\ blockBitmap' = new
                    /\ fi' = [fi EXCEPT !.map = "leaf", !.hi = HiOf(block),
                                        !.lo = block, !.len = Need, !.rest = {}]
                    /\ pc' = "blockGd"
                    /\ UNCHANGED <<op, ino, done, result, writes, aborts>>
                 \/ blockBitmap' \in {blockBitmap, new} /\ Fail("device")
     \/ FreeRuns(Need) = {} /\ Fail("full") /\ UNCHANGED blockBitmap
  /\ UNCHANGED <<inodeBitmap, gdFreeInodes, gdFreeBlocks, sbFreeInodes,
                 sbFreeBlocks, inode, dirent, data, history>>

AllocRunGd ==
  /\ pc = "blockGd"
  /\ gdFreeBlocks' \in {gdFreeBlocks, Less(gdFreeBlocks, Need)}
  /\ Goto("blockSuper")
  /\ UNCHANGED <<inodeBitmap, blockBitmap, gdFreeInodes, sbFreeInodes,
                 sbFreeBlocks, inode, dirent, data, ino, history>>

\* Mutant: the inode points to the new run before the data is there.
AllocRunSuperInodeFirst ==
  /\ pc = "blockSuper"
  /\ sbFreeBlocks' \in {sbFreeBlocks, Less(sbFreeBlocks, Need)}
  /\ Goto("inode")
  /\ UNCHANGED <<inodeBitmap, blockBitmap, gdFreeInodes, gdFreeBlocks,
                 sbFreeInodes, inode, dirent, data, ino, history>>

AllocRunSuper ==
  /\ pc = "blockSuper"
  /\ sbFreeBlocks' \in {sbFreeBlocks, Less(sbFreeBlocks, Need)}
  /\ Goto("data")
  /\ UNCHANGED <<inodeBitmap, blockBitmap, gdFreeInodes, gdFreeBlocks,
                 sbFreeInodes, inode, dirent, data, ino, history>>

-----------------------------------------------------------------------------
(* ext4_write_extent_blocks, one block of data at a time, then the inode.  *)

\* What the write of block b does to the disk.  A block of a directory
\* holds its entries: they are gone, and dirent tells what they were.
Store(b) ==
  /\ data' = [data EXCEPT ![b] = <<op.content, done + 1>>]
  /\ overwritten' = overwritten \cup {d \in Dirs : b \in Owned(inode[d])}

WriteData ==
  /\ pc = "data"
  /\ \/ /\ OnDevice(fi)
        /\ Store(fi.lo + done)
        /\ \/ /\ done' = done + 1
              /\ pc' = IF done + 1 = Need THEN "inode" ELSE "data"
              /\ UNCHANGED <<op, ino, fi, result, writes, aborts>>
           \/ Fail("device")
     \/ ~OnDevice(fi) /\ Fail("beyond") /\ UNCHANGED <<data, overwritten>>
  /\ UNCHANGED <<inodeBitmap, blockBitmap, gdFreeInodes, gdFreeBlocks,
                 sbFreeInodes, sbFreeBlocks, inode, dirent, missed>>

\* A directory whose inode points to a run of text has lost its entries.
WriteInode ==
  /\ pc = "inode"
  /\ LET new == [inode EXCEPT ![ino] = [fi EXCEPT !.size = Need]]
         lost == overwritten \cup (Dirs \cap {ino})
     IN  \/ /\ inode' = new /\ overwritten' = lost
            /\ Reset /\ result' = "ok" /\ UNCHANGED aborts
         \/ /\ \/ inode' = new /\ overwritten' = lost
               \/ UNCHANGED <<inode, overwritten>>
            /\ Fail("device")
  /\ UNCHANGED <<inodeBitmap, blockBitmap, gdFreeInodes, gdFreeBlocks,
                 sbFreeInodes, sbFreeBlocks, dirent, data, missed>>

\* A read that fails makes the function that needs it return 0, and the
\* call with it; only the superblock's read is skipped over instead (that
\* is a count which stays as it was).  It writes nothing, and so does a
\* refused data block that did not reach the medium.
ReadFails ==
  /\ pc \in {"inodeBitmap", "newInode", "dirEntry", "blockBitmap", "data", "inode"}
  /\ Fail("device") /\ UNCHANGED <<disk, history>>

\* Power is lost: memory is gone, the disk is what was written so far.
Crash ==
  /\ pc # "idle"
  /\ Reset /\ result' = "crash" /\ aborts' = aborts + 1
  /\ UNCHANGED <<disk, history>>

Next ==
  \/ \E d \in Dirs, name \in Names, c \in Contents : Begin(d, name, c)
  \/ AllocInodeBitmap \/ AllocInodeGd \/ AllocInodeSuper
  \/ WriteNewInode \/ AddDirEntry
  \/ AllocRunBitmap \/ AllocRunGd \/ AllocRunSuper
  \/ WriteData \/ WriteInode
  \/ ReadFails \/ Crash

Spec == Init /\ [][Next]_vars

-----------------------------------------------------------------------------
(* Reading: ext4_read_file and ext4_read_extent_blocks.                    *)

Smaller(a, b) == IF a <= b THEN a ELSE b

ReadBlocks(n) ==
  IF n.map = "leaf"
    THEN [k \in 1 .. Smaller(n.size, n.len) |-> data[n.lo + k - 1]]
    ELSE <<>>

\* What reading the name gives, as a set: {} when no entry of a file has
\* the name.  The first entry that matches counts.
ReadFile(d, name) ==
  {ReadBlocks(inode[dirent[d][s].ino]) :
     s \in {t \in Slots : Least(t, Match(d, name)) /\ dirent[d][t].type = "file"}}

\* How many blocks of the file ext4_write_file would overwrite in place.
Room(d, name) ==
  LET held == {inode[dirent[d][s].ino] : s \in Match(d, name)}
  IN  IF \E n \in held : n.map = "leaf"
        THEN (CHOOSE n \in held : n.map = "leaf").len
        ELSE 0

-----------------------------------------------------------------------------
(* Properties.                                                             *)

TypeOK ==
  /\ inodeBitmap \subseteq Inodes /\ blockBitmap \subseteq Bits
  /\ gdFreeInodes \in Nat /\ gdFreeBlocks \in Nat
  /\ sbFreeInodes \in Nat /\ sbFreeBlocks \in Nat
  /\ inode \in [Inodes -> InodeType]
  /\ dirent \in [Dirs -> [Slots -> EntryType]]
  /\ data \in [Blocks -> (Contents \cup {NoContent}) \X Nat]
  /\ pc \in {"idle", "inodeBitmap", "inodeGd", "inodeSuper", "newInode",
             "dirEntry", "blockBitmap", "blockGd", "blockSuper", "data", "inode"}
  /\ op \in [dir : Dirs, name : Names \cup {NoName},
             content : Contents \cup {NoContent}]
  /\ pc # "idle" => op.content \in Contents /\ op.name \in Names
  /\ pc \notin {"idle", "inodeBitmap"} => ino \in Inodes
  /\ ino \in 0 .. NInodes /\ fi \in InodeType /\ done \in Nat
  /\ result \in {"none", "ok", "device", "full", "beyond", "crash"}
  /\ writes \in Nat /\ aborts \in Nat
  /\ overwritten \subseteq Dirs /\ missed \subseteq Dirs \X Names

\* The inodes that some entry was made for.
Named == {dirent[d][s].ino : d \in Dirs, s \in Slots} \ {0}

\* A directory entry never leads to an inode that is free or that was never
\* written, whatever the step at which a creation is cut short (the order
\* of ext4_alloc_inode, ext4_write_inode and ext4_add_dir_entry).
EntriesInitialised == EntriesOK(inodeBitmap, inode, dirent)

\* No two entries lead to the inode of one file: a write to one name never
\* reaches another, also after a creation was cut short and retried.
OneNamePerInode == OneNameOK(dirent)

\* A directory holds a name twice only if a call that created the name failed
\* to read the entry that is there (ext4_find_in_dir returns 0 for both):
\* no crash, retry or other failure makes a second entry.
NamesUnique == NamesOK(dirent, missed)

\* A block that an inode owns is marked used, and no other inode owns it:
\* the next allocation cannot give it away (the bitmap is written before
\* the inode that points to the run).
BlocksConsistent == BlocksOK(blockBitmap, inode)

\* What the call in progress holds in memory agrees with the disk: the inode
\* it creates is allocated, unnamed and not a directory's, the run it got is
\* nobody else's, and it stays inside that run.
Creating == pc \in {"inodeGd", "inodeSuper", "newInode", "dirEntry"}
Holding  == pc \in {"blockGd", "blockSuper", "data", "inode"}
InFlight ==
  /\ Creating =>
       /\ ino \in inodeBitmap \ Dirs
       /\ \A d \in Dirs, s \in Slots : dirent[d][s].ino # ino
  /\ pc = "dirEntry" => inode[ino] = NewInode("file")
  /\ pc = "blockBitmap" \/ Holding =>
       ino \in Inodes /\ inode[ino].kind # "unused" /\ fi.kind = inode[ino].kind
  /\ pc = "blockBitmap" => done = 0
  /\ Holding =>
       /\ fi.map = "leaf" /\ Need <= fi.len /\ done <= Need
       /\ \A b \in Owned(fi) :
            /\ b - FirstDataBlock \in blockBitmap
            /\ \A j \in Inodes \ {ino} : b \notin Owned(inode[j])
  /\ pc \in {"blockGd", "blockSuper", "data"} => done < Need

\* The free counts on the disk may drift above what the bitmaps say (a
\* crash, or a refused write nobody looks at), never below: space that is
\* free is never reported as gone, and the saturating subtraction of the
\* code never has to saturate.
FreeCountsCover ==
  /\ Cardinality(FreeInodes) <= gdFreeInodes
  /\ Cardinality(FreeInodes) <= sbFreeInodes
  /\ Cardinality(FreeBits) <= gdFreeBlocks
  /\ Cardinality(FreeBits) <= sbFreeBlocks

\* An inode leaks only in a call that did not succeed, and at most one.
\* (What a directory that is overwritten had entries for is not counted.)
LeakBound ==
  Cardinality(inodeBitmap \ (Image.inodeBitmap \cup Named))
    <= aborts + (IF Creating THEN 1 ELSE 0)

\* No entry is renamed, redirected or taken for another, and entries are lost
\* in one way only: the name that the call was given is the directory's own,
\* and the text of the call replaces them (ext4_write_file does not look at
\* the type of what it found).  A write to a file costs no directory an entry.
EntriesPersist ==
  [][/\ \A d \in Dirs, s \in Slots :
          dirent[d][s].ino # 0 => dirent'[d][s] = dirent[d][s]
     /\ \A d \in overwritten' \ overwritten :
          \E s \in Match(op.dir, op.name) : dirent[op.dir][s].ino = d]_vars

\* A write is never refused because the driver itself sent it to a block
\* beyond the device.
WritesStayOnDevice == result # "beyond"

-----------------------------------------------------------------------------
(* The driver implements FileStore.                                        *)

Path == Dirs \X Names

Promise == INSTANCE FileStore WITH
  Paths    <- Path,
  Need     <- Size,
  Whole    <- [c \in Contents |-> {[k \in 1 .. Size[c] |-> <<c, k>>]}],
  Absent   <- {},
  Empty    <- {<<>>},
  file     <- [p \in Path |-> ReadFile(p[1], p[2])],
  room     <- [p \in Path |-> Room(p[1], p[2])],
  busy     <- IF pc = "idle" THEN <<>> ELSE <<<<op.dir, op.name>>, op.content>>,
  result   <- IF result \in {"device", "full", "beyond"} THEN "failed" ELSE result

\* Seen through the names, every step of the driver is a step of FileStore
\* (see there for what that means), with two exceptions: a name that a failed
\* lookup did not see may read as anything from then on, but no other name
\* changes with it; and nothing is promised once a directory is overwritten.
ImplementsFileStore ==
  /\ Promise!Init
  /\ [][\/ Promise!Next
        \/ \E p \in missed : Promise!Others(p)
        \/ overwritten' # {}]_(Promise!vars)

=============================================================================
