----------------------------- MODULE Ext4_proof -----------------------------
(***************************************************************************)
(* Safety of the ext4 write path, for every size of the disk, every image  *)
(* that is consistent to begin with and every number of calls, whatever    *)
(* block writes the device refuses and wherever the machine stops.         *)
(***************************************************************************)
EXTENDS Ext4, FiniteSetTheorems, TLAPS

\* The sets the free counts are taken of are finite.
LEMMA FreeFinite ==
  /\ IsFiniteSet(FreeInodes) /\ Cardinality(FreeInodes) \in Nat
  /\ IsFiniteSet(FreeBits) /\ Cardinality(FreeBits) \in Nat
<1>1. IsFiniteSet(Inodes) /\ IsFiniteSet(Bits)
  BY FS_Interval, ConstantsOK DEF Inodes, Bits
<1>2. IsFiniteSet(FreeInodes) /\ IsFiniteSet(FreeBits)
  BY <1>1, FS_Subset DEF FreeInodes, FreeBits
<1> QED
  BY <1>2, FS_CardinalityType

\* The values of Reset and Goto have the right types.
LEMMA FreshInodeType == NewInode("unused") \in InodeType /\ NewInode("file") \in InodeType
  BY DEF NewInode, InodeType

\* The image and the empty call in memory have their types.
LEMMA TypeInit == Init => TypeOK
<1> SUFFICES ASSUME Init PROVE TypeOK
  OBVIOUS
<1>1. /\ gdFreeInodes \in Nat /\ gdFreeBlocks \in Nat
      /\ sbFreeInodes \in Nat /\ sbFreeBlocks \in Nat
  <2>1. /\ gdFreeInodes = Cardinality(FreeInodes) /\ gdFreeBlocks = Cardinality(FreeBits)
        /\ sbFreeInodes = Cardinality(FreeInodes) /\ sbFreeBlocks = Cardinality(FreeBits)
    BY DEF Init
  <2> QED
    BY <2>1, FreeFinite
<1>2. op \in [dir : Dirs, name : Names \cup {NoName},
              content : Contents \cup {NoContent}]
  BY ConstantsOK DEF Init, NoOp
<1>3. ino \in 0 .. NInodes
  BY ConstantsOK DEF Init
<1> QED
  BY <1>1, <1>2, <1>3, ImageOK, FreshInodeType DEF Init, TypeOK

\* A call that is over leaves the variables of a call well typed.
LEMMA ResetType ==
  ASSUME TypeOK, Reset
  PROVE  /\ pc' = "idle" /\ op' \in [dir : Dirs, name : Names \cup {NoName},
                                     content : Contents \cup {NoContent}]
         /\ ino' \in 0 .. NInodes /\ fi' \in InodeType /\ done' \in Nat
         /\ writes' \in Nat
  BY ConstantsOK, FreshInodeType DEF Reset, NoOp, TypeOK

\* Entering a file leaves the variables of the call in their types.
LEMMA EnterType ==
  ASSUME TypeOK, NEW i \in Inodes, NEW need, Enter(i, inode[i], need)
  PROVE  /\ pc' \in {"data", "blockBitmap"} /\ ino' \in Inodes /\ ino' \in 0 .. NInodes
         /\ fi' \in InodeType /\ done' \in Nat
  BY DEF Enter, TypeOK, Inodes

\* A call in progress knows how many blocks it needs.
LEMMA NeedNat == TypeOK /\ pc # "idle" => Need \in Nat \ {0}
  BY ConstantsOK DEF Need, TypeOK

\* Entries found by name lead to inodes.
LEMMA MatchType ==
  ASSUME TypeOK, NEW d \in Dirs, NEW name, NEW s \in Match(d, name)
  PROVE  s \in Slots /\ dirent[d][s].ino \in Inodes
<1>1. s \in Slots /\ dirent[d][s].ino # 0
  BY DEF Match
<1>2. dirent[d][s] \in EntryType
  BY <1>1 DEF TypeOK
<1> QED
  BY <1>1, <1>2, ConstantsOK DEF EntryType, Inodes

\* Every block write, every failure and every crash keeps the types.
LEMMA TypeStep == TypeOK /\ [Next]_vars => TypeOK'
<1> SUFFICES ASSUME TypeOK, [Next]_vars PROVE TypeOK'
  OBVIOUS
<1>1. ASSUME NEW d \in Dirs, NEW name \in Names, NEW c \in Contents, Begin(d, name, c)
      PROVE  TypeOK'
  <2>1. /\ op' \in [dir : Dirs, name : Names \cup {NoName},
                    content : Contents \cup {NoContent}]
        /\ op'.content \in Contents /\ op'.name \in Names
    BY <1>1 DEF Begin
  <2>2. /\ pc' \in {"data", "blockBitmap", "inodeBitmap"} /\ ino' \in 0 .. NInodes
        /\ pc' # "inodeBitmap" => ino' \in Inodes
        /\ fi' \in InodeType /\ done' \in Nat
    <3>1. CASE \E s \in Slots : /\ Least(s, Match(d, name))
                  /\ Enter(dirent[d][s].ino, inode[dirent[d][s].ino], Size[c])
      BY <3>1, MatchType, EnterType DEF Least
    <3>2. CASE pc' = "inodeBitmap" /\ UNCHANGED <<ino, fi, done>>
      BY <3>2 DEF TypeOK
    <3> QED
      BY <1>1, <3>1, <3>2 DEF Begin
  <2>3. UNCHANGED <<disk, aborts, overwritten>> /\ writes' = writes + 1 /\ result' = "none"
    BY <1>1 DEF Begin
  <2>4. missed' \subseteq Dirs \X Names
    BY <1>1 DEF Begin, Match, TypeOK
  <2> QED
    BY <2>1, <2>2, <2>3, <2>4 DEF TypeOK, disk
<1>2. CASE AllocInodeBitmap
  <2>1. ASSUME Fail("device") \/ Fail("full"), inodeBitmap' \subseteq Inodes
        PROVE  TypeOK'
    BY <1>2, <2>1, ResetType DEF AllocInodeBitmap, TypeOK, Fail, history
  <2>2. ASSUME NEW i \in Inodes, inodeBitmap' = inodeBitmap \cup {i}, ino' = i,
               Goto("inodeGd")
        PROVE  TypeOK'
    BY <1>2, <2>2 DEF AllocInodeBitmap, TypeOK, Goto, Inodes, history
  <2> QED
    BY <1>2, <2>1, <2>2 DEF AllocInodeBitmap, TypeOK
<1>3. CASE AllocInodeGd \/ AllocInodeSuper
  BY <1>3 DEF AllocInodeGd, AllocInodeSuper, TypeOK, Goto, Less, history
<1>4. CASE WriteNewInode
  <2>1. [inode EXCEPT ![ino] = NewInode("file")] \in [Inodes -> InodeType]
    BY FreshInodeType DEF TypeOK
  <2>2. inode' \in [Inodes -> InodeType]
    BY <1>4, <2>1 DEF WriteNewInode, TypeOK
  <2>3. CASE Goto("dirEntry") /\ UNCHANGED ino
    BY <1>4, <2>2, <2>3 DEF WriteNewInode, TypeOK, Goto, history
  <2>4. CASE Fail("device")
    BY <1>4, <2>2, <2>4, ResetType DEF WriteNewInode, TypeOK, Fail, history
  <2> QED
    BY <1>4, <2>3, <2>4 DEF WriteNewInode
<1>5. CASE AddDirEntry
  <2> DEFINE entry == [ino |-> ino, name |-> op.name, type |-> "file"]
  <2>1. entry \in EntryType
    BY DEF TypeOK, EntryType
  <2>2. dirent' \in [Dirs -> [Slots -> EntryType]]
    <3>1. ASSUME NEW s \in Slots
          PROVE  [dirent EXCEPT ![op.dir][s] = entry] \in [Dirs -> [Slots -> EntryType]]
      BY <2>1 DEF TypeOK
    <3>2. dirent' = dirent \/ \E s \in Slots : dirent' = [dirent EXCEPT ![op.dir][s] = entry]
      BY <1>5 DEF AddDirEntry
    <3>3. dirent \in [Dirs -> [Slots -> EntryType]]
      BY DEF TypeOK
    <3> HIDE DEF entry
    <3> QED
      BY <3>1, <3>2, <3>3, Zenon
  <2>3. ASSUME Fail("device") \/ Fail("full") PROVE TypeOK'
    BY <1>5, <2>2, <2>3, ResetType DEF AddDirEntry, TypeOK, Fail, history
  <2>4. ASSUME Enter(ino, inode[ino], Need), UNCHANGED <<op, result, writes, aborts>>
        PROVE  TypeOK'
    BY <1>5, <2>2, <2>4, EnterType DEF AddDirEntry, TypeOK, history
  <2> QED
    BY <1>5, <2>3, <2>4 DEF AddDirEntry
<1>6. CASE AllocRunBitmap
  <2>1. /\ pc = "blockBitmap"
        /\ UNCHANGED <<inodeBitmap, gdFreeInodes, gdFreeBlocks, sbFreeInodes,
                       sbFreeBlocks, inode, dirent, data, history>>
    BY <1>6 DEF AllocRunBitmap
  <2>2. ASSUME Fail("device") \/ Fail("full"), blockBitmap' \subseteq Bits
        PROVE  TypeOK'
    BY <2>1, <2>2, ResetType DEF TypeOK, Fail, history
  <2>3. ASSUME NEW b \in Bits
        PROVE  [fi EXCEPT !.map = "leaf", !.hi = HiOf(b + FirstDataBlock),
                          !.lo = b + FirstDataBlock, !.len = Need, !.rest = {}] \in InodeType
    <3>1. Need \in Nat /\ b + FirstDataBlock \in Nat
      BY <2>1, NeedNat, ConstantsOK DEF Bits
    <3>2. HiOf(b + FirstDataBlock) \in Nat
      BY <3>1 DEF HiOf
    <3> QED
      BY <3>1, <3>2 DEF TypeOK, InodeType
  <2>4. ASSUME fi' \in InodeType, blockBitmap' \subseteq Bits,
               pc' = "blockGd", UNCHANGED <<op, ino, done, result, writes, aborts>>
        PROVE  TypeOK'
    BY <2>1, <2>4 DEF TypeOK, history
  <2>5. ASSUME NEW b \in FreeRuns(Need)
        PROVE  blockBitmap \cup Run(b, Need) \subseteq Bits
    BY DEF TypeOK, FreeRuns, FreeBits
  <2>6. blockBitmap' \subseteq Bits
    BY <1>6, <2>5 DEF AllocRunBitmap, TypeOK, Least
  <2> QED
    BY <1>6, <2>2, <2>3, <2>4, <2>6 DEF AllocRunBitmap
<1>7. CASE AllocRunGd \/ AllocRunSuper
  BY <1>7, NeedNat DEF AllocRunGd, AllocRunSuper, TypeOK, Goto, Less, history
<1>8. CASE WriteData
  <2>1. /\ data' \in [Blocks -> (Contents \cup {NoContent}) \X Nat]
        /\ overwritten' \subseteq Dirs
    <3>1. ASSUME NEW b, Store(b)
          PROVE  /\ data' \in [Blocks -> (Contents \cup {NoContent}) \X Nat]
                 /\ overwritten' \subseteq Dirs
      <4>1. <<op.content, done + 1>> \in (Contents \cup {NoContent}) \X Nat
        BY DEF TypeOK
      <4> QED
        BY <3>1, <4>1 DEF Store, TypeOK
    <3> QED
      BY <1>8, <3>1 DEF WriteData, TypeOK
  <2>2. ASSUME Fail("device") \/ Fail("beyond") PROVE TypeOK'
    BY <1>8, <2>1, <2>2, ResetType DEF WriteData, TypeOK, Fail
  <2>3. ASSUME done' = done + 1, pc' = IF done + 1 = Need THEN "inode" ELSE "data",
               UNCHANGED <<op, ino, fi, result, writes, aborts>>
        PROVE  TypeOK'
    BY <1>8, <2>1, <2>3 DEF WriteData, TypeOK
  <2> QED
    BY <1>8, <2>2, <2>3 DEF WriteData
<1>9. CASE WriteInode
  <2>1. inode' \in [Inodes -> InodeType]
    <3>1. [fi EXCEPT !.size = Need] \in InodeType
      BY <1>9, NeedNat DEF WriteInode, TypeOK, InodeType
    <3> QED
      BY <1>9, <3>1 DEF WriteInode, TypeOK
  <2>2. CASE Fail("device")
    BY <1>9, <2>1, <2>2, ResetType DEF WriteInode, TypeOK, Fail
  <2>3. CASE Reset /\ result' = "ok" /\ UNCHANGED aborts
    BY <1>9, <2>1, <2>3, ResetType DEF WriteInode, TypeOK
  <2> QED
    BY <1>9, <2>2, <2>3 DEF WriteInode
<1>10. CASE ReadFails
  BY <1>10, ResetType DEF ReadFails, Fail, TypeOK, disk, history
<1>11. CASE Crash
  BY <1>11, ResetType DEF Crash, TypeOK, disk, history
<1>12. CASE UNCHANGED vars
  BY <1>12 DEF vars, disk, volatile, history, TypeOK
<1> QED
  BY <1>1, <1>2, <1>3, <1>4, <1>5, <1>6, <1>7, <1>8, <1>9, <1>10, <1>11, <1>12
     DEF Next

(***************************************************************************)
(* TypeOK of Ext4.tla: what the driver keeps on the disk and in memory     *)
(* stays well formed; a call in progress has an inode of the table and a   *)
(* content to write.                                                       *)
(***************************************************************************)
THEOREM TypeCorrect == Spec => []TypeOK
  BY TypeInit, TypeStep, PTL DEF Spec

-----------------------------------------------------------------------------
(***************************************************************************)
(* The structural invariants.  None of them is inductive alone: that a new *)
(* entry names a fresh inode needs InFlight, InFlight needs that entries   *)
(* only name allocated inodes, and that a block of data lands on no other  *)
(* directory than the call names needs that blocks have one owner.         *)
(***************************************************************************)
DirsKept == Dirs \subseteq inodeBitmap /\ DirsOK(inode, dirent)

DiskOK == EntriesInitialised /\ OneNamePerInode /\ BlocksConsistent /\ DirsKept

IInv == TypeOK /\ DiskOK /\ InFlight

\* A consistent image satisfies the invariant.
LEMMA CoreInit == Init => DiskOK /\ InFlight
<1> SUFFICES ASSUME Init PROVE DiskOK /\ InFlight
  OBVIOUS
<1>1. DiskOK
  BY ImageOK DEF Init, DiskOK, EntriesInitialised, OneNamePerInode,
                 BlocksConsistent, DirsKept
<1>2. InFlight
  BY DEF Init, InFlight, Creating, Holding
<1> QED
  BY <1>1, <1>2

\* Between calls there is nothing in memory to agree with the disk.
LEMMA IdleInFlight == ASSUME pc' \in {"idle", "inodeBitmap"} PROVE InFlight'
  BY DEF InFlight, Creating, Holding

\* The extents of the three kinds of inode records the steps build.
LEMMA OwnedFacts ==
  /\ Owned(NewInode("file")) = {}
  /\ \A n \in InodeType, k \in Nat : Owned([n EXCEPT !.size = k]) = Owned(n)
  /\ \A n \in InodeType, h, b, k \in Nat :
       Owned([n EXCEPT !.map = "leaf", !.hi = h, !.lo = b, !.len = k, !.rest = {}])
         = b .. (b + k - 1)
<1>1. Owned(NewInode("file")) = {}
  BY DEF Owned, FirstExtent, NewInode
<1>2. \A n \in InodeType, k \in Nat : Owned([n EXCEPT !.size = k]) = Owned(n)
  BY DEF Owned, FirstExtent, InodeType
<1>3. \A n \in InodeType, h, b, k \in Nat :
        Owned([n EXCEPT !.map = "leaf", !.hi = h, !.lo = b, !.len = k, !.rest = {}])
          = b .. (b + k - 1)
  BY DEF Owned, FirstExtent, InodeType
<1> QED
  BY <1>1, <1>2, <1>3

\* Setting one inode keeps the disk consistent when what it owns is marked
\* used and not owned by another, and it keeps its kind if it is named.
LEMMA SetInode ==
  ASSUME IInv, ino \in Inodes, NEW n \in InodeType,
         inode' = [inode EXCEPT ![ino] = n],
         UNCHANGED <<inodeBitmap, blockBitmap, dirent>>,
         \/ n.kind = inode[ino].kind
         \/ (ino \notin Dirs /\ \A d \in Dirs, s \in Slots : dirent[d][s].ino # ino),
         \A b \in Owned(n) : /\ b - FirstDataBlock \in blockBitmap
                             /\ \A j \in Inodes \ {ino} : b \notin Owned(inode[j])
  PROVE  DiskOK'
<1> USE DEF IInv, DiskOK
<1>1. EntriesInitialised'
  BY DEF EntriesInitialised, EntriesOK, TypeOK
<1>2. OneNamePerInode'
  BY DEF OneNamePerInode, OneNameOK
<1>3. BlocksConsistent'
  <2> SUFFICES ASSUME NEW i \in Inodes, NEW b \in Owned(inode'[i])
               PROVE  /\ b - FirstDataBlock \in blockBitmap
                      /\ \A j \in Inodes \ {i} : b \notin Owned(inode'[j])
    BY DEF BlocksConsistent, BlocksOK
  <2>1. /\ inode'[ino] = n
        /\ \A j \in Inodes \ {ino} : inode'[j] = inode[j]
    BY DEF TypeOK
  <2>2. CASE i = ino
    BY <2>1, <2>2
  <2>3. CASE i # ino
    BY <2>1, <2>3 DEF BlocksConsistent, BlocksOK
  <2> QED
    BY <2>2, <2>3
<1>4. DirsKept'
  BY DEF DirsKept, DirsOK, TypeOK
<1> QED
  BY <1>1, <1>2, <1>3, <1>4

\* Bits of the bitmaps that become 1 disturb nothing.
LEMMA MoreUsed ==
  ASSUME IInv, inodeBitmap \subseteq inodeBitmap', blockBitmap \subseteq blockBitmap',
         UNCHANGED <<inode, dirent>>
  PROVE  DiskOK'
  BY DEF IInv, DiskOK, EntriesInitialised, EntriesOK, OneNamePerInode, OneNameOK,
         BlocksConsistent, BlocksOK, DirsKept, DirsOK

-----------------------------------------------------------------------------
\* The lookup: what the name leads to is a file or a directory, and its first
\* extent is entered only if it is long enough.
LEMMA BeginKeeps ==
  ASSUME IInv, NEW d \in Dirs, NEW name \in Names, NEW c \in Contents,
         Begin(d, name, c)
  PROVE  DiskOK' /\ InFlight'
<1>1. UNCHANGED disk
  BY DEF Begin
<1>2. DiskOK'
  BY <1>1, MoreUsed DEF disk
<1>3. CASE \E s \in Slots : /\ Least(s, Match(d, name))
             /\ Enter(dirent[d][s].ino, inode[dirent[d][s].ino], Size[c])
  <2>1. PICK s \in Slots : /\ Least(s, Match(d, name))
             /\ Enter(dirent[d][s].ino, inode[dirent[d][s].ino], Size[c])
    BY <1>3
  <2> DEFINE i == dirent[d][s].ino
  <2>2. i \in Inodes /\ i # 0
    BY <2>1, MatchType, ConstantsOK DEF Least, IInv, Inodes
  <2>3. inode[i].kind # "unused"
    <3>1. inode[i].kind = dirent[d][s].type
      BY <2>2 DEF IInv, DiskOK, EntriesInitialised, EntriesOK
    <3>2. dirent[d][s] \in EntryType
      BY DEF IInv, TypeOK
    <3> QED
      BY <3>1, <3>2 DEF EntryType
  <2>4. ino' = i /\ fi' = inode[i] /\ done' = 0 /\ op'.content = c /\ inode' = inode
        /\ blockBitmap' = blockBitmap
    BY <1>1, <2>1 DEF Begin, Enter, disk
  <2>5. Need' = Size[c] /\ Size[c] \in Nat \ {0}
    BY <2>4, ConstantsOK DEF Need
  <2> HIDE DEF i
  <2>6. CASE pc' = "blockBitmap"
    BY <1>2, <2>2, <2>3, <2>4, <2>6 DEF InFlight, Creating, Holding
  <2>7. CASE pc' = "data" /\ Reusable(inode[i], Size[c])
    <3>1. inode[i].map = "leaf" /\ Size[c] <= inode[i].len
      BY <2>2, <2>5, <2>7 DEF Reusable, IInv, TypeOK, InodeType
    <3>2. \A b \in Owned(inode[i]) :
            /\ b - FirstDataBlock \in blockBitmap
            /\ \A j \in Inodes \ {i} : b \notin Owned(inode[j])
      BY <2>2 DEF IInv, DiskOK, BlocksConsistent, BlocksOK
    <3> QED
      BY <1>2, <2>2, <2>3, <2>4, <2>5, <2>7, <3>1, <3>2 DEF InFlight, Creating, Holding
  <2> QED
    BY <2>1, <2>6, <2>7, <1>2 DEF Enter, i
<1>4. CASE pc' = "inodeBitmap"
  BY <1>2, <1>4, IdleInFlight
<1> QED
  BY <1>3, <1>4 DEF Begin

\* ext4_alloc_inode marks an inode that no entry names.
LEMMA AllocInodeKeeps ==
  ASSUME IInv, AllocInodeBitmap PROVE DiskOK' /\ InFlight'
<1>1. DiskOK'
  BY MoreUsed DEF AllocInodeBitmap
<1>2. ASSUME NEW i \in Inodes, Least(i, FreeInodes),
             inodeBitmap' = inodeBitmap \cup {i}, ino' = i, Goto("inodeGd")
      PROVE  InFlight'
  <2>1. i \notin inodeBitmap
    BY <1>2 DEF Least, FreeInodes
  <2>2. i \notin Dirs /\ \A d \in Dirs, s \in Slots : dirent[d][s].ino # i
    <3>1. i # 0
      BY ConstantsOK DEF Inodes
    <3>2. i \notin Dirs
      BY <2>1 DEF IInv, DiskOK, DirsKept
    <3>3. ASSUME NEW d \in Dirs, NEW s \in Slots PROVE dirent[d][s].ino # i
      BY <2>1, <3>1 DEF IInv, DiskOK, EntriesInitialised, EntriesOK
    <3> QED
      BY <3>2, <3>3
  <2>3. UNCHANGED dirent /\ pc' = "inodeGd"
    BY <1>2 DEF AllocInodeBitmap, Goto
  <2> QED
    BY <1>2, <2>2, <2>3 DEF InFlight, Creating, Holding
<1>3. CASE Fail("device") \/ Fail("full")
  BY <1>1, <1>3, IdleInFlight DEF Fail, Reset
<1> QED
  BY <1>1, <1>2, <1>3 DEF AllocInodeBitmap

\* The writes of the free counts touch nothing the invariant speaks of.
LEMMA CountsKeep ==
  ASSUME IInv, AllocInodeGd \/ AllocInodeSuper \/ AllocRunGd \/ AllocRunSuper
  PROVE  DiskOK' /\ InFlight'
<1>1. UNCHANGED <<inodeBitmap, blockBitmap, inode, dirent, ino, op, fi, done>>
  BY DEF AllocInodeGd, AllocInodeSuper, AllocRunGd, AllocRunSuper, Goto
<1>2. DiskOK'
  BY <1>1, MoreUsed
<1>3. \/ pc \in {"inodeGd", "inodeSuper"} /\ pc' \in {"inodeSuper", "newInode"}
      \/ pc \in {"blockGd", "blockSuper"} /\ pc' \in {"blockSuper", "data"}
  BY DEF AllocInodeGd, AllocInodeSuper, AllocRunGd, AllocRunSuper, Goto
<1>4. InFlight'
  BY <1>1, <1>3 DEF IInv, InFlight, Creating, Holding, Need
<1> QED
  BY <1>2, <1>4

\* The write of the new, empty inode.
LEMMA NewInodeKeeps ==
  ASSUME IInv, WriteNewInode PROVE DiskOK' /\ InFlight'
<1>1. pc = "newInode" /\ ino \in Inodes
  BY DEF WriteNewInode, IInv, TypeOK
<1>2. ino \in inodeBitmap \ Dirs /\ \A d \in Dirs, s \in Slots : dirent[d][s].ino # ino
  BY <1>1 DEF IInv, InFlight, Creating
<1>3. UNCHANGED <<inodeBitmap, blockBitmap, dirent>>
  BY DEF WriteNewInode
<1>4. DiskOK'
  <2>1. CASE inode' = [inode EXCEPT ![ino] = NewInode("file")]
    BY <1>1, <1>2, <1>3, <2>1, FreshInodeType, OwnedFacts, SetInode
  <2>2. CASE inode' = inode
    BY <1>3, <2>2, MoreUsed
  <2> QED
    BY <2>1, <2>2 DEF WriteNewInode
<1>5. CASE inode' = [inode EXCEPT ![ino] = NewInode("file")] /\ Goto("dirEntry")
           /\ UNCHANGED ino
  <2>1. inode'[ino'] = NewInode("file") /\ pc' = "dirEntry"
    BY <1>1, <1>5 DEF IInv, TypeOK, Goto
  <2> QED
    BY <1>2, <1>3, <1>4, <1>5, <2>1 DEF InFlight, Creating, Holding
<1>6. CASE Fail("device")
  BY <1>4, <1>6, IdleInFlight DEF Fail, Reset
<1> QED
  BY <1>5, <1>6 DEF WriteNewInode

\* ext4_add_dir_entry: the one entry that names the new inode.
LEMMA AddDirEntryKeeps ==
  ASSUME IInv, AddDirEntry PROVE DiskOK' /\ InFlight'
<1> DEFINE entry == [ino |-> ino, name |-> op.name, type |-> "file"]
<1>1. pc = "dirEntry" /\ ino \in Inodes /\ op.dir \in Dirs
  BY DEF AddDirEntry, IInv, TypeOK
<1>2. /\ ino \in inodeBitmap \ Dirs /\ inode[ino] = NewInode("file")
      /\ \A d \in Dirs, s \in Slots : dirent[d][s].ino # ino
  BY <1>1 DEF IInv, InFlight, Creating
<1>3. UNCHANGED <<inodeBitmap, blockBitmap, inode>>
  BY DEF AddDirEntry
<1>4. ASSUME NEW s \in Slots, dirent' = [dirent EXCEPT ![op.dir][s] = entry]
      PROVE  DiskOK'
  <2>1. \A d \in Dirs, t \in Slots :
          dirent'[d][t] = IF d = op.dir /\ t = s THEN entry ELSE dirent[d][t]
    BY <1>1, <1>4 DEF IInv, TypeOK
  <2>2. inode[ino].kind = "file"
    BY <1>2 DEF NewInode
  <2>3. EntriesInitialised'
    BY <1>2, <1>3, <2>1, <2>2 DEF EntriesInitialised, EntriesOK, IInv, DiskOK
  <2>4. OneNamePerInode'
    BY <1>2, <2>1 DEF OneNamePerInode, OneNameOK, IInv, DiskOK
  <2>5. BlocksConsistent' /\ DirsKept'
    BY <1>3, <2>1 DEF BlocksConsistent, BlocksOK, DirsKept, DirsOK, IInv, DiskOK
  <2> QED
    BY <2>3, <2>4, <2>5 DEF DiskOK
<1>5. DiskOK'
  <2>1. dirent' = dirent \/ \E s \in Slots : dirent' = [dirent EXCEPT ![op.dir][s] = entry]
    BY DEF AddDirEntry
  <2>2. CASE dirent' = dirent
    BY <1>3, <2>2, MoreUsed
  <2> QED
    BY <1>4, <2>1, <2>2
<1>6. CASE Enter(ino, inode[ino], Need) /\ UNCHANGED <<op, result, writes, aborts>>
  <2>1. Need \in Nat \ {0}
    BY <1>1, NeedNat DEF IInv
  <2>2. ~Reusable(inode[ino], Need)
    BY <1>2, <2>1 DEF Reusable, NewInode
  <2>3. pc' = "blockBitmap" /\ ino' = ino /\ fi' = inode[ino] /\ inode' = inode
        /\ done' = 0
    BY <1>3, <1>6, <2>2 DEF Enter
  <2> QED
    BY <1>1, <1>2, <1>5, <2>3 DEF InFlight, Creating, Holding, NewInode
<1>7. CASE Fail("device") \/ Fail("full")
  BY <1>5, <1>7, IdleInFlight DEF Fail, Reset
<1> QED
  BY <1>6, <1>7 DEF AddDirEntry

\* ext4_alloc_block_run marks a run that nobody owned.
LEMMA AllocRunKeeps ==
  ASSUME IInv, AllocRunBitmap PROVE DiskOK' /\ InFlight'
<1>1. pc = "blockBitmap" /\ ino \in Inodes /\ fi \in InodeType
      /\ inode[ino].kind # "unused" /\ fi.kind = inode[ino].kind /\ Need \in Nat \ {0}
  BY NeedNat DEF AllocRunBitmap, IInv, TypeOK, InFlight
<1>2. UNCHANGED <<inodeBitmap, inode, dirent>> /\ blockBitmap \subseteq blockBitmap'
  BY DEF AllocRunBitmap
<1>3. DiskOK'
  BY <1>2, MoreUsed
<1>4. ASSUME NEW b \in Bits, Least(b, FreeRuns(Need)),
             blockBitmap' = blockBitmap \cup Run(b, Need),
             fi' = [fi EXCEPT !.map = "leaf", !.hi = HiOf(b + FirstDataBlock),
                              !.lo = b + FirstDataBlock, !.len = Need, !.rest = {}],
             pc' = "blockGd", UNCHANGED <<op, ino, done, result, writes, aborts>>
      PROVE  InFlight'
  <2>1. b \in Nat /\ b + FirstDataBlock \in Nat /\ HiOf(b + FirstDataBlock) \in Nat
    BY ConstantsOK DEF Bits, HiOf
  <2>2. Owned(fi') = (b + FirstDataBlock) .. (b + FirstDataBlock + Need - 1)
    BY <1>1, <1>4, <2>1 DEF Owned, FirstExtent, InodeType
  <2>3. ASSUME NEW x \in Owned(fi')
        PROVE  /\ x - FirstDataBlock \in blockBitmap'
               /\ \A j \in Inodes \ {ino} : x \notin Owned(inode[j])
    <3>1. x - FirstDataBlock \in Run(b, Need)
      BY <1>1, <2>1, <2>2, <2>3, ConstantsOK DEF Run
    <3>2. Run(b, Need) \subseteq FreeBits
      BY <1>4 DEF Least, FreeRuns
    <3>3. x - FirstDataBlock \notin blockBitmap
      BY <3>1, <3>2 DEF FreeBits
    <3> QED
      BY <1>4, <3>1, <3>3 DEF IInv, DiskOK, BlocksConsistent, BlocksOK
  <2>4. fi'.map = "leaf" /\ fi'.len = Need /\ fi'.kind = fi.kind
    BY <1>1, <1>4 DEF InodeType
  <2>5. Need' = Need /\ done' = 0
    BY <1>1, <1>4 DEF Need, IInv, InFlight
  <2> QED
    BY <1>1, <1>2, <1>4, <2>3, <2>4, <2>5 DEF InFlight, Creating, Holding
<1>5. CASE Fail("device") \/ Fail("full")
  BY <1>3, <1>5, IdleInFlight DEF Fail, Reset
<1> QED
  BY <1>3, <1>4, <1>5 DEF AllocRunBitmap

\* Writes of data go to blocks of the call alone.
LEMMA WriteDataKeeps ==
  ASSUME IInv, WriteData PROVE DiskOK' /\ InFlight'
<1>1. pc = "data" /\ ino \in Inodes /\ Need \in Nat \ {0} /\ done \in Nat /\ done < Need
  BY NeedNat DEF WriteData, IInv, TypeOK, InFlight
<1>2. UNCHANGED <<inodeBitmap, blockBitmap, inode, dirent>>
  BY DEF WriteData
<1>3. DiskOK'
  BY <1>2, MoreUsed
<1>4. ASSUME done' = done + 1, pc' = IF done + 1 = Need THEN "inode" ELSE "data",
             UNCHANGED <<op, ino, fi, result, writes, aborts>>
      PROVE  InFlight'
  <2>1. Need' = Need
    BY <1>4 DEF Need
  <2>2. done' <= Need /\ (pc' = "data" => done' < Need) /\ pc' \in {"inode", "data"}
    BY <1>1, <1>4
  <2> QED
    BY <1>1, <1>2, <1>4, <2>1, <2>2 DEF IInv, InFlight, Creating, Holding
<1>5. CASE Fail("device") \/ Fail("beyond")
  BY <1>3, <1>5, IdleInFlight DEF Fail, Reset
<1> QED
  BY <1>3, <1>4, <1>5 DEF WriteData

\* The final write of the inode gives it the run that the call holds.
LEMMA WriteInodeKeeps ==
  ASSUME IInv, WriteInode PROVE DiskOK' /\ InFlight'
<1> DEFINE n == [fi EXCEPT !.size = Need]
<1>1. pc = "inode" /\ ino \in Inodes /\ fi \in InodeType /\ Need \in Nat
      /\ fi.kind = inode[ino].kind
  BY NeedNat DEF WriteInode, IInv, TypeOK, InFlight, Holding
<1>2. n \in InodeType /\ n.kind = inode[ino].kind
  BY <1>1 DEF InodeType
<1>3. Owned(n) = Owned(fi)
  BY <1>1 DEF Owned, FirstExtent, InodeType
<1>4. \A b \in Owned(n) : /\ b - FirstDataBlock \in blockBitmap
                          /\ \A j \in Inodes \ {ino} : b \notin Owned(inode[j])
  BY <1>1, <1>3 DEF IInv, InFlight, Holding
<1>5. UNCHANGED <<inodeBitmap, blockBitmap, dirent>> /\ pc' = "idle"
  BY DEF WriteInode, Fail, Reset
<1>6. inode' = inode \/ inode' = [inode EXCEPT ![ino] = n]
  BY DEF WriteInode
<1> HIDE DEF n
<1>7. DiskOK'
  <2>1. CASE inode' = inode
    BY <1>5, <2>1, MoreUsed
  <2>2. CASE inode' = [inode EXCEPT ![ino] = n]
    <3>1. \/ n.kind = inode[ino].kind
          \/ (ino \notin Dirs /\ \A d \in Dirs, s \in Slots : dirent[d][s].ino # ino)
      BY <1>2
    <3> QED
      BY <1>1, <1>2, <1>4, <1>5, <2>2, <3>1, SetInode, Zenon
  <2> QED
    BY <1>6, <2>1, <2>2
<1> QED
  BY <1>5, <1>7, IdleInFlight

\* Where a call is cut short, the disk alone satisfies the invariant.
LEMMA StopKeeps ==
  ASSUME IInv, ReadFails \/ Crash PROVE DiskOK' /\ InFlight'
<1>1. UNCHANGED disk /\ pc' = "idle"
  BY DEF ReadFails, Crash, Fail, Reset
<1> QED
  BY <1>1, IdleInFlight, MoreUsed DEF disk

\* Every step keeps the invariant.
LEMMA CoreStep ==
  ASSUME IInv, [Next]_vars PROVE DiskOK' /\ InFlight'
<1>1. CASE UNCHANGED vars
  <2>1. DiskOK'
    BY <1>1, MoreUsed DEF vars, disk
  <2>2. InFlight'
    BY <1>1 DEF vars, disk, volatile, IInv, InFlight, Creating, Holding, Need
  <2> QED
    BY <2>1, <2>2
<1>2. CASE AllocInodeGd \/ AllocInodeSuper \/ AllocRunGd \/ AllocRunSuper
  BY <1>2, CountsKeep
<1>3. CASE ReadFails \/ Crash
  BY <1>3, StopKeeps
<1> QED
  BY <1>1, <1>2, <1>3, BeginKeeps, AllocInodeKeeps, NewInodeKeeps, AddDirEntryKeeps,
     AllocRunKeeps, WriteDataKeeps, WriteInodeKeeps DEF Next

\* The inductive invariant holds in every state.
THEOREM Inductive == Spec => []IInv
<1>1. Init => IInv
  BY TypeInit, CoreInit DEF IInv
<1>2. IInv /\ [Next]_vars => IInv'
  BY TypeStep, CoreStep DEF IInv
<1> QED
  BY <1>1, <1>2, PTL DEF Spec

(***************************************************************************)
(* What a crash or a refused write can leave behind on the disk is at most *)
(* a leak: entries lead to allocated, initialised inodes, no two names     *)
(* share a file, no two inodes share a block, and no block that a file     *)
(* holds is free.                                                          *)
(***************************************************************************)
THEOREM CrashConsistent ==
  Spec => [](EntriesInitialised /\ OneNamePerInode /\ BlocksConsistent /\ InFlight)
<1>1. IInv => EntriesInitialised /\ OneNamePerInode /\ BlocksConsistent /\ InFlight
  BY DEF IInv, DiskOK
<1> QED
  BY <1>1, Inductive, PTL

\* OneNamePerInode of Ext4.tla: no two entries lead to one file, whatever was cut
\* short and retried (ext4_alloc_inode marks the bitmap first).
THEOREM OneFileOneName == Spec => []OneNamePerInode
  BY CrashConsistent, PTL

\* BlocksConsistent of Ext4.tla: a block that an inode owns is marked and nobody
\* else's (the bitmap is written before the inode).
THEOREM BlocksOwned == Spec => []BlocksConsistent
  BY CrashConsistent, PTL

-----------------------------------------------------------------------------
\* Only one step makes entries.
LEMMA EntriesStep ==
  ASSUME [Next]_vars, dirent' # dirent PROVE AddDirEntry
<1>1. CASE UNCHANGED vars
  BY <1>1 DEF vars, disk
<1>2. CASE WriteData
  BY <1>2 DEF WriteData
<1>3. CASE \E d \in Dirs, name \in Names, c \in Contents : Begin(d, name, c)
  BY <1>3 DEF Begin, disk
<1>4. CASE ReadFails \/ Crash
  BY <1>4 DEF ReadFails, Crash, disk
<1>5. CASE AllocInodeBitmap \/ AllocInodeGd \/ AllocInodeSuper \/ WriteNewInode
           \/ AllocRunBitmap \/ AllocRunGd \/ AllocRunSuper \/ WriteInode
  BY <1>5 DEF AllocInodeBitmap, AllocInodeGd, AllocInodeSuper, WriteNewInode,
              AllocRunBitmap, AllocRunGd, AllocRunSuper, WriteInode
<1> QED
  BY <1>1, <1>2, <1>3, <1>4, <1>5 DEF Next

\* What the one step does: it fills a slot that was free with the call's name.
LEMMA EntryAdded ==
  ASSUME IInv, AddDirEntry
  PROVE  \/ dirent' = dirent
         \/ \E s \in Slots :
              /\ dirent[op.dir][s].ino = 0
              /\ \A d \in Dirs, t \in Slots :
                   dirent'[d][t] = IF d = op.dir /\ t = s
                                     THEN [ino |-> ino, name |-> op.name, type |-> "file"]
                                     ELSE dirent[d][t]
<1> DEFINE entry == [ino |-> ino, name |-> op.name, type |-> "file"]
<1>1. op.dir \in Dirs /\ dirent \in [Dirs -> [Slots -> EntryType]]
  BY DEF IInv, TypeOK
<1>2. \/ dirent' = dirent
      \/ \E s \in Slots : /\ s \in FreeSlots(op.dir)
                          /\ dirent' = [dirent EXCEPT ![op.dir][s] = entry]
  BY DEF AddDirEntry, Least
<1>3. ASSUME NEW s \in Slots, s \in FreeSlots(op.dir),
             dirent' = [dirent EXCEPT ![op.dir][s] = entry]
      PROVE  /\ dirent[op.dir][s].ino = 0
             /\ \A d \in Dirs, t \in Slots :
                  dirent'[d][t] = IF d = op.dir /\ t = s THEN entry ELSE dirent[d][t]
  <2>1. dirent[op.dir][s].ino = 0
    BY <1>3 DEF FreeSlots
  <2> HIDE DEF entry
  <2> QED
    BY <1>1, <1>3, <2>1
<1> HIDE DEF entry
<1>4. \/ dirent' = dirent
      \/ \E s \in Slots : /\ dirent[op.dir][s].ino = 0
                          /\ \A d \in Dirs, t \in Slots :
                               dirent'[d][t] = IF d = op.dir /\ t = s THEN entry ELSE dirent[d][t]
  BY <1>2, <1>3
<1> QED
  BY <1>4 DEF entry

\* What history has recorded stays recorded.
LEMMA HistoryStep ==
  ASSUME [Next]_vars PROVE missed \subseteq missed' /\ overwritten \subseteq overwritten'
<1>1. CASE UNCHANGED vars
  BY <1>1 DEF vars, history
<1>2. CASE WriteData \/ WriteInode
  BY <1>2 DEF WriteData, Store, WriteInode
<1>3. CASE \E d \in Dirs, name \in Names, c \in Contents : Begin(d, name, c)
  BY <1>3 DEF Begin
<1>4. CASE AllocInodeBitmap \/ AllocInodeGd \/ AllocInodeSuper \/ WriteNewInode
           \/ AddDirEntry \/ AllocRunBitmap \/ AllocRunGd \/ AllocRunSuper
           \/ ReadFails \/ Crash
  BY <1>4 DEF AllocInodeBitmap, AllocInodeGd, AllocInodeSuper, WriteNewInode, AddDirEntry,
              AllocRunBitmap, AllocRunGd, AllocRunSuper, ReadFails, Crash, history
<1> QED
  BY <1>1, <1>2, <1>3, <1>4 DEF Next

\* While a call creates a name, no entry of its directory has the name, unless
\* the call's lookup failed to see it.
Fresh == pc = "inodeBitmap" \/ Creating =>
           Match(op.dir, op.name) = {} \/ <<op.dir, op.name>> \in missed

NInv == NamesUnique /\ Fresh

\* Every step keeps names unique: a name that is being created is in no
\* entry of its directory, or it was missed.
LEMMA NamesStep ==
  ASSUME IInv, NInv, [Next]_vars PROVE NInv'
<1>1. CASE AddDirEntry
  <2>1. pc' \in {"idle", "data", "blockBitmap"} /\ missed' = missed
    BY <1>1 DEF AddDirEntry, Fail, Reset, Enter, history
  <2>2. Fresh'
    BY <2>1 DEF Fresh, Creating
  <2>3. /\ Match(op.dir, op.name) = {} \/ <<op.dir, op.name>> \in missed
        /\ op.dir \in Dirs
    BY <1>1 DEF AddDirEntry, NInv, Fresh, Creating, IInv, TypeOK
  <2>4. CASE dirent' = dirent
    BY <2>1, <2>2, <2>4 DEF NInv, NamesUnique, NamesOK
  <2>5. ASSUME NEW s \in Slots, dirent[op.dir][s].ino = 0,
               \A d \in Dirs, t \in Slots :
                 dirent'[d][t] = IF d = op.dir /\ t = s
                                   THEN [ino |-> ino, name |-> op.name, type |-> "file"]
                                   ELSE dirent[d][t]
        PROVE  NamesUnique'
    <3> SUFFICES ASSUME NEW d \in Dirs, NEW t \in Slots, NEW u \in Slots,
                        dirent'[d][t].ino # 0, dirent'[d][u].ino # 0,
                        dirent'[d][t].name = dirent'[d][u].name, t # u
                 PROVE  <<d, dirent'[d][t].name>> \in missed
      BY <2>1 DEF NamesUnique, NamesOK
    <3>1. CASE d # op.dir \/ s \notin {t, u}
      BY <2>5, <3>1 DEF NInv, NamesUnique, NamesOK
    <3>2. CASE d = op.dir /\ (t = s \/ u = s)
      <4>1. dirent'[d][t].name = op.name /\ dirent'[d][u].name = op.name
        BY <2>5, <3>2
      <4>2. \E v \in Slots : v # s /\ dirent[d][v].ino # 0 /\ dirent[d][v].name = op.name
        BY <2>5, <3>2, <4>1
      <4>3. Match(op.dir, op.name) # {}
        BY <3>2, <4>2 DEF Match
      <4> QED
        BY <2>3, <3>2, <4>1, <4>3
    <3> QED
      BY <3>1, <3>2
  <2> QED
    BY <1>1, <2>2, <2>4, <2>5, EntryAdded DEF NInv
<1>2. CASE ~AddDirEntry
  <2>1. dirent' = dirent /\ missed \subseteq missed'
    BY <1>2, EntriesStep, HistoryStep
  <2>2. NamesUnique'
    BY <2>1 DEF NInv, NamesUnique, NamesOK
  <2>3. Fresh'
    <3>1. CASE UNCHANGED vars
      BY <2>1, <3>1 DEF vars, volatile, history, NInv, Fresh, Creating, Match
    <3>2. ASSUME NEW d \in Dirs, NEW name \in Names, NEW c \in Contents, Begin(d, name, c)
          PROVE  Fresh'
      <4>1. op'.dir = d /\ op'.name = name
        BY <3>2 DEF Begin
      <4>2. CASE pc' \in {"data", "blockBitmap"}
        BY <4>2 DEF Fresh, Creating
      <4>3. CASE /\ pc' = "inodeBitmap"
                 /\ missed' = missed \cup {<<d, dirent[d][s].name>> : s \in Match(d, name)}
        <5>1. Match(d, name) = {} \/ <<d, name>> \in missed'
          BY <4>3 DEF Match
        <5> QED
          BY <2>1, <4>1, <5>1 DEF Fresh, Match
      <4> QED
        BY <3>2, <4>2, <4>3 DEF Begin, Enter
    <3>3. CASE pc' \notin {"inodeBitmap", "inodeGd", "inodeSuper", "newInode", "dirEntry"}
      BY <3>3 DEF Fresh, Creating
    <3>4. CASE op' = op /\ (pc = "inodeBitmap" \/ Creating)
      BY <2>1, <3>4 DEF NInv, Fresh, Match
    <3>5. CASE AllocInodeBitmap \/ AllocInodeGd \/ AllocInodeSuper \/ WriteNewInode
      BY <3>3, <3>4, <3>5 DEF AllocInodeBitmap, AllocInodeGd, AllocInodeSuper,
           WriteNewInode, Creating, Fail, Reset, Goto
    <3>6. CASE AllocRunBitmap \/ AllocRunGd \/ AllocRunSuper \/ WriteData \/ WriteInode
               \/ ReadFails \/ Crash
      BY <3>3, <3>6 DEF AllocRunBitmap, AllocRunGd, AllocRunSuper, WriteData,
           WriteInode, ReadFails, Crash, Fail, Reset, Goto
    <3> QED
      BY <1>2, <3>1, <3>2, <3>5, <3>6 DEF Next
  <2> QED
    BY <2>2, <2>3 DEF NInv
<1> QED
  BY <1>1, <1>2

(***************************************************************************)
(* NamesUnique of Ext4.tla: every second entry of a name goes back to a    *)
(* read of the directory that failed in the call that created it; however  *)
(* often a creation is cut short and retried, that alone makes none.       *)
(***************************************************************************)
THEOREM NoDuplicateNames == Spec => []NamesUnique
<1>1. Init => NInv
  BY ImageOK DEF Init, NInv, NamesUnique, Fresh, Creating
<1>2. IInv /\ NInv /\ [Next]_vars => NInv'
  BY NamesStep
<1>3. NInv => NamesUnique
  BY DEF NInv
<1> QED
  BY <1>1, <1>2, <1>3, Inductive, PTL DEF Spec

-----------------------------------------------------------------------------
(***************************************************************************)
(* The free counts.  Between the write of a bitmap and the write of a      *)
(* count, the count is ahead of the bitmap by what the call took: only     *)
(* with that difference is FreeCountsCover inductive, and it says that the *)
(* subtraction that is still to come does not saturate.                    *)
(***************************************************************************)
Due(at, n) == IF pc \in at THEN n ELSE 0

CountsInv ==
  /\ Cardinality(FreeInodes) + Due({"inodeGd"}, 1) <= gdFreeInodes
  /\ Cardinality(FreeInodes) + Due({"inodeGd", "inodeSuper"}, 1) <= sbFreeInodes
  /\ Cardinality(FreeBits) + Due({"blockGd"}, Need) <= gdFreeBlocks
  /\ Cardinality(FreeBits) + Due({"blockGd", "blockSuper"}, Need) <= sbFreeBlocks

\* Bits that become 1 leave fewer free.
LEMMA FewerFree ==
  ASSUME inodeBitmap \subseteq inodeBitmap', blockBitmap \subseteq blockBitmap'
  PROVE  /\ Cardinality(FreeInodes') \in Nat /\ Cardinality(FreeBits') \in Nat
         /\ Cardinality(FreeInodes') <= Cardinality(FreeInodes)
         /\ Cardinality(FreeBits') <= Cardinality(FreeBits)
<1>1. FreeInodes' \in SUBSET FreeInodes /\ FreeBits' \in SUBSET FreeBits
  BY DEF FreeInodes, FreeBits
<1>2. IsFiniteSet(FreeInodes') /\ IsFiniteSet(FreeBits')
  BY <1>1, FreeFinite, FS_Subset
<1> QED
  BY <1>1, <1>2, FreeFinite, FS_Subset, FS_CardinalityType

\* A step after which no count is due, and that writes none.
LEMMA CountsRest ==
  ASSUME TypeOK, CountsInv,
         inodeBitmap \subseteq inodeBitmap', blockBitmap \subseteq blockBitmap',
         UNCHANGED <<gdFreeInodes, gdFreeBlocks, sbFreeInodes, sbFreeBlocks>>,
         pc' \notin {"inodeGd", "inodeSuper", "blockGd", "blockSuper"}
  PROVE  CountsInv'
<1>1. /\ Cardinality(FreeInodes') <= gdFreeInodes /\ Cardinality(FreeInodes') <= sbFreeInodes
      /\ Cardinality(FreeBits') <= gdFreeBlocks /\ Cardinality(FreeBits') <= sbFreeBlocks
  <2>1. pc \in {"blockGd", "blockSuper"} => Need \in Nat
    BY NeedNat
  <2> QED
    BY <2>1, FewerFree, FreeFinite DEF CountsInv, Due, TypeOK
<1> QED
  BY <1>1, FewerFree DEF CountsInv, Due

\* The inode's bit and its two counts.
LEMMA InodeCounts ==
  ASSUME TypeOK, CountsInv, AllocInodeBitmap \/ AllocInodeGd \/ AllocInodeSuper
  PROVE  CountsInv'
<1>1. CASE AllocInodeBitmap
  <2>1. ASSUME NEW i \in Inodes, Least(i, FreeInodes),
               inodeBitmap' = inodeBitmap \cup {i}, Goto("inodeGd")
        PROVE  CountsInv'
    <3>1. i \in FreeInodes /\ FreeInodes' = FreeInodes \ {i}
      BY <2>1 DEF Least, FreeInodes
    <3>2. Cardinality(FreeInodes') = Cardinality(FreeInodes) - 1
      BY <3>1, FreeFinite, FS_RemoveElement
    <3>3. /\ pc = "inodeBitmap" /\ pc' = "inodeGd" /\ FreeBits' = FreeBits
          /\ UNCHANGED <<gdFreeInodes, gdFreeBlocks, sbFreeInodes, sbFreeBlocks>>
      BY <1>1, <2>1 DEF AllocInodeBitmap, Goto, FreeBits
    <3> QED
      BY <3>2, <3>3, FreeFinite DEF CountsInv, Due, TypeOK
  <2>2. CASE Fail("device") \/ Fail("full")
    BY <1>1, <2>2, CountsRest DEF AllocInodeBitmap, Fail, Reset
  <2> QED
    BY <1>1, <2>1, <2>2 DEF AllocInodeBitmap
<1>2. CASE AllocInodeGd
  BY <1>2, FreeFinite DEF AllocInodeGd, Goto, CountsInv, Due, Less, TypeOK, FreeInodes, FreeBits
<1>3. CASE AllocInodeSuper
  BY <1>3, FreeFinite DEF AllocInodeSuper, Goto, CountsInv, Due, Less, TypeOK, FreeInodes, FreeBits
<1> QED
  BY <1>1, <1>2, <1>3

\* The run's bits and its two counts.
LEMMA BlockCounts ==
  ASSUME TypeOK, CountsInv, AllocRunBitmap \/ AllocRunGd \/ AllocRunSuper
  PROVE  CountsInv'
<1>1. CASE AllocRunBitmap
  <2>1. pc = "blockBitmap" /\ Need \in Nat \ {0}
    BY <1>1, NeedNat DEF AllocRunBitmap
  <2>2. ASSUME NEW b \in Bits, Least(b, FreeRuns(Need)),
               blockBitmap' = blockBitmap \cup Run(b, Need), pc' = "blockGd", op' = op
        PROVE  CountsInv'
    <3>1. b \in Int /\ b + Need - 1 \in Int
      BY <2>1 DEF Bits
    <3>2. Cardinality(Run(b, Need)) = Need
      BY <2>1, <3>1, FS_Interval DEF Run
    <3>3. Run(b, Need) \subseteq FreeBits /\ FreeBits' = FreeBits \ Run(b, Need)
      BY <2>2 DEF Least, FreeRuns, FreeBits
    <3>4. FreeBits \cap Run(b, Need) = Run(b, Need)
      BY <3>3
    <3>5. Cardinality(FreeBits \ Run(b, Need))
            = Cardinality(FreeBits) - Cardinality(FreeBits \cap Run(b, Need))
      BY FreeFinite, FS_Difference
    <3>6. Cardinality(FreeBits') = Cardinality(FreeBits) - Need
      BY <3>2, <3>3, <3>4, <3>5, Zenon
    <3>7. /\ Need' = Need /\ FreeInodes' = FreeInodes
          /\ UNCHANGED <<gdFreeInodes, gdFreeBlocks, sbFreeInodes, sbFreeBlocks>>
      BY <1>1, <2>2 DEF AllocRunBitmap, Need, FreeInodes
    <3> QED
      BY <2>1, <2>2, <3>6, <3>7, FreeFinite DEF CountsInv, Due, TypeOK
  <2>3. CASE Fail("device") \/ Fail("full")
    BY <1>1, <2>3, CountsRest DEF AllocRunBitmap, Fail, Reset
  <2> QED
    BY <1>1, <2>2, <2>3 DEF AllocRunBitmap
<1>2. ASSUME AllocRunGd \/ AllocRunSuper
      PROVE  /\ FreeInodes' = FreeInodes /\ FreeBits' = FreeBits /\ Need' = Need
             /\ Need \in Nat
  BY <1>2, NeedNat DEF AllocRunGd, AllocRunSuper, Goto, FreeInodes, FreeBits, Need
<1>3. CASE AllocRunGd
  BY <1>2, <1>3, FreeFinite DEF AllocRunGd, Goto, CountsInv, Due, Less, TypeOK
<1>4. CASE AllocRunSuper
  BY <1>2, <1>4, FreeFinite DEF AllocRunSuper, Goto, CountsInv, Due, Less, TypeOK
<1> QED
  BY <1>1, <1>3, <1>4

\* Every step keeps the counts ahead.
LEMMA CountsStep == TypeOK /\ CountsInv /\ [Next]_vars => CountsInv'
<1> SUFFICES ASSUME TypeOK, CountsInv, [Next]_vars PROVE CountsInv'
  OBVIOUS
<1>1. CASE UNCHANGED vars
  BY <1>1 DEF vars, disk, volatile, CountsInv, Due, Need, FreeInodes, FreeBits
<1>2. ASSUME NEW d \in Dirs, NEW name \in Names, NEW c \in Contents, Begin(d, name, c)
      PROVE  CountsInv'
  BY <1>2, CountsRest DEF Begin, Enter, disk
<1>3. CASE WriteNewInode \/ AddDirEntry
  BY <1>3, CountsRest DEF WriteNewInode, AddDirEntry, Enter, Goto, Fail, Reset
<1>4. CASE WriteData \/ WriteInode
  BY <1>4, CountsRest DEF WriteData, WriteInode, Fail, Reset
<1>5. CASE ReadFails \/ Crash
  BY <1>5, CountsRest DEF ReadFails, Crash, Fail, Reset, disk
<1> QED
  BY <1>1, <1>2, <1>3, <1>4, <1>5, InodeCounts, BlockCounts DEF Next

(***************************************************************************)
(* FreeCountsCover of Ext4.tla: wherever a call is cut short, the counts   *)
(* of the group descriptor and of the superblock never fall below what the *)
(* bitmaps leave free.  No assumption on the callers or on the lookups.    *)
(***************************************************************************)
THEOREM CountsNeverShort == Spec => []FreeCountsCover
<1>1. Init => CountsInv
  BY FreeFinite DEF Init, CountsInv, Due
<1>2. TypeOK /\ CountsInv /\ [Next]_vars => CountsInv'
  BY CountsStep
<1>3. TypeOK /\ CountsInv => FreeCountsCover
  BY NeedNat, FreeFinite DEF CountsInv, Due, FreeCountsCover, TypeOK
<1> QED
  BY <1>1, <1>2, <1>3, TypeCorrect, PTL DEF Spec

-----------------------------------------------------------------------------
(***************************************************************************)
(* Leaks.  An inode that is marked used, that the image did not use and    *)
(* that no entry names is either the one being created or was left by a    *)
(* call that failed.  For the entry to take one off this set, the inode    *)
(* that is created must not be one of the image's.                         *)
(***************************************************************************)
Leaked == inodeBitmap \ (Image.inodeBitmap \cup Named)

LeakInv ==
  /\ Image.inodeBitmap \subseteq inodeBitmap
  /\ Creating => ino \notin Image.inodeBitmap
  /\ LeakBound

\* What may be leaked is finite.
LEMMA LeakedFinite ==
  TypeOK => IsFiniteSet(Leaked) /\ Cardinality(Leaked) \in Nat
<1> SUFFICES ASSUME TypeOK PROVE IsFiniteSet(Leaked) /\ Cardinality(Leaked) \in Nat
  OBVIOUS
<1>1. IsFiniteSet(Inodes)
  BY FS_Interval, ConstantsOK DEF Inodes
<1>2. Leaked \in SUBSET Inodes
  BY DEF Leaked, TypeOK
<1>3. IsFiniteSet(Leaked)
  BY <1>1, <1>2, FS_Subset
<1> QED
  BY <1>3, FS_CardinalityType

\* A step that leaks nothing, and that counts as failed if it ends a creation.
LEMMA LeakRest ==
  ASSUME TypeOK, LeakInv, inodeBitmap' = inodeBitmap, Named \subseteq Named',
         aborts' \in Nat, aborts <= aborts',
         Creating => IF Creating' THEN ino' = ino ELSE aborts < aborts',
         Creating' => Creating
  PROVE  LeakInv'
<1>1. Leaked' \in SUBSET Leaked
  BY DEF Leaked
<1>2. Cardinality(Leaked') <= Cardinality(Leaked) /\ Cardinality(Leaked') \in Nat
  BY <1>1, LeakedFinite, FS_Subset, FS_CardinalityType
<1>3. Cardinality(Leaked) <= aborts + (IF Creating THEN 1 ELSE 0)
  BY DEF LeakInv, LeakBound, Leaked
<1>4. Cardinality(Leaked') <= aborts' + (IF Creating' THEN 1 ELSE 0)
  BY <1>2, <1>3, LeakedFinite DEF TypeOK
<1>5. LeakBound'
  BY <1>4 DEF LeakBound, Leaked
<1> QED
  BY <1>5 DEF LeakInv

\* A new bit in the inode bitmap is one more leak until the entry names it.
LEMMA LeakAlloc ==
  ASSUME TypeOK, LeakInv, AllocInodeBitmap PROVE LeakInv'
<1>1. pc = "inodeBitmap" /\ ~Creating /\ Named' = Named
  BY DEF AllocInodeBitmap, Creating, Named
<1>2. Cardinality(Leaked) <= aborts /\ aborts \in Nat
  BY <1>1 DEF LeakInv, LeakBound, Leaked, TypeOK
<1>3. ASSUME NEW i \in Inodes, Least(i, FreeInodes), inodeBitmap' = inodeBitmap \cup {i}
      PROVE  /\ Cardinality(Leaked') <= aborts + 1
             /\ Image.inodeBitmap \subseteq inodeBitmap' /\ i \notin Image.inodeBitmap
  <2>1. Leaked' \in SUBSET (Leaked \cup {i})
    BY <1>1, <1>3 DEF Leaked
  <2>2. IsFiniteSet(Leaked \cup {i}) /\ Cardinality(Leaked \cup {i}) <= Cardinality(Leaked) + 1
    BY LeakedFinite, FS_AddElement
  <2>3. Cardinality(Leaked') <= Cardinality(Leaked \cup {i})
    BY <2>1, <2>2, FS_Subset
  <2>4. Cardinality(Leaked') \in Nat /\ Cardinality(Leaked \cup {i}) \in Nat
    BY <2>1, <2>2, FS_Subset, FS_CardinalityType
  <2>5. Cardinality(Leaked') <= aborts + 1
    BY <1>2, <2>2, <2>3, <2>4, LeakedFinite
  <2> QED
    BY <1>3, <2>5 DEF LeakInv, Least, FreeInodes
<1>4. ASSUME NEW i \in Inodes, Least(i, FreeInodes), inodeBitmap' = inodeBitmap \cup {i},
             ino' = i, Goto("inodeGd")
      PROVE  LeakInv'
  BY <1>3, <1>4 DEF LeakInv, LeakBound, Leaked, Creating, Goto
<1>5. ASSUME NEW i \in Inodes, Least(i, FreeInodes), inodeBitmap' = inodeBitmap \cup {i},
             Fail("device")
      PROVE  LeakInv'
  BY <1>3, <1>5 DEF LeakInv, LeakBound, Leaked, Creating, Fail, Reset
<1>6. CASE (Fail("device") \/ Fail("full")) /\ inodeBitmap' = inodeBitmap
  BY <1>1, <1>2, <1>6, LeakRest DEF Creating, Fail, Reset
<1> QED
  BY <1>4, <1>5, <1>6 DEF AllocInodeBitmap

\* The new entry takes the inode off what is leaked.
LEMMA LeakNamed ==
  ASSUME IInv, LeakInv, AddDirEntry PROVE LeakInv'
<1>1. /\ pc = "dirEntry" /\ Creating /\ inodeBitmap' = inodeBitmap /\ TypeOK
      /\ aborts \in Nat
  BY DEF AddDirEntry, Creating, IInv, TypeOK
<1>2. ino \in Leaked
  <2>1. ino \in inodeBitmap /\ \A d \in Dirs, s \in Slots : dirent[d][s].ino # ino
    BY <1>1 DEF IInv, InFlight
  <2>2. ino \notin Image.inodeBitmap
    BY <1>1 DEF LeakInv
  <2> QED
    BY <2>1, <2>2 DEF Leaked, Named
<1>3. Named \subseteq Named'
  BY EntryAdded DEF Named
<1>4. CASE Fail("device") \/ Fail("full")
  BY <1>1, <1>3, <1>4, LeakRest DEF Fail, Reset, Creating
<1>5. ASSUME NEW s \in Slots,
             dirent' = [dirent EXCEPT ![op.dir][s] =
                          [ino |-> ino, name |-> op.name, type |-> "file"]],
             Enter(ino, inode[ino], Need), aborts' = aborts
      PROVE  LeakInv'
  <2>1. op.dir \in Dirs /\ dirent'[op.dir][s].ino = ino
    BY <1>1, <1>5 DEF TypeOK
  <2>2. ino # 0
    BY <1>1, ConstantsOK DEF TypeOK, Inodes
  <2>3. ino \in Named'
    BY <2>1, <2>2 DEF Named
  <2>4. Leaked' \in SUBSET (Leaked \ {ino})
    BY <1>1, <1>3, <2>3 DEF Leaked
  <2>5. IsFiniteSet(Leaked \ {ino}) /\ Cardinality(Leaked \ {ino}) = Cardinality(Leaked) - 1
    BY <1>1, <1>2, LeakedFinite, FS_RemoveElement
  <2>6. Cardinality(Leaked') <= Cardinality(Leaked) - 1 /\ Cardinality(Leaked') \in Nat
    BY <2>4, <2>5, FS_Subset, FS_CardinalityType
  <2>7. Cardinality(Leaked) <= aborts + 1
    BY <1>1 DEF LeakInv, LeakBound, Leaked
  <2>8. Cardinality(Leaked') <= aborts
    BY <1>1, <2>6, <2>7, LeakedFinite
  <2>9. ~Creating'
    BY <1>5 DEF Enter, Creating
  <2> QED
    BY <1>1, <1>5, <2>8, <2>9 DEF LeakInv, LeakBound, Leaked
<1> QED
  BY <1>4, <1>5 DEF AddDirEntry

\* Every step keeps the bound.
LEMMA LeakStep == ASSUME IInv, LeakInv, [Next]_vars PROVE LeakInv'
<1>1. TypeOK /\ aborts \in Nat
  BY DEF IInv, TypeOK
<1>2. CASE UNCHANGED vars
  BY <1>2 DEF vars, disk, volatile, LeakInv, LeakBound, Creating, Named
<1>3. CASE ~AddDirEntry
  <2>1. dirent' = dirent
    BY <1>3, EntriesStep
  <2>2. Named' = Named
    BY <2>1 DEF Named
  <2>3. ASSUME NEW d \in Dirs, NEW name \in Names, NEW c \in Contents, Begin(d, name, c)
        PROVE  LeakInv'
    BY <1>1, <2>2, <2>3, LeakRest DEF Begin, Enter, Creating, disk
  <2>4. CASE AllocInodeGd \/ AllocInodeSuper \/ AllocRunGd \/ AllocRunSuper
    BY <1>1, <2>2, <2>4, LeakRest
       DEF AllocInodeGd, AllocInodeSuper, AllocRunGd, AllocRunSuper, Goto, Creating
  <2>5. CASE WriteNewInode
    BY <1>1, <2>2, <2>5, LeakRest DEF WriteNewInode, Goto, Fail, Reset, Creating
  <2>6. CASE AllocRunBitmap
    <3>1. /\ pc = "blockBitmap" /\ pc' \in {"blockGd", "idle"}
          /\ aborts' \in {aborts, aborts + 1} /\ inodeBitmap' = inodeBitmap
      BY <2>6 DEF AllocRunBitmap, Fail, Reset
    <3> QED
      BY <1>1, <2>2, <3>1, LeakRest DEF Creating
  <2>7. CASE WriteData \/ WriteInode
    BY <1>1, <2>2, <2>7, LeakRest DEF WriteData, WriteInode, Fail, Reset, Creating
  <2>8. CASE ReadFails \/ Crash
    BY <1>1, <2>2, <2>8, LeakRest DEF ReadFails, Crash, Fail, Reset, Creating, disk
  <2> QED
    BY <1>1, <1>2, <1>3, <2>3, <2>4, <2>5, <2>6, <2>7, <2>8, LeakAlloc DEF Next
<1> QED
  BY <1>3, LeakNamed

(***************************************************************************)
(* LeakBound of Ext4.tla: each call of ext4_write_file that does not       *)
(* succeed, or that a crash cuts short, costs the disk at most one inode,  *)
(* and a call that succeeds costs none.                                    *)
(***************************************************************************)
THEOREM LeaksCounted == Spec => []LeakBound
<1>1. Init => LeakInv
  <2> SUFFICES ASSUME Init PROVE LeakInv
    OBVIOUS
  <2>1. inodeBitmap = Image.inodeBitmap /\ ~Creating /\ aborts = 0
    BY DEF Init, Creating
  <2>2. inodeBitmap \ (Image.inodeBitmap \cup Named) = {}
    BY <2>1
  <2> QED
    BY <2>1, <2>2, FS_EmptySet DEF LeakInv, LeakBound
<1>2. IInv /\ LeakInv /\ [Next]_vars => LeakInv'
  BY LeakStep
<1>3. LeakInv => LeakBound
  BY DEF LeakInv
<1> QED
  BY <1>1, <1>2, <1>3, Inductive, PTL DEF Spec

-----------------------------------------------------------------------------
(***************************************************************************)
(* What the call in progress is about.  An entry of its name leads to its  *)
(* inode (Target); it either overwrites the first extent of that inode or  *)
(* holds a run that the inode does not have yet (Apart); and the blocks it *)
(* counts as done hold what it was asked to write (Written).               *)
(***************************************************************************)
Target ==
  pc = "blockBitmap" \/ Holding =>
    \E s \in Match(op.dir, op.name) : dirent[op.dir][s].ino = ino

Apart ==
  Holding => \/ fi = inode[ino]
             \/ \A b \in Owned(fi) : b \notin Owned(inode[ino])

Written ==
  /\ Holding => \A k \in 1 .. done : data[fi.lo + k - 1] = <<op.content, k>>
  /\ pc = "inode" => done = Need

RInv == Target /\ Apart /\ Written

\* Outside of these steps nothing is held.
LEMMA RestShown ==
  ASSUME pc' \notin {"blockBitmap", "blockGd", "blockSuper", "data", "inode"}
  PROVE  RInv'
  BY DEF RInv, Target, Apart, Written, Holding

\* The call's file is found by its name, and the call enters its inode.
LEMMA BeginHolds ==
  ASSUME IInv, NEW d \in Dirs, NEW name \in Names, NEW c \in Contents,
         Begin(d, name, c)
  PROVE  RInv'
<1>1. UNCHANGED disk /\ op' = [dir |-> d, name |-> name, content |-> c]
  BY DEF Begin
<1>2. ASSUME NEW s \in Slots, Least(s, Match(d, name)),
             Enter(dirent[d][s].ino, inode[dirent[d][s].ino], Size[c])
      PROVE  RInv'
  <2>1. s \in Match(d, name)
    BY <1>2 DEF Least
  <2>2. /\ ino' = dirent[d][s].ino /\ fi' = inode[dirent[d][s].ino] /\ done' = 0
        /\ pc' \in {"data", "blockBitmap"}
    BY <1>2 DEF Enter
  <2>3. Target'
    BY <1>1, <2>1, <2>2 DEF Target, Match, disk
  <2>4. Apart' /\ Written'
    BY <1>1, <2>2 DEF Apart, Written, disk
  <2> QED
    BY <2>3, <2>4 DEF RInv
<1>3. CASE pc' = "inodeBitmap"
  BY <1>3, RestShown
<1> QED
  BY <1>2, <1>3 DEF Begin

\* The new entry is the call's file, which has no room yet.
LEMMA EntryHolds ==
  ASSUME IInv, AddDirEntry PROVE RInv'
<1> DEFINE entry == [ino |-> ino, name |-> op.name, type |-> "file"]
<1>1. /\ pc = "dirEntry" /\ ino \in Inodes /\ op.dir \in Dirs /\ Need \in Nat \ {0}
      /\ inode[ino] = NewInode("file")
  BY NeedNat DEF AddDirEntry, IInv, TypeOK, InFlight
<1>2. ASSUME NEW s \in Slots, dirent' = [dirent EXCEPT ![op.dir][s] = entry],
             Enter(ino, inode[ino], Need), UNCHANGED <<op, result, writes, aborts>>
      PROVE  RInv'
  <2>1. pc' = "blockBitmap" /\ ino' = ino
    BY <1>1, <1>2 DEF Enter, Reusable, NewInode
  <2>2. dirent'[op.dir][s] = entry
    BY <1>1, <1>2 DEF IInv, TypeOK
  <2>3. ino # 0
    BY <1>1, ConstantsOK DEF Inodes
  <2>4. Target'
    BY <1>2, <2>1, <2>2, <2>3 DEF Target, Match
  <2> QED
    BY <2>1, <2>4 DEF RInv, Apart, Written, Holding
<1>3. CASE Fail("device") \/ Fail("full")
  BY <1>3, RestShown DEF Fail, Reset
<1> QED
  BY <1>2, <1>3 DEF AddDirEntry

\* The run that is allocated was free, so the file did not have it.
LEMMA RunHolds ==
  ASSUME IInv, RInv, AllocRunBitmap PROVE RInv'
<1>1. /\ pc = "blockBitmap" /\ ino \in Inodes /\ fi \in InodeType
      /\ Need \in Nat \ {0} /\ done = 0
      /\ UNCHANGED <<inode, dirent, data>>
  BY NeedNat DEF AllocRunBitmap, IInv, TypeOK, InFlight
<1>2. ASSUME NEW b \in Bits, Least(b, FreeRuns(Need)),
             fi' = [fi EXCEPT !.map = "leaf", !.hi = HiOf(b + FirstDataBlock),
                              !.lo = b + FirstDataBlock, !.len = Need, !.rest = {}],
             pc' = "blockGd", UNCHANGED <<op, ino, done, result, writes, aborts>>
      PROVE  RInv'
  <2>1. b \in Nat /\ b + FirstDataBlock \in Nat /\ HiOf(b + FirstDataBlock) \in Nat
    BY ConstantsOK DEF Bits, HiOf
  <2>2. Owned(fi') = (b + FirstDataBlock) .. (b + FirstDataBlock + Need - 1)
    BY <1>1, <1>2, <2>1 DEF Owned, FirstExtent, InodeType
  <2>3. ASSUME NEW x \in Owned(fi') PROVE x \notin Owned(inode[ino])
    <3>1. x - FirstDataBlock \in Run(b, Need)
      BY <1>1, <2>1, <2>2, <2>3, ConstantsOK DEF Run
    <3>2. x - FirstDataBlock \notin blockBitmap
      BY <1>2, <3>1 DEF Least, FreeRuns, FreeBits
    <3> QED
      BY <1>1, <3>2 DEF IInv, DiskOK, BlocksConsistent, BlocksOK
  <2>4. Target'
    BY <1>1, <1>2 DEF RInv, Target, Match
  <2>5. Apart'
    BY <1>1, <1>2, <2>3 DEF Apart
  <2>6. Written'
    BY <1>1, <1>2 DEF Written
  <2> QED
    BY <2>4, <2>5, <2>6 DEF RInv
<1>3. CASE Fail("device") \/ Fail("full")
  BY <1>3, RestShown DEF Fail, Reset
<1> QED
  BY <1>2, <1>3 DEF AllocRunBitmap

\* A block of data that the device takes is one more that holds the content.
LEMMA DataHolds ==
  ASSUME IInv, RInv, WriteData PROVE RInv'
<1>1. /\ pc = "data" /\ fi \in InodeType /\ fi.map = "leaf" /\ Need \in Nat \ {0}
      /\ Need <= fi.len /\ done \in Nat /\ done < Need
      /\ data \in [Blocks -> (Contents \cup {NoContent}) \X Nat]
  BY NeedNat DEF WriteData, IInv, TypeOK, InFlight, Holding
<1>2. UNCHANGED <<inode, dirent>>
  BY DEF WriteData
<1>3. ASSUME NEW k \in Nat, k < Need PROVE fi.lo + k \in Blocks
  <2>1. fi.lo \in Nat /\ fi.lo + k \in Owned(fi)
    BY <1>1, <1>3 DEF Owned, FirstExtent, InodeType
  <2>2. \A b \in Owned(fi) : b - FirstDataBlock \in blockBitmap
    BY <1>1 DEF IInv, InFlight, Holding
  <2>3. blockBitmap \subseteq Bits
    BY DEF IInv, TypeOK
  <2>4. (fi.lo + k) - FirstDataBlock \in Bits
    BY <2>1, <2>2, <2>3
  <2> QED
    BY <2>1, <2>4, ConstantsOK DEF Bits, Blocks
<1>4. ASSUME Store(fi.lo + done), done' = done + 1,
             pc' = IF done + 1 = Need THEN "inode" ELSE "data",
             UNCHANGED <<op, ino, fi, result, writes, aborts>>
      PROVE  RInv'
  <2>1. fi.lo + done \in Blocks
    BY <1>1, <1>3
  <2>2. ASSUME NEW k \in 1 .. done' PROVE data'[fi.lo + k - 1] = <<op.content, k>>
    <3>1. fi.lo \in Nat
      BY <1>1 DEF InodeType
    <3>2. CASE k = done + 1
      BY <1>1, <1>4, <2>1, <3>1, <3>2 DEF Store
    <3>3. CASE k \in 1 .. done
      <4>1. fi.lo + k - 1 # fi.lo + done
        BY <1>1, <3>1, <3>3
      <4>2. data[fi.lo + k - 1] = <<op.content, k>>
        BY <1>1, <3>3 DEF RInv, Written, Holding
      <4>3. data' = [data EXCEPT ![fi.lo + done] = <<op.content, done + 1>>]
        BY <1>4 DEF Store
      <4>4. fi.lo + k - 1 \in Blocks
        <5>1. k - 1 \in Nat /\ k - 1 < Need /\ fi.lo + (k - 1) = fi.lo + k - 1
          BY <1>1, <3>1, <3>3
        <5> QED
          BY <1>3, <5>1
      <4> QED
        BY <1>1, <4>1, <4>2, <4>3, <4>4
    <3> QED
      BY <1>1, <1>4, <3>2, <3>3
  <2>3. Need' = Need
    BY <1>4 DEF Need
  <2>4. Written'
    BY <1>1, <1>4, <2>2, <2>3 DEF Written
  <2>5. Target' /\ Apart'
    BY <1>1, <1>2, <1>4 DEF RInv, Target, Apart, Holding, Match
  <2> QED
    BY <2>4, <2>5 DEF RInv
<1>5. CASE Fail("device") \/ Fail("beyond")
  BY <1>5, RestShown DEF Fail, Reset
<1> QED
  BY <1>4, <1>5 DEF WriteData

\* Every step keeps what the call knows of its file.
LEMMA HoldStep ==
  ASSUME IInv, RInv, [Next]_vars PROVE RInv'
<1>1. CASE UNCHANGED vars
  BY <1>1 DEF vars, disk, volatile, RInv, Target, Apart, Written, Holding, Match, Need
<1>2. CASE AllocInodeBitmap \/ AllocInodeGd \/ AllocInodeSuper
  BY <1>2, RestShown DEF AllocInodeBitmap, AllocInodeGd, AllocInodeSuper, Goto, Fail, Reset
<1>3. CASE WriteNewInode \/ WriteInode \/ ReadFails \/ Crash
  BY <1>3, RestShown DEF WriteNewInode, WriteInode, ReadFails, Crash, Goto, Fail, Reset
<1>4. CASE AllocRunGd \/ AllocRunSuper
  <2>1. UNCHANGED <<inode, dirent, data, ino, op, fi, done>>
    BY <1>4 DEF AllocRunGd, AllocRunSuper, Goto
  <2>2. Holding /\ pc' \in {"blockSuper", "data"}
    BY <1>4 DEF AllocRunGd, AllocRunSuper, Goto, Holding
  <2> QED
    BY <2>1, <2>2 DEF RInv, Target, Apart, Written, Match
<1> QED
  BY <1>1, <1>2, <1>3, <1>4, BeginHolds, EntryHolds, RunHolds, DataHolds DEF Next

\* The invariant of a call holds throughout.
THEOREM CallHolds == Spec => []RInv
<1>1. Init => RInv
  BY DEF Init, Holding, RInv, Target, Apart, Written
<1> QED
  BY <1>1, HoldStep, Inductive, PTL DEF Spec

\* A directory is overwritten by a call that holds its inode and nothing else:
\* its blocks are nobody else's.
LEMMA OnlyTarget ==
  ASSUME IInv, [Next]_vars, NEW d \in overwritten', d \notin overwritten
  PROVE  d = ino /\ d \in Dirs /\ Holding
<1>1. CASE WriteData
  <2>1. /\ pc = "data" /\ Holding /\ fi \in InodeType /\ fi.map = "leaf"
        /\ Need \in Nat \ {0} /\ Need <= fi.len /\ done \in Nat /\ done < Need
    BY <1>1, NeedNat DEF WriteData, IInv, TypeOK, InFlight, Holding
  <2>2. d \in Dirs /\ fi.lo + done \in Owned(inode[d])
    BY <1>1 DEF WriteData, Store
  <2>3. fi.lo + done \in Owned(fi)
    BY <2>1 DEF Owned, FirstExtent, InodeType
  <2>4. d \in Inodes
    BY <2>2, ConstantsOK
  <2> QED
    BY <2>1, <2>2, <2>3, <2>4 DEF IInv, InFlight
<1>2. CASE WriteInode
  BY <1>2 DEF WriteInode, Holding
<1>3. CASE UNCHANGED vars
  BY <1>3 DEF vars, history
<1>4. CASE \E e \in Dirs, name \in Names, c \in Contents : Begin(e, name, c)
  BY <1>4 DEF Begin
<1>5. CASE AllocInodeBitmap \/ AllocInodeGd \/ AllocInodeSuper \/ WriteNewInode
           \/ AddDirEntry \/ AllocRunBitmap \/ AllocRunGd \/ AllocRunSuper
           \/ ReadFails \/ Crash
  BY <1>5 DEF AllocInodeBitmap, AllocInodeGd, AllocInodeSuper, WriteNewInode, AddDirEntry,
              AllocRunBitmap, AllocRunGd, AllocRunSuper, ReadFails, Crash, history
<1> QED
  BY <1>1, <1>2, <1>3, <1>4, <1>5 DEF Next

(***************************************************************************)
(* EntriesPersist of Ext4.tla: no call renames or redirects an entry, and  *)
(* a directory loses its entries only to a call that was given the         *)
(* directory's own name: text never lands on the blocks of another one.    *)
(***************************************************************************)
THEOREM EntriesKept == Spec => EntriesPersist
<1> DEFINE Kept == \A d \in Dirs, s \in Slots :
                     dirent[d][s].ino # 0 => dirent'[d][s] = dirent[d][s]
           Leads(d) == \E s \in Match(op.dir, op.name) : dirent[op.dir][s].ino = d
           Lost == \A d \in overwritten' \ overwritten : Leads(d)
<1>1. IInv /\ RInv /\ [Next]_vars => [Kept /\ Lost]_vars
  <2> SUFFICES ASSUME IInv, RInv, [Next]_vars PROVE Kept /\ Lost
    OBVIOUS
  <2>1. Kept
    <3>1. CASE dirent' = dirent
      BY <3>1
    <3>2. CASE dirent' # dirent
      BY <3>2, EntriesStep, EntryAdded
    <3> QED
      BY <3>1, <3>2
  <2>2. Lost
    BY OnlyTarget DEF RInv, Target
  <2> QED
    BY <2>1, <2>2
<1> QED
  BY <1>1, Inductive, CallHolds, PTL DEF Spec, EntriesPersist

-----------------------------------------------------------------------------
(***************************************************************************)
(* The driver implements FileStore, as long as no directory is overwritten *)
(* and but for the names that a failed lookup did not see.  The state of   *)
(* FileStore that a state of the driver shows:                             *)
(***************************************************************************)
Files   == [p \in Path |-> ReadFile(p[1], p[2])]
Rooms   == [p \in Path |-> Room(p[1], p[2])]
Busy    == IF pc = "idle" THEN <<>> ELSE <<<<op.dir, op.name>>, op.content>>
Outcome == IF result \in {"device", "full", "beyond"} THEN "failed" ELSE result

\* Where a name is unique and is found, it is read through its entry.
LEMMA LookupIs ==
  NamesUnique =>
    \A d \in Dirs, name \in Names : <<d, name>> \notin missed => \A s \in Match(d, name) :
      LET n == inode[dirent[d][s].ino]
      IN  /\ ReadFile(d, name) = IF dirent[d][s].type = "file" THEN {ReadBlocks(n)} ELSE {}
          /\ Room(d, name) = IF n.map = "leaf" THEN n.len ELSE 0
<1> SUFFICES ASSUME NamesUnique, NEW d \in Dirs, NEW name \in Names,
                    <<d, name>> \notin missed, NEW s \in Match(d, name)
             PROVE  LET n == inode[dirent[d][s].ino]
                    IN  /\ ReadFile(d, name) = IF dirent[d][s].type = "file"
                                                 THEN {ReadBlocks(n)} ELSE {}
                        /\ Room(d, name) = IF n.map = "leaf" THEN n.len ELSE 0
  OBVIOUS
<1>1. s \in Slots /\ Match(d, name) = {s}
  BY DEF Match, NamesUnique, NamesOK
<1>2. \A t \in Slots : Least(t, Match(d, name)) <=> t = s
  BY <1>1 DEF Least, Slots
<1>3. ReadFile(d, name) = IF dirent[d][s].type = "file"
                            THEN {ReadBlocks(inode[dirent[d][s].ino])} ELSE {}
  BY <1>1, <1>2 DEF ReadFile
<1>4. Room(d, name) = IF inode[dirent[d][s].ino].map = "leaf"
                        THEN inode[dirent[d][s].ino].len ELSE 0
  BY <1>1 DEF Room
<1> QED
  BY <1>3, <1>4

\* A name whose entries, inodes and blocks stay reads as before.
LEMMA FrameName ==
  ASSUME TypeOK, NEW d \in Dirs, NEW name \in Names,
         Match(d, name)' = Match(d, name),
         \A s \in Match(d, name) :
           /\ dirent'[d][s] = dirent[d][s]
           /\ inode'[dirent[d][s].ino] = inode[dirent[d][s].ino]
           /\ dirent[d][s].type = "file" =>
                \A b \in FirstExtent(inode[dirent[d][s].ino]) : data'[b] = data[b]
  PROVE  ReadFile(d, name)' = ReadFile(d, name) /\ Room(d, name)' = Room(d, name)
<1> DEFINE Found == {t \in Slots : Least(t, Match(d, name)) /\ dirent[d][t].type = "file"}
           Shows(t) == ReadBlocks(inode[dirent[d][t].ino])
<1>1. Found' = Found
  BY DEF Least
<1>2. ASSUME NEW t \in Found PROVE Shows(t)' = Shows(t)
  <2> DEFINE n == inode[dirent[d][t].ino]
  <2>1. t \in Match(d, name) /\ dirent[d][t].type = "file"
    BY <1>2 DEF Least
  <2>2. n' = n /\ n \in InodeType
    <3>1. dirent[d][t].ino \in Inodes
      BY <2>1, MatchType
    <3> QED
      BY <2>1, <3>1 DEF TypeOK
  <2>3. CASE n.map = "leaf"
    <3>1. n.lo \in Nat /\ n.len \in Nat /\ n.size \in Nat
      BY <2>2 DEF InodeType
    <3>2. \A b \in FirstExtent(n) : data'[b] = data[b]
      BY <2>1
    <3> HIDE DEF n
    <3>3. ASSUME NEW k \in 1 .. Smaller(n.size, n.len)
          PROVE  data'[n.lo + k - 1] = data[n.lo + k - 1]
      <4>1. n.lo + k - 1 \in FirstExtent(n)
        BY <2>3, <3>1, <3>3 DEF FirstExtent, Smaller
      <4> QED
        BY <3>2, <4>1
    <3>4. ReadBlocks(n)' = [k \in 1 .. Smaller(n.size, n.len) |-> data'[n.lo + k - 1]]
      BY <2>2, <2>3 DEF ReadBlocks
    <3>5. ReadBlocks(n) = [k \in 1 .. Smaller(n.size, n.len) |-> data[n.lo + k - 1]]
      BY <2>3 DEF ReadBlocks
    <3>6. ReadBlocks(n)' = ReadBlocks(n)
      BY <3>3, <3>4, <3>5
    <3> QED
      BY <3>6 DEF n
  <2>4. CASE n.map # "leaf"
    BY <2>2, <2>4 DEF ReadBlocks
  <2> QED
    BY <2>3, <2>4
<1>3. ReadFile(d, name) = {Shows(t) : t \in Found} /\ ReadFile(d, name)' = {Shows(t)' : t \in Found'}
  BY DEF ReadFile
<1>4. ReadFile(d, name)' = ReadFile(d, name)
  <2> HIDE DEF Found, Shows
  <2> QED
    BY <1>1, <1>2, <1>3
<1>5. Room(d, name)' = Room(d, name)
  <2> DEFINE held == {inode[dirent[d][s].ino] : s \in Match(d, name)}
  <2>1. held' = held
    OBVIOUS
  <2>2. Room(d, name) = IF \E n \in held : n.map = "leaf"
                          THEN (CHOOSE n \in held : n.map = "leaf").len ELSE 0
    BY DEF Room
  <2>3. Room(d, name)' = IF \E n \in held' : n.map = "leaf"
                          THEN (CHOOSE n \in held' : n.map = "leaf").len ELSE 0
    BY DEF Room
  <2> HIDE DEF held
  <2> QED
    BY <2>1, <2>2, <2>3
<1> QED
  BY <1>4, <1>5

-----------------------------------------------------------------------------
\* The file of the call, and what a step of FileStore leaves of the others.
Mine      == <<op.dir, op.name>>
Unmoved   == \A q \in Path \ {Mine} : Files'[q] = Files[q] /\ Rooms'[q] = Rooms[q]
Stopped   == Busy' = <<>> /\ Outcome' = "failed"
GoesOn    == UNCHANGED <<Busy, Outcome>>

\* The call in progress as FileStore sees it.
LEMMA CallShown ==
  ASSUME TypeOK, pc # "idle"
  PROVE  /\ Mine \in Path /\ op.content \in Contents /\ op.dir \in Dirs /\ op.name \in Names
         /\ Busy = <<Mine, op.content>> /\ Need = Size[op.content]
         /\ Files[Mine] = ReadFile(op.dir, op.name) /\ Rooms[Mine] = Room(op.dir, op.name)
  BY DEF TypeOK, Mine, Path, Busy, Need, Files, Rooms

\* A step that changes nothing that is read changes no file.
LEMMA QuietShown == ASSUME UNCHANGED <<inode, dirent, data>> PROVE UNCHANGED <<Files, Rooms>>
  BY DEF Files, Rooms, ReadFile, ReadBlocks, Room, Match, Least

\* The other names read as before when each of them does.
LEMMA OthersShown ==
  ASSUME \A d \in Dirs, name \in Names : d # op.dir \/ name # op.name =>
           ReadFile(d, name)' = ReadFile(d, name) /\ Room(d, name)' = Room(d, name)
  PROVE  Unmoved
  BY DEF Unmoved, Files, Rooms, Path, Mine

\* How a call stops, and how it goes on.
LEMMA StopShown ==
  ASSUME Fail("device") \/ Fail("full") \/ Fail("beyond") PROVE Stopped
  BY DEF Stopped, Fail, Reset, Busy, Outcome

LEMMA OnShown ==
  ASSUME pc # "idle", pc' # "idle", op' = op, result' = result PROVE GoesOn
  BY DEF GoesOn, Busy, Outcome

\* The actions of FileStore in terms of what the driver shows.
LEMMA GiveUpShown ==
  ASSUME TypeOK, pc # "idle", UNCHANGED <<Files, Rooms>>,
         Busy' = <<>>, Outcome' \in {"failed", "crash"}
  PROVE  Promise!Next
<1>1. Promise!GiveUp(Mine, op.content)
  BY CallShown DEF Promise!GiveUp, Promise!Over, Files, Rooms, Busy, Outcome
<1> QED
  BY <1>1, CallShown DEF Promise!Next

LEMMA CreateShown ==
  ASSUME TypeOK, pc # "idle", Files[Mine] = {}, Files'[Mine] = {<<>>}, Unmoved,
         GoesOn \/ Stopped
  PROVE  Promise!Next
<1>1. Promise!Create(Mine, op.content)
  BY CallShown DEF Promise!Create, Promise!Others, Promise!OnOrFailed, Promise!Over,
     Unmoved, GoesOn, Stopped, Files, Rooms, Busy, Outcome
<1> QED
  BY <1>1, CallShown DEF Promise!Next

LEMMA OverwriteShown ==
  ASSUME TypeOK, pc # "idle", Need <= Rooms[Mine], Files'[Mine] # {},
         Rooms'[Mine] = Rooms[Mine], Unmoved, GoesOn \/ Stopped
  PROVE  Promise!Next
<1>1. Promise!Overwrite(Mine, op.content)
  BY CallShown DEF Promise!Overwrite, Promise!Others, Promise!OnOrFailed, Promise!Over,
     Unmoved, GoesOn, Stopped, Files, Rooms, Busy, Outcome
<1> QED
  BY <1>1, CallShown DEF Promise!Next

LEMMA CommitShown ==
  ASSUME TypeOK, pc # "idle", Files[Mine] # {},
         Files'[Mine] = {[k \in 1 .. Size[op.content] |-> <<op.content, k>>]},
         Rooms'[Mine] >= Need, Unmoved, Busy' = <<>>, Outcome' \in {"ok", "failed"}
  PROVE  Promise!Next
<1>1. Promise!Commit(Mine, op.content)
  BY CallShown DEF Promise!Commit, Promise!Others, Promise!Over,
     Unmoved, Files, Rooms, Busy, Outcome
<1> QED
  BY <1>1, CallShown DEF Promise!Next

\* Looked up in the next state.
LEMMA LookupNext ==
  NamesUnique' =>
    \A d \in Dirs, name \in Names : <<d, name>> \notin missed' => \A s \in Match(d, name)' :
      /\ ReadFile(d, name)' = IF dirent'[d][s].type = "file"
                                THEN {ReadBlocks(inode[dirent[d][s].ino])'} ELSE {}
      /\ Room(d, name)' = IF inode'[dirent'[d][s].ino].map = "leaf"
                            THEN inode'[dirent'[d][s].ino].len ELSE 0
<1>1. (NamesUnique =>
         \A d \in Dirs, name \in Names : <<d, name>> \notin missed => \A s \in Match(d, name) :
           LET n == inode[dirent[d][s].ino]
           IN  /\ ReadFile(d, name) = IF dirent[d][s].type = "file" THEN {ReadBlocks(n)} ELSE {}
               /\ Room(d, name) = IF n.map = "leaf" THEN n.len ELSE 0)'
  BY LookupIs, PTL
<1> QED
  BY <1>1

\* What is about a name that a failed lookup did not see disturbs no other name.
LEMMA MissedShown ==
  ASSUME Mine \in missed, Unmoved PROVE \E p \in missed : Promise!Others(p)
  BY DEF Promise!Others, Unmoved, Files, Rooms

\* The call's inode, if it is no directory's, was found through a file's entry.
LEMMA TargetFile ==
  ASSUME IInv, RInv, pc = "blockBitmap" \/ Holding, ino \notin Dirs
  PROVE  \E s \in Match(op.dir, op.name) : /\ dirent[op.dir][s].ino = ino
                                           /\ dirent[op.dir][s].type = "file"
<1>1. PICK s \in Match(op.dir, op.name) : dirent[op.dir][s].ino = ino
  BY DEF RInv, Target
<1>2. s \in Slots /\ ino # 0 /\ op.dir \in Dirs
  BY <1>1 DEF Match, IInv, TypeOK
<1>3. inode[ino].kind = dirent[op.dir][s].type /\ inode[ino].kind # "unused"
  BY <1>1, <1>2 DEF IInv, DiskOK, EntriesInitialised, EntriesOK, InFlight
<1>4. inode[ino].kind \in {"unused", "file", "dir"}
  BY DEF IInv, TypeOK, InodeType, InFlight
<1>5. dirent[op.dir][s].type # "dir"
  BY <1>1, <1>2 DEF IInv, DiskOK, DirsKept, DirsOK
<1> QED
  BY <1>1, <1>3, <1>4, <1>5

\* While the call holds a file, no entry of another name leads to it.
LEMMA OtherInode ==
  ASSUME IInv, RInv, pc = "blockBitmap" \/ Holding, ino \notin Dirs,
         NEW d \in Dirs, NEW name \in Names, d # op.dir \/ name # op.name,
         NEW s \in Match(d, name)
  PROVE  dirent[d][s].ino \in Inodes \ {ino}
<1>1. PICK t \in Match(op.dir, op.name) : /\ dirent[op.dir][t].ino = ino
                                          /\ dirent[op.dir][t].type = "file"
  BY TargetFile
<1>2. op.dir \in Dirs /\ s \in Slots /\ t \in Slots
  BY DEF IInv, TypeOK, Match
<1>3. dirent[op.dir][t].ino # 0 /\ dirent[op.dir][t].name = op.name /\ dirent[d][s].name = name
  BY DEF Match
<1>4. dirent[d][s].ino # ino
  BY <1>1, <1>2, <1>3 DEF IInv, DiskOK, OneNamePerInode, OneNameOK
<1> QED
  BY <1>4, MatchType DEF IInv

\* ext4_write_file is called: FileStore's Begin.
LEMMA BeginStep ==
  ASSUME NEW d \in Dirs, NEW name \in Names, NEW c \in Contents, Begin(d, name, c)
  PROVE  Promise!Next
<1> DEFINE p == <<d, name>>
<1>1. p \in Path
  BY DEF Path
<1>2. UNCHANGED <<Files, Rooms>>
  BY QuietShown DEF Begin, disk
<1>3. Busy = <<>> /\ Busy' = <<p, c>> /\ Outcome' = "none"
  BY DEF Begin, Busy, Outcome, Enter
<1> HIDE DEF p
<1>4. Promise!Begin(p, c)
  BY <1>2, <1>3 DEF Promise!Begin, Files, Rooms, Busy, Outcome
<1> QED
  BY <1>1, <1>4 DEF Promise!Next

\* The steps that show nothing, or only that the call is over.
LEMMA HiddenStep ==
  ASSUME TypeOK,
         \/ AllocInodeBitmap \/ AllocInodeGd \/ AllocInodeSuper
         \/ AllocRunBitmap \/ AllocRunGd \/ AllocRunSuper \/ ReadFails \/ Crash
  PROVE  Promise!Next \/ UNCHANGED <<Files, Rooms, Busy, Outcome>>
<1>1. pc # "idle" /\ UNCHANGED <<inode, dirent, data>>
  BY DEF AllocInodeBitmap, AllocInodeGd, AllocInodeSuper, AllocRunBitmap, AllocRunGd,
         AllocRunSuper, ReadFails, Crash, disk
<1>2. UNCHANGED <<Files, Rooms>>
  BY <1>1, QuietShown
<1>3. \/ pc' # "idle" /\ op' = op /\ result' = result
      \/ Fail("device") \/ Fail("full") \/ Crash
  BY DEF AllocInodeBitmap, AllocInodeGd, AllocInodeSuper, AllocRunBitmap, AllocRunGd,
         AllocRunSuper, ReadFails, Goto
<1>4. CASE pc' # "idle" /\ op' = op /\ result' = result
  BY <1>1, <1>2, <1>4, OnShown DEF GoesOn
<1>5. CASE Fail("device") \/ Fail("full")
  BY <1>1, <1>2, <1>5, StopShown, GiveUpShown DEF Stopped
<1>6. CASE Crash
  <2>1. Busy' = <<>> /\ Outcome' = "crash"
    BY <1>6 DEF Crash, Reset, Busy, Outcome
  <2> QED
    BY <1>1, <1>2, <2>1, GiveUpShown
<1> QED
  BY <1>3, <1>4, <1>5, <1>6

\* The new inode is not named yet: no file changes.
LEMMA NewInodeStep ==
  ASSUME IInv, WriteNewInode
  PROVE  Promise!Next \/ UNCHANGED <<Files, Rooms, Busy, Outcome>>
<1>1. TypeOK /\ pc = "newInode" /\ UNCHANGED <<dirent, data>>
  BY DEF WriteNewInode, IInv
<1>2. \A d \in Dirs, s \in Slots : dirent[d][s].ino # ino
  BY <1>1 DEF IInv, InFlight, Creating
<1>3. ASSUME NEW d \in Dirs, NEW name \in Names
      PROVE  ReadFile(d, name)' = ReadFile(d, name) /\ Room(d, name)' = Room(d, name)
  <2>1. \A s \in Match(d, name) : inode'[dirent[d][s].ino] = inode[dirent[d][s].ino]
    <3>1. \A i \in Inodes \ {ino} : inode'[i] = inode[i]
      BY <1>1 DEF WriteNewInode, TypeOK
    <3>2. \A s \in Match(d, name) : dirent[d][s].ino \in Inodes \ {ino}
      BY <1>1, <1>2, MatchType
    <3> QED
      BY <3>1, <3>2
  <2>2. Match(d, name)' = Match(d, name)
    BY <1>1 DEF Match
  <2> QED
    BY <1>1, <2>1, <2>2, FrameName
<1>4. UNCHANGED <<Files, Rooms>>
  BY <1>3 DEF Files, Rooms, Path
<1>5. CASE Goto("dirEntry")
  BY <1>1, <1>4, <1>5, OnShown DEF Goto, GoesOn
<1>6. CASE Fail("device")
  BY <1>1, <1>4, <1>6, StopShown, GiveUpShown DEF Stopped
<1> QED
  BY <1>5, <1>6 DEF WriteNewInode

\* The entry: the file is there, and empty.
LEMMA EntryStep ==
  ASSUME IInv, NInv, NInv', AddDirEntry
  PROVE  \/ Promise!Next \/ UNCHANGED <<Files, Rooms, Busy, Outcome>>
         \/ Mine \in missed /\ Unmoved
<1> DEFINE entry == [ino |-> ino, name |-> op.name, type |-> "file"]
<1>1. /\ TypeOK /\ pc = "dirEntry" /\ UNCHANGED <<inode, data>> /\ ino \in Inodes
      /\ inode[ino] = NewInode("file") /\ op.dir \in Dirs /\ op.name \in Names
  BY DEF AddDirEntry, IInv, InFlight, TypeOK
<1>2. GoesOn \/ Stopped
  <2>1. CASE Enter(ino, inode[ino], Need) /\ UNCHANGED <<op, result, writes, aborts>>
    BY <1>1, <2>1, OnShown DEF Enter
  <2>2. CASE Fail("device") \/ Fail("full")
    BY <2>2, StopShown
  <2> QED
    BY <2>1, <2>2 DEF AddDirEntry
<1>3. CASE dirent' = dirent
  <2>1. CASE GoesOn
    BY <1>1, <1>3, <2>1, QuietShown DEF GoesOn
  <2>2. CASE Stopped
    BY <1>1, <1>3, <2>2, QuietShown, GiveUpShown DEF Stopped
  <2> QED
    BY <1>2, <2>1, <2>2
<1>4. ASSUME NEW s \in Slots, dirent[op.dir][s].ino = 0,
             \A d \in Dirs, t \in Slots :
               dirent'[d][t] = IF d = op.dir /\ t = s THEN entry ELSE dirent[d][t]
      PROVE  Promise!Next \/ (Mine \in missed /\ Unmoved)
  <2>1. Match(op.dir, op.name) = {} \/ Mine \in missed
    BY <1>1 DEF NInv, Fresh, Creating, Mine
  <2>2. Unmoved
    <3>1. ASSUME NEW d \in Dirs, NEW other \in Names, d # op.dir \/ other # op.name
          PROVE  ReadFile(d, other)' = ReadFile(d, other) /\ Room(d, other)' = Room(d, other)
      <4>1. Match(d, other)' = Match(d, other)
        BY <1>4, <3>1 DEF Match
      <4>2. \A t \in Match(d, other) : dirent'[d][t] = dirent[d][t]
        BY <1>4 DEF Match
      <4> QED
        BY <1>1, <4>1, <4>2, FrameName
    <3> QED
      BY <3>1, OthersShown
  <2>3. CASE Match(op.dir, op.name) = {} /\ Mine \notin missed
    <3>1. PICK dir \in Dirs, name \in Names : dir = op.dir /\ name = op.name
      BY <1>1
    <3>2. s \in Match(dir, name)' /\ dirent'[dir][s] = entry
      <4>1. dirent'[dir][s] = entry
        BY <1>4, <3>1
      <4>2. ino # 0
        BY <1>1, ConstantsOK DEF Inodes
      <4> QED
        BY <3>1, <4>1, <4>2 DEF Match
    <3>3. <<dir, name>> \notin missed'
      BY <2>3, <3>1 DEF AddDirEntry, history, Mine
    <3>4. ReadFile(dir, name)' = {ReadBlocks(inode[dirent[dir][s].ino])'}
      BY <3>2, <3>3, LookupNext DEF NInv
    <3>5. (inode[dirent[dir][s].ino])' = NewInode("file")
      BY <1>1, <3>2
    <3>6. ReadBlocks(inode[dirent[dir][s].ino])' = <<>>
      BY <3>5 DEF ReadBlocks, NewInode
    <3>7. Files'[<<dir, name>>] = ReadFile(dir, name)'
      BY DEF Files, Path
    <3>8. Files'[Mine] = {<<>>}
      BY <3>1, <3>4, <3>6, <3>7 DEF Mine
    <3>9. Files[Mine] = {}
      BY <1>1, <2>3, CallShown DEF ReadFile, Least
    <3> QED
      BY <1>1, <1>2, <2>2, <3>8, <3>9, CreateShown
  <2> QED
    BY <2>1, <2>2, <2>3
<1> QED
  BY <1>3, <1>4, EntryAdded

\* The call's file, while the call holds a run for it.
LEMMA MineIs ==
  ASSUME IInv, NInv, RInv, Holding, ino \notin Dirs, Mine \notin missed
  PROVE  \E dir \in Dirs, name \in Names : \E s \in Match(dir, name) :
           /\ dir = op.dir /\ name = op.name /\ Mine = <<dir, name>> /\ Mine \in Path
           /\ dirent[dir][s].ino = ino /\ dirent[dir][s].type = "file"
           /\ Files[Mine] = {ReadBlocks(inode[ino])}
           /\ Rooms[Mine] = IF inode[ino].map = "leaf" THEN inode[ino].len ELSE 0
<1>1. pc # "idle" /\ TypeOK
  BY DEF Holding, IInv
<1>2. PICK dir \in Dirs, name \in Names : dir = op.dir /\ name = op.name
  BY <1>1 DEF TypeOK
<1>3. PICK s \in Match(dir, name) : dirent[dir][s].ino = ino /\ dirent[dir][s].type = "file"
  BY <1>2, TargetFile
<1>4. /\ ReadFile(dir, name) = {ReadBlocks(inode[ino])}
      /\ Room(dir, name) = IF inode[ino].map = "leaf" THEN inode[ino].len ELSE 0
  BY <1>2, <1>3, LookupIs DEF NInv, Mine
<1> QED
  BY <1>1, <1>2, <1>3, <1>4, CallShown DEF Mine

\* A block of data: the file's own, if the call overwrites in place, or one that
\* nobody reads yet.
LEMMA DataStep ==
  ASSUME IInv, NInv, NInv', RInv, WriteData, overwritten' = {}
  PROVE  \/ Promise!Next \/ UNCHANGED <<Files, Rooms, Busy, Outcome>>
         \/ Mine \in missed /\ Unmoved
<1>1. /\ TypeOK /\ pc = "data" /\ Holding /\ fi \in InodeType /\ fi.map = "leaf"
      /\ Need \in Nat \ {0} /\ Need <= fi.len /\ done \in Nat /\ done < Need
      /\ UNCHANGED <<inode, dirent, missed>> /\ ino \in Inodes
  BY NeedNat DEF WriteData, IInv, TypeOK, InFlight, Holding
<1>2. GoesOn \/ Stopped
  <2>1. CASE UNCHANGED <<op, ino, fi, result, writes, aborts>> /\ pc' \in {"inode", "data"}
    BY <1>1, <2>1, OnShown
  <2>2. CASE Fail("device") \/ Fail("beyond")
    BY <2>2, StopShown
  <2> QED
    BY <2>1, <2>2 DEF WriteData
<1>3. CASE UNCHANGED <<Files, Rooms>>
  <2>1. CASE GoesOn
    BY <1>3, <2>1 DEF GoesOn
  <2>2. CASE Stopped
    BY <1>1, <1>3, <2>2, GiveUpShown DEF Stopped
  <2> QED
    BY <1>2, <2>1, <2>2
<1>4. CASE data' = data
  BY <1>1, <1>3, <1>4, QuietShown
<1>5. CASE Store(fi.lo + done)
  <2> DEFINE block == fi.lo + done
  <2>1. block \in Owned(fi)
    BY <1>1 DEF Owned, FirstExtent, InodeType
  <2>2. \A j \in Inodes \ {ino} : block \notin Owned(inode[j])
    BY <1>1, <2>1 DEF IInv, InFlight
  <2>3. data' = [data EXCEPT ![block] = <<op.content, done + 1>>]
    BY <1>5 DEF Store
  <2> HIDE DEF block
  <2>4. \A b : b # block => data'[b] = data[b]
    BY <1>1, <2>3 DEF TypeOK
  <2>5. \A d \in Dirs, name \in Names :
          Match(d, name)' = Match(d, name) /\ \A s \in Match(d, name) : dirent'[d][s] = dirent[d][s]
    BY <1>1 DEF Match
  <2>6. CASE fi = inode[ino]
    <3>1. ino \notin Dirs
      BY <1>5, <2>1, <2>6 DEF Store, block
    <3>2. Unmoved
      <4>1. ASSUME NEW d \in Dirs, NEW name \in Names, d # op.dir \/ name # op.name
            PROVE  ReadFile(d, name)' = ReadFile(d, name) /\ Room(d, name)' = Room(d, name)
        <5>1. \A s \in Match(d, name) : block \notin FirstExtent(inode[dirent[d][s].ino])
          BY <1>1, <2>2, <3>1, <4>1, OtherInode DEF Owned
        <5> QED
          BY <1>1, <2>4, <2>5, <5>1, FrameName
      <4> QED
        BY <4>1, OthersShown
    <3>3. CASE Mine \notin missed
      <4>1. PICK dir \in Dirs, name \in Names : \E s \in Match(dir, name) :
              /\ dir = op.dir /\ name = op.name /\ Mine = <<dir, name>> /\ Mine \in Path
              /\ dirent[dir][s].ino = ino /\ dirent[dir][s].type = "file"
              /\ Rooms[Mine] = IF inode[ino].map = "leaf" THEN inode[ino].len ELSE 0
        BY <1>1, <3>1, <3>3, MineIs
      <4>2. PICK s \in Match(dir, name) : dirent[dir][s].ino = ino /\ dirent[dir][s].type = "file"
        BY <4>1
      <4>3. Files'[Mine] = ReadFile(dir, name)' /\ Rooms'[Mine] = Room(dir, name)'
        BY <4>1 DEF Files, Rooms, Path
      <4>4. Need <= Rooms[Mine]
        BY <1>1, <2>6, <4>1
      <4>5. s \in Match(dir, name)' /\ dirent'[dir][s].ino = ino /\ dirent'[dir][s].type = "file"
        BY <1>1, <2>5, <4>2
      <4>6. <<dir, name>> \notin missed'
        BY <1>1, <3>3, <4>1
      <4>7. /\ ReadFile(dir, name)' = {ReadBlocks(inode[dirent[dir][s].ino])'}
            /\ Room(dir, name)' = IF inode'[ino].map = "leaf" THEN inode'[ino].len ELSE 0
        BY <4>5, <4>6, LookupNext DEF NInv
      <4>8. Files'[Mine] # {} /\ Rooms'[Mine] = Rooms[Mine]
        BY <1>1, <4>1, <4>3, <4>7
      <4> QED
        BY <1>1, <1>2, <3>2, <4>4, <4>8, OverwriteShown
    <3> QED
      BY <3>2, <3>3
  <2>7. CASE \A b \in Owned(fi) : b \notin Owned(inode[ino])
    <3>1. \A i \in Inodes : block \notin FirstExtent(inode[i])
      BY <2>1, <2>2, <2>7 DEF Owned
    <3>2. ASSUME NEW d \in Dirs, NEW n \in Names
          PROVE  ReadFile(d, n)' = ReadFile(d, n) /\ Room(d, n)' = Room(d, n)
      <4>1. \A t \in Match(d, n) : block \notin FirstExtent(inode[dirent[d][t].ino])
        BY <1>1, <3>1, MatchType
      <4> QED
        BY <1>1, <2>4, <2>5, <4>1, FrameName
    <3>3. UNCHANGED <<Files, Rooms>>
      BY <3>2 DEF Files, Rooms, Path
    <3> QED
      BY <1>3, <3>3
  <2> QED
    BY <1>1, <2>6, <2>7 DEF RInv, Apart
<1> QED
  BY <1>4, <1>5 DEF WriteData

\* The inode: from here on the file reads as what was written.
LEMMA InodeStep ==
  ASSUME IInv, NInv, NInv', RInv, WriteInode, overwritten' = {}
  PROVE  \/ Promise!Next \/ UNCHANGED <<Files, Rooms, Busy, Outcome>>
         \/ Mine \in missed /\ Unmoved
<1> DEFINE n == [fi EXCEPT !.size = Need]
<1>1. /\ TypeOK /\ pc = "inode" /\ Holding /\ fi \in InodeType /\ fi.map = "leaf"
      /\ Need \in Nat \ {0} /\ Need <= fi.len /\ ino \in Inodes
      /\ UNCHANGED <<dirent, data, missed>>
  BY NeedNat DEF WriteInode, IInv, TypeOK, InFlight, Holding
<1>2. Busy' = <<>> /\ Outcome' \in {"ok", "failed"}
  BY DEF WriteInode, Fail, Reset, Busy, Outcome
<1>3. CASE inode' = inode /\ Fail("device")
  BY <1>1, <1>3, QuietShown, StopShown, GiveUpShown DEF Stopped
<1>4. ASSUME inode' = [inode EXCEPT ![ino] = n], ino \notin Dirs
      PROVE  Promise!Next \/ (Mine \in missed /\ Unmoved)
  <2>1. /\ n \in InodeType /\ n.map = "leaf" /\ n.lo = fi.lo /\ n.len = fi.len
        /\ n.size = Need
    BY <1>1 DEF InodeType
  <2> HIDE DEF n
  <2>2. inode'[ino] = n /\ \A i \in Inodes \ {ino} : inode'[i] = inode[i]
    BY <1>1, <1>4 DEF TypeOK
  <2>3. \A d \in Dirs, name \in Names :
          Match(d, name)' = Match(d, name) /\ \A s \in Match(d, name) : dirent'[d][s] = dirent[d][s]
    BY <1>1 DEF Match
  <2>4. Unmoved
    <3>1. ASSUME NEW d \in Dirs, NEW name \in Names, d # op.dir \/ name # op.name
          PROVE  ReadFile(d, name)' = ReadFile(d, name) /\ Room(d, name)' = Room(d, name)
      <4>1. \A s \in Match(d, name) : inode'[dirent[d][s].ino] = inode[dirent[d][s].ino]
        BY <1>1, <1>4, <2>2, <3>1, OtherInode
      <4> QED
        BY <1>1, <2>3, <4>1, FrameName
    <3> QED
      BY <3>1, OthersShown
  <2>5. CASE Mine \notin missed
    <3>1. PICK dir \in Dirs, name \in Names : \E s \in Match(dir, name) :
            /\ Mine = <<dir, name>> /\ Mine \in Path
            /\ dirent[dir][s].ino = ino /\ dirent[dir][s].type = "file"
            /\ Files[Mine] = {ReadBlocks(inode[ino])}
      BY <1>1, <1>4, <2>5, MineIs
    <3>2. PICK s \in Match(dir, name) : dirent[dir][s].ino = ino /\ dirent[dir][s].type = "file"
      BY <3>1
    <3>3. Files'[Mine] = ReadFile(dir, name)' /\ Rooms'[Mine] = Room(dir, name)'
      BY <3>1 DEF Files, Rooms, Path
    <3>4. s \in Match(dir, name)' /\ dirent'[dir][s].ino = ino /\ dirent'[dir][s].type = "file"
      BY <1>1, <2>3, <3>2
    <3>5. /\ ReadFile(dir, name)' = {ReadBlocks(inode[dirent[dir][s].ino])'}
          /\ Room(dir, name)' = n.len
      <4>1. <<dir, name>> \notin missed'
        BY <1>1, <2>5, <3>1
      <4> QED
        BY <2>1, <2>2, <3>4, <4>1, LookupNext DEF NInv
    <3>6. ReadBlocks(inode[dirent[dir][s].ino])' = [k \in 1 .. Need |-> <<op.content, k>>]
      <4>1. Smaller(n.size, n.len) = Need
        BY <1>1, <2>1 DEF Smaller
      <4>2. \A k \in 1 .. Need : data[fi.lo + k - 1] = <<op.content, k>>
        BY <1>1 DEF RInv, Written
      <4>3. (inode[dirent[dir][s].ino])' = n
        BY <2>2, <3>4
      <4>4. ReadBlocks(inode[dirent[dir][s].ino])'
              = [k \in 1 .. Smaller(n.size, n.len) |-> data'[n.lo + k - 1]]
        BY <2>1, <4>3 DEF ReadBlocks
      <4>5. \A k \in 1 .. Need : data'[n.lo + k - 1] = <<op.content, k>>
        BY <1>1, <2>1, <4>2
      <4> QED
        BY <4>1, <4>4, <4>5
    <3>7. /\ Files[Mine] # {} /\ Rooms'[Mine] >= Need
          /\ Files'[Mine] = {[k \in 1 .. Size[op.content] |-> <<op.content, k>>]}
      BY <1>1, <2>1, <3>1, <3>3, <3>5, <3>6, CallShown
    <3> QED
      BY <1>1, <1>2, <2>4, <3>7, CommitShown
  <2> QED
    BY <2>4, <2>5
<1>5. CASE inode' = [inode EXCEPT ![ino] = n] /\ overwritten' = overwritten \cup (Dirs \cap {ino})
  BY <1>4, <1>5
<1> QED
  BY <1>3, <1>5 DEF WriteInode

\* Every step of the driver is a step of FileStore or shows nothing.
LEMMA ShownStep ==
  ASSUME IInv, NInv, NInv', RInv, [Next]_vars, overwritten' = {}
  PROVE  \/ Promise!Next \/ UNCHANGED <<Files, Rooms, Busy, Outcome>>
         \/ \E p \in missed : Promise!Others(p)
<1>1. CASE UNCHANGED vars
  BY <1>1, QuietShown DEF vars, disk, volatile, Busy, Outcome
<1>2. TypeOK
  BY DEF IInv
<1> QED
  BY <1>1, <1>2, BeginStep, HiddenStep, NewInodeStep, EntryStep, DataStep, InodeStep,
     MissedShown DEF Next

(***************************************************************************)
(* ImplementsFileStore of Ext4.tla: for every disk and every sequence of   *)
(* calls, refused writes and crashes, what the names read as follows       *)
(* FileStore until a call overwrites a directory: other files never        *)
(* change, a call that returns 1 has stored exactly its content, and a     *)
(* call that does not fit in place is atomic; a lookup that failed spoils  *)
(* these promises for its own name alone.  It holds of both outcomes of    *)
(* the shift by 32.                                                        *)
(***************************************************************************)
THEOREM WriteRefines == Spec => ImplementsFileStore
<1> DEFINE Kept == \/ Promise!Next \/ \E p \in missed : Promise!Others(p)
                   \/ overwritten' # {}
<1>1. Init => NInv /\ Promise!Init
  BY ImageOK DEF Init, NInv, NamesUnique, Fresh, Creating, Promise!Init
<1>2. IInv /\ NInv /\ [Next]_vars => NInv'
  BY NamesStep
<1>3. IInv /\ NInv /\ NInv' /\ RInv /\ [Next]_vars => [Kept]_(Promise!vars)
  BY ShownStep DEF Promise!vars, Files, Rooms, Busy, Outcome
<1> QED
  BY <1>1, <1>2, <1>3, Inductive, CallHolds, PTL DEF Spec, ImplementsFileStore
=============================================================================
