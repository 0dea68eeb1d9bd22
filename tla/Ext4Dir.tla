------------------------------- MODULE Ext4Dir -------------------------------
(***************************************************************************)
(* A directory of the ext4 driver as it lies in its blocks: variable-size  *)
(* records, each holding the distance to the next one.  The three walks of *)
(* fs/ext4/ext4.c over them (ext4_find_in_dir, ext4_add_dir_entry and      *)
(* ext4_list_dir) are one loop with three bodies, one iteration a step.    *)
(* Module Ext4 uses what is checked here: that a lookup finds a name if and *)
(* only if it is there, and that adding a name adds this name and no more. *)
(*                                                                         *)
(* Offsets and lengths count words of four bytes, which is what align4     *)
(* rounds to and mkfs keeps to.  block[b] is a function whose domain is    *)
(* the set of offsets of block b where a record starts: anywhere else      *)
(* there are the bytes of a name, or what was there once.                  *)
(***************************************************************************)
EXTENDS Integers, Sequences, FiniteSets

CONSTANTS
  W,              \* words in a block
  NB,             \* blocks of the directory
  Names, NoName,  \* names; the name of a record that holds none
  Hidden,         \* "." and "..", which are not listed
  Len4,           \* Len4[n]: bytes of a name
  Inos,           \* inode numbers a new entry may get
  Image,          \* the blocks as mkfs or another system left them
  MaxSize,        \* bytes of the buffer the listing goes to
  MaxCalls        \* bound on the calls made

Blks    == 1 .. NB
Offsets == 0 .. (W - 1)

\* align4(8 + name_len)
Used(name) == 2 + (Len4[name] + 3) \div 4

Record == [ino : Nat, rec : Nat, name : Names \cup {NoName}]

\* The records follow one another from the first word to the last, and each
\* is long enough for what it holds.
Tiles(f) ==
  /\ DOMAIN f \subseteq Offsets /\ 0 \in DOMAIN f
  /\ \A o \in DOMAIN f :
       /\ f[o] \in Record
       /\ f[o].ino # 0 => f[o].name # NoName
       /\ f[o].rec >= Used(f[o].name)
       /\ o + f[o].rec \in DOMAIN f \cup {W}
       /\ \A p \in DOMAIN f : p <= o \/ p >= o + f[o].rec

ASSUME DirConstants ==
  /\ W \in Nat \ {0} /\ NB \in Nat /\ MaxSize \in Nat \ {0} /\ MaxCalls \in Nat
  /\ NoName \notin Names /\ Hidden \subseteq Names
  /\ Len4 \in [Names \cup {NoName} -> Nat]
  /\ Len4[NoName] = 0 /\ \A n \in Names : Len4[n] > 0
  /\ Inos \subseteq Nat \ {0}

ASSUME DirImage == DOMAIN Image = Blks /\ \A b \in Blks : Tiles(Image[b])

\* No name is in two records: who made the image looked it up before, as
\* ext4_write_file does.
NamedOnce(blocks) ==
  \A b, c \in Blks : \A o \in DOMAIN blocks[b], p \in DOMAIN blocks[c] :
    /\ blocks[b][o].ino # 0 /\ blocks[c][p].ino # 0
    /\ blocks[b][o].name = blocks[c][p].name
    => b = c /\ o = p

ASSUME DirNames == NamedOnce(Image)

VARIABLES
  block,          \* on the disk
  pc,             \* "idle", "read" (the next block) or "scan"
  op,             \* the walk and its arguments
  blk, off,       \* where it is
  out, outPos,    \* names listed, and bytes used in the buffer
  result, device, \* what the last walk returned; did the device serve it?
  calls

vars == <<block, pc, op, blk, off, out, outPos, result, device, calls>>

\* The entries of a directory, in a block.
Entries(f) == {[ino |-> f[o].ino, name |-> f[o].name] :
                 o \in {p \in DOMAIN f : f[p].ino # 0}}
Listed     == UNION {Entries(block[b]) : b \in Blks}
Absent(name) == \A e \in Listed : e.name # name

Init ==
  /\ block = Image
  /\ pc = "idle" /\ op = [kind |-> "none", name |-> NoName, ino |-> 0]
  /\ blk = 1 /\ off = 0 /\ out = <<>> /\ outPos = 0
  /\ result = 0 /\ device = "good" /\ calls = 0

\* ext4_write_file adds a name only when it was not found.
Call(kind, name, ino) ==
  /\ pc = "idle" /\ calls < MaxCalls
  /\ kind = "add" => Absent(name)
  /\ pc' = "read" /\ op' = [kind |-> kind, name |-> name, ino |-> ino]
  /\ blk' = 1 /\ off' = 0 /\ out' = <<>> /\ outPos' = 0
  /\ result' = 0 /\ device' = "good" /\ calls' = calls + 1
  /\ UNCHANGED block

Return(r, served) ==
  /\ pc' = "idle" /\ result' = r /\ device' = served
  /\ UNCHANGED <<op, blk, off, out, outPos, calls>>

ReadBlock ==
  /\ pc = "read" /\ blk <= NB
  /\ UNCHANGED block
  /\ \/ /\ pc' = "scan" /\ off' = 0
        /\ UNCHANGED <<op, blk, out, outPos, result, device, calls>>
     \/ Return(0, "failed")

NoMoreBlocks ==
  /\ pc = "read" /\ blk > NB
  /\ UNCHANGED block
  /\ Return(IF op.kind = "list" THEN 1 ELSE 0, "good")

Here == block[blk][off]

\* Mutant: the record that ends the block is not looked at.
AtEndBeforeLast == off + Here.rec >= W

\* while (offset + 8 < block_size) { if (rec_len == 0) break; ...
AtEnd == off + 2 < W => Here.rec = 0

\* Mutant: the next block is the same one.
NextBlockStays ==
  /\ pc = "scan" /\ AtEnd /\ pc' = "read"
  /\ UNCHANGED <<block, op, blk, off, out, outPos, result, device, calls>>

NextBlock ==
  /\ pc = "scan" /\ AtEnd
  /\ pc' = "read" /\ blk' = blk + 1
  /\ UNCHANGED <<block, op, off, out, outPos, result, device, calls>>

Matches(r, name) == r.ino # 0 /\ r.name = name

\* Mutant: what the record uses itself is not counted.
FitsAlone(r, name) == r.rec >= Used(name)

\* The record has room for the new one behind what it uses itself.
Fits(r, name) == r.rec >= Used(r.name) + Used(name)

\* Mutant: every name of one or two bytes is taken for "." or "..".
ShownLong(r) == r.ino # 0 /\ Len4[r.name] > 2

\* The listing stops, with a result of 1, when the next name does not fit.
Shown(r) == r.ino # 0 /\ r.name \notin Hidden
Full(r)  == outPos + Len4[r.name] + 2 >= MaxSize

Found ==
  /\ pc = "scan" /\ ~AtEnd /\ op.kind = "find" /\ Matches(Here, op.name)
  /\ Return(Here.ino, "good") /\ UNCHANGED block

\* The record is cut behind what it uses; the new one gets all the rest.
Split(f, o, name, ino) ==
  LET new == o + Used(f[o].name)
  IN  [p \in DOMAIN f \cup {new} |->
         IF p = new
           THEN [ino |-> ino, rec |-> f[o].rec - Used(f[o].name), name |-> name]
           ELSE IF p = o THEN [f[o] EXCEPT !.rec = Used(f[o].name)] ELSE f[p]]

\* Mutant: the result of the block write is not looked at.
AddedUnchecked ==
  /\ pc = "scan" /\ ~AtEnd /\ op.kind = "add" /\ Fits(Here, op.name)
  /\ block' \in {block, [block EXCEPT ![blk] = Split(@, off, op.name, op.ino)]}
  /\ Return(1, "good")

Added ==
  /\ pc = "scan" /\ ~AtEnd /\ op.kind = "add" /\ Fits(Here, op.name)
  /\ LET new == [block EXCEPT ![blk] = Split(@, off, op.name, op.ino)]
     IN  \/ block' = new /\ Return(1, "good")
         \/ block' \in {block, new} /\ Return(0, "failed")

Cut ==
  /\ pc = "scan" /\ ~AtEnd /\ op.kind = "list" /\ Shown(Here) /\ Full(Here)
  /\ Return(1, "good") /\ UNCHANGED block

Advance ==
  /\ pc = "scan" /\ ~AtEnd
  /\ op.kind = "find" => ~Matches(Here, op.name)
  /\ op.kind = "add"  => ~Fits(Here, op.name)
  /\ off' = off + Here.rec
  /\ IF op.kind = "list" /\ Shown(Here)
       THEN /\ ~Full(Here)
            /\ out' = Append(out, Here.name)
            /\ outPos' = outPos + Len4[Here.name] + 1
       ELSE UNCHANGED <<out, outPos>>
  /\ UNCHANGED <<block, pc, op, blk, result, device, calls>>

Next ==
  \/ \E kind \in {"find", "add", "list"}, name \in Names, ino \in Inos :
       Call(kind, name, ino)
  \/ ReadBlock \/ NoMoreBlocks \/ NextBlock
  \/ Found \/ Added \/ Cut \/ Advance

Spec == Init /\ [][Next]_vars

\* Every loop of the code runs until it is over: nothing waits.
FairSpec == Spec /\ WF_vars(ReadBlock \/ NoMoreBlocks \/ NextBlock
                              \/ Found \/ Added \/ Cut \/ Advance)

-----------------------------------------------------------------------------
TypeOK ==
  /\ DOMAIN block = Blks
  /\ pc \in {"idle", "read", "scan"}
  /\ op \in [kind : {"none", "find", "add", "list"}, name : Names \cup {NoName},
             ino : Nat]
  /\ pc # "idle" => op.kind # "none" /\ op.name \in Names
  /\ blk \in Nat \ {0} /\ (pc = "scan" => blk \in Blks)
  /\ off \in Nat /\ result \in Nat /\ device \in {"good", "failed"}

\* Whatever is added, the records of a block go on to follow one another
\* to its end, no record reaching into the next.
Tiling == \A b \in Blks : Tiles(block[b])

\* The walk steps from record to record: it never takes the bytes of a name,
\* or of a record that was there once, for a record.
OnRecord == pc = "scan" => off \in DOMAIN block[blk] \cup {W}

\* A lookup that no read failed finds the name exactly if it is there,
\* wherever the records that hold other things lie.
FindDone == pc = "idle" /\ op.kind = "find" /\ device = "good"
FindCorrect ==
  FindDone => \/ [ino |-> result, name |-> op.name] \in Listed
              \/ result = 0 /\ Absent(op.name)

\* A successful addition adds the entry it was asked for and no step of any
\* walk adds, drops or changes another.
AddCorrect ==
  [][/\ Listed \subseteq Listed'
     /\ Listed' \subseteq Listed \cup {[ino |-> op.ino, name |-> op.name]}
     /\ (op.kind = "add" /\ result' = 1) =>
          [ino |-> op.ino, name |-> op.name] \in Listed']_vars

\* "The directory is full" is never said while some record has room.
AddGivesUpLate ==
  pc = "idle" /\ op.kind = "add" /\ result = 0 /\ device = "good"
    => \A b \in Blks : \A o \in DOMAIN block[b] : ~Fits(block[b][o], op.name)

\* What a listing that reports success shows is there, not hidden, shown once
\* and within the buffer; a name is missing only behind one that did not fit.
ListRight ==
  pc = "idle" /\ op.kind = "list" /\ result = 1 =>
    LET visible == {e.name : e \in Listed} \ Hidden
        shown   == {out[k] : k \in 1 .. Len(out)}
    IN  /\ shown \subseteq visible /\ outPos < MaxSize
        /\ \A j, k \in 1 .. Len(out) : out[j] = out[k] => j = k
        /\ visible # shown =>
             \E m \in visible \ shown : outPos + Len4[m] + 2 >= MaxSize

\* Every walk ends: each record leads further on.
WalksEnd == pc # "idle" ~> pc = "idle"
=============================================================================
