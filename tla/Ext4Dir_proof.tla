---------------------------- MODULE Ext4Dir_proof ----------------------------
(***************************************************************************)
(* The walks over a directory's records, for blocks of any size, any       *)
(* number of blocks and any image whose records tile them.                 *)
(***************************************************************************)
EXTENDS Ext4Dir, TLAPS

\* What align4(8 + name_len) gives: two words and at least one for a name.
LEMMA UsedFacts ==
  /\ \A n \in Names \cup {NoName} : Used(n) \in Nat /\ Used(n) >= 2
  /\ \A n \in Names : Used(n) >= 3
<1>1. ASSUME NEW n \in Names \cup {NoName}
      PROVE  Used(n) \in Nat /\ Used(n) >= 2 /\ (n \in Names => Used(n) >= 3)
  <2>1. Len4[n] \in Nat /\ (n \in Names => Len4[n] > 0)
    BY DirConstants
  <2>2. (Len4[n] + 3) \div 4 \in Nat /\ (n \in Names => (Len4[n] + 3) \div 4 >= 1)
    BY <2>1
  <2> QED
    BY <2>2 DEF Used
<1> QED
  BY <1>1

\* From a record the next offset is a record or the end, with none between.
LEMMA NextRecord ==
  ASSUME NEW f, Tiles(f), NEW o \in DOMAIN f
  PROVE  /\ o \in Nat /\ f[o] \in Record /\ f[o].rec >= 2
         /\ o + f[o].rec \in DOMAIN f \cup {W} /\ o + f[o].rec <= W
         /\ \A p \in DOMAIN f : p < o + f[o].rec => p <= o
<1>1. o \in Nat /\ f[o] \in Record /\ f[o].rec \in Nat
  BY DEF Tiles, Offsets, Record
<1>2. f[o].rec >= 2
  BY <1>1, UsedFacts DEF Tiles, Record
<1>3. o + f[o].rec \in DOMAIN f \cup {W} /\ o + f[o].rec <= W
  BY DirConstants DEF Tiles, Offsets
<1>4. \A p \in DOMAIN f : p < o + f[o].rec => p <= o
  <2> SUFFICES ASSUME NEW p \in DOMAIN f, p < o + f[o].rec PROVE p <= o
    OBVIOUS
  <2>1. p \in Int /\ (p <= o \/ p >= o + f[o].rec)
    BY DEF Tiles, Offsets
  <2> QED
    BY <1>1, <2>1
<1> QED
  BY <1>1, <1>2, <1>3, <1>4

\* Cutting a record that has room leaves a tiling.
LEMMA SplitTiles ==
  ASSUME NEW f, Tiles(f), NEW o \in DOMAIN f, NEW name \in Names,
         NEW ino \in Nat \ {0}, Fits(f[o], name)
  PROVE  Tiles(Split(f, o, name, ino))
<1> DEFINE u == Used(f[o].name)
           n == o + u
           g == Split(f, o, name, ino)
<1>1. f[o] \in Record /\ o \in Nat /\ f[o].rec \in Nat
  BY NextRecord DEF Record
<1>2. u \in Nat /\ u >= 2 /\ Used(name) \in Nat /\ Used(name) >= 3
  BY <1>1, UsedFacts DEF Record
<1>3. f[o].rec - u >= Used(name) /\ f[o].rec - u \in Nat
  BY <1>1, <1>2 DEF Fits
<1> HIDE DEF u
<1>4. n > o /\ n < o + f[o].rec /\ n \in Offsets /\ n \notin DOMAIN f
  <2>1. n > o /\ n < o + f[o].rec
    BY <1>1, <1>2, <1>3
  <2>2. o + f[o].rec <= W
    BY NextRecord
  <2>3. n \in Offsets
    BY <1>1, <1>2, <2>1, <2>2, DirConstants DEF Offsets
  <2>4. n \notin DOMAIN f
    BY <2>1, <1>1, <1>2 DEF Tiles
  <2> QED
    BY <2>1, <2>3, <2>4
<1>5. /\ DOMAIN g = DOMAIN f \cup {n}
      /\ g[n] = [ino |-> ino, rec |-> f[o].rec - u, name |-> name]
      /\ g[o] = [f[o] EXCEPT !.rec = u]
      /\ \A p \in DOMAIN f : p # o => g[p] = f[p]
  BY <1>4 DEF Split, u
<1>6. /\ g[o].ino = f[o].ino /\ g[o].rec = u /\ g[o].name = f[o].name
      /\ g[o] \in Record /\ g[n] \in Record
  BY <1>1, <1>2, <1>3, <1>5 DEF Record
<1> HIDE DEF g
<1>7. DOMAIN g \subseteq Offsets /\ 0 \in DOMAIN g
  BY <1>4, <1>5 DEF Tiles
<1>8. ASSUME NEW p \in DOMAIN g
      PROVE  /\ g[p] \in Record
             /\ g[p].ino # 0 => g[p].name # NoName
             /\ g[p].rec >= Used(g[p].name)
             /\ p + g[p].rec \in DOMAIN g \cup {W}
             /\ \A q \in DOMAIN g : q <= p \/ q >= p + g[p].rec
  <2>1. CASE p = n
    <3>1. p + g[p].rec = o + f[o].rec
      BY <1>1, <1>2, <1>3, <1>5, <2>1
    <3>2. \A q \in DOMAIN f : q <= o \/ q >= o + f[o].rec
      BY DEF Tiles
    <3>3. \A q \in DOMAIN g : q <= p \/ q >= p + g[p].rec
      BY <1>1, <1>2, <1>4, <1>5, <1>7, <2>1, <3>1, <3>2 DEF Offsets
    <3>4. p + g[p].rec \in DOMAIN g \cup {W}
      BY <1>5, <3>1 DEF Tiles
    <3>5. g[p].rec >= Used(g[p].name) /\ g[p].name # NoName
      BY <1>3, <1>5, <2>1, DirConstants
    <3> QED
      BY <1>6, <2>1, <3>3, <3>4, <3>5
  <2>2. CASE p = o
    <3>1. p + g[p].rec = n
      BY <1>6, <2>2
    <3>2. \A q \in DOMAIN f : q <= o \/ q >= o + f[o].rec
      BY DEF Tiles
    <3>3. \A q \in DOMAIN g : q <= p \/ q >= p + g[p].rec
      BY <1>1, <1>2, <1>4, <1>5, <1>7, <2>2, <3>1, <3>2 DEF Offsets
    <3>4. p + g[p].rec \in DOMAIN g \cup {W}
      BY <1>5, <3>1
    <3>5. g[p].rec >= Used(g[p].name)
      BY <1>2, <1>6, <2>2 DEF u
    <3>6. g[p].ino # 0 => g[p].name # NoName
      BY <1>6, <2>2 DEF Tiles
    <3> QED
      BY <1>6, <2>2, <3>3, <3>4, <3>5, <3>6
  <2>3. CASE p \in DOMAIN f \ {o}
    <3>1. g[p] = f[p]
      BY <1>5, <2>3
    <3>2. /\ g[p] \in Record
          /\ g[p].ino # 0 => g[p].name # NoName
          /\ g[p].rec >= Used(g[p].name)
          /\ p + g[p].rec \in DOMAIN g \cup {W}
      BY <1>5, <2>3, <3>1 DEF Tiles
    <3>3. p \in Nat /\ f[p].rec \in Nat
      BY <2>3, NextRecord DEF Record
    <3>4. n <= p \/ n >= p + f[p].rec
      <4>1. p <= o \/ p >= o + f[o].rec
        BY <2>3 DEF Tiles
      <4>2. o <= p \/ o >= p + f[p].rec
        BY <2>3 DEF Tiles
      <4>3. p # o
        BY <2>3
      <4> QED
        BY <1>1, <1>2, <1>4, <3>3, <4>1, <4>2, <4>3
    <3>5. \A q \in DOMAIN g : q <= p \/ q >= p + g[p].rec
      BY <1>5, <2>3, <3>1, <3>4 DEF Tiles
    <3> QED
      BY <3>2, <3>5
  <2> QED
    BY <1>5, <2>1, <2>2, <2>3
<1> QED
  BY <1>7, <1>8 DEF Tiles, g

\* The new record starts where none did.
LEMMA SplitNew ==
  ASSUME NEW f, Tiles(f), NEW o \in DOMAIN f, NEW name \in Names,
         NEW ino \in Nat \ {0}, Fits(f[o], name)
  PROVE  o + Used(f[o].name) \notin DOMAIN f
<1>1. f[o] \in Record /\ o \in Nat /\ f[o].rec \in Nat
  BY NextRecord DEF Record
<1>2. Used(f[o].name) \in Nat /\ Used(f[o].name) >= 2 /\ Used(name) \in Nat /\ Used(name) >= 3
  BY <1>1, UsedFacts DEF Record
<1> DEFINE n == o + Used(f[o].name)
<1>3. n > o /\ n < o + f[o].rec
  BY <1>1, <1>2 DEF Fits
<1> QED
  BY <1>1, <1>2, <1>3 DEF Tiles

\* It is the only one more.
LEMMA SplitDomain ==
  ASSUME NEW f, NEW o, NEW name, NEW ino
  PROVE  DOMAIN Split(f, o, name, ino) = DOMAIN f \cup {o + Used(f[o].name)}
  BY DEF Split

\* It holds the entry asked for.
LEMMA SplitAt ==
  ASSUME NEW f, NEW o, NEW name, NEW ino
  PROVE  /\ Split(f, o, name, ino)[o + Used(f[o].name)].ino = ino
         /\ Split(f, o, name, ino)[o + Used(f[o].name)].name = name
  BY DEF Split

\* The others hold what they held.
LEMMA SplitRest ==
  ASSUME NEW f, Tiles(f), NEW o \in DOMAIN f, NEW name \in Names,
         NEW ino \in Nat \ {0}, Fits(f[o], name)
  PROVE  \A p \in DOMAIN f : /\ Split(f, o, name, ino)[p].ino = f[p].ino
                            /\ Split(f, o, name, ino)[p].name = f[p].name
<1>1. o + Used(f[o].name) \notin DOMAIN f /\ f[o] \in Record
  BY SplitNew, NextRecord
<1> QED
  BY <1>1 DEF Split, Record

\* It adds the one entry, and every other entry stays.
LEMMA SplitEntries ==
  ASSUME NEW f, Tiles(f), NEW o \in DOMAIN f, NEW name \in Names,
         NEW ino \in Nat \ {0}, Fits(f[o], name)
  PROVE  Entries(Split(f, o, name, ino)) = Entries(f) \cup {[ino |-> ino, name |-> name]}
<1> DEFINE n == o + Used(f[o].name)
           g == Split(f, o, name, ino)
<1>1. n \notin DOMAIN f
  BY SplitNew
<1>2. DOMAIN g = DOMAIN f \cup {n}
  BY SplitDomain
<1>3. g[n].ino = ino /\ g[n].name = name
  BY SplitAt
<1>4. \A p \in DOMAIN f : g[p].ino = f[p].ino /\ g[p].name = f[p].name
  BY SplitRest
<1> HIDE DEF g, n
<1>5. Entries(g) = Entries(f) \cup {[ino |-> ino, name |-> name]}
  BY <1>1, <1>2, <1>3, <1>4 DEF Entries
<1> QED
  BY <1>5 DEF g

-----------------------------------------------------------------------------
(***************************************************************************)
(* The inductive invariant.  Dismissed is what the walk knows of a record  *)
(* it has stepped over; Walked says it has stepped over everything that    *)
(* lies before it.                                                         *)
(***************************************************************************)
Dismissed(r) == /\ op.kind = "find" => ~Matches(r, op.name)
                /\ op.kind = "add"  => ~Fits(r, op.name)

Walked ==
  /\ pc # "idle" =>
       \A b \in Blks : b < blk => \A o \in DOMAIN block[b] : Dismissed(block[b][o])
  /\ pc = "scan" => \A o \in DOMAIN block[blk] : o < off => Dismissed(block[blk][o])

\* What the last walk returned.
Answered ==
  pc = "idle" /\ device = "good" =>
    /\ op.kind = "find" =>
         \/ [ino |-> result, name |-> op.name] \in Listed
         \/ result = 0 /\ \A b \in Blks : \A o \in DOMAIN block[b] :
                            Dismissed(block[b][o])
    /\ op.kind = "add" /\ result = 0 =>
         \A b \in Blks : \A o \in DOMAIN block[b] : Dismissed(block[b][o])

OpOK == /\ op.kind = "add" => op.ino \in Nat \ {0}
        /\ pc # "idle" => result = 0

DInv == TypeOK /\ OpOK /\ Tiling /\ OnRecord /\ Walked /\ Answered

\* Where the walk stands when it is not at the end of a block.
LEMMA AtRecord ==
  ASSUME DInv, pc = "scan", ~AtEnd
  PROVE  /\ blk \in Blks /\ Tiles(block[blk]) /\ off \in DOMAIN block[blk]
         /\ Here = block[blk][off] /\ Here \in Record /\ off \in Nat
         /\ op.name \in Names
<1>1. blk \in Blks /\ Tiles(block[blk]) /\ op.name \in Names
  BY DEF DInv, TypeOK, Tiling
<1>2. off \in Nat /\ off + 2 < W /\ off \in DOMAIN block[blk] \cup {W}
  BY DEF DInv, TypeOK, OnRecord, AtEnd
<1>3. off \in DOMAIN block[blk]
  BY <1>2, DirConstants
<1> QED
  BY <1>1, <1>2, <1>3, NextRecord DEF Here

\* At the end of a block nothing is left to look at: a record that starts
\* in the last two words holds no name and has no room for one.
LEMMA BlockOver ==
  ASSUME DInv, pc = "scan", AtEnd
  PROVE  \A o \in DOMAIN block[blk] : Dismissed(block[blk][o])
<1>1. blk \in Blks /\ Tiles(block[blk]) /\ op.name \in Names /\ off \in Nat
  BY DEF DInv, TypeOK, Tiling
<1>2. off + 2 >= W
  <2> SUFFICES ASSUME off + 2 < W PROVE FALSE
    BY <1>1, DirConstants
  <2>1. off \in DOMAIN block[blk]
    BY <1>1, DirConstants DEF DInv, OnRecord
  <2> QED
    BY <1>1, <2>1, NextRecord DEF AtEnd, Here
<1> SUFFICES ASSUME NEW o \in DOMAIN block[blk] PROVE Dismissed(block[blk][o])
  OBVIOUS
<1> DEFINE r == block[blk][o]
<1>3. o \in Nat /\ r \in Record /\ o + r.rec <= W
  BY <1>1, NextRecord
<1>4. CASE o < off
  BY <1>4 DEF DInv, Walked
<1>5. CASE o >= off
  <2>1. r.rec <= 2 /\ r.rec \in Nat
    BY <1>1, <1>2, <1>3, <1>5, DirConstants DEF Record
  <2>2. r.rec >= Used(r.name) /\ (r.ino # 0 => r.name # NoName)
    BY <1>1 DEF Tiles
  <2>3. r.name \in Names \cup {NoName}
    BY <1>3 DEF Record
  <2>4. Used(r.name) >= 2 /\ Used(r.name) \in Nat /\ (r.name \in Names => Used(r.name) >= 3)
    BY <2>3, UsedFacts
  <2>5. r.name \notin Names /\ r.ino = 0
    BY <2>1, <2>2, <2>3, <2>4
  <2>6. Used(op.name) \in Nat /\ Used(op.name) >= 3
    BY <1>1, UsedFacts
  <2>7. ~Fits(r, op.name)
    BY <2>1, <2>4, <2>6 DEF Fits
  <2> QED
    BY <2>5, <2>7 DEF Dismissed, Matches
<1> QED
  BY <1>1, <1>3, <1>4, <1>5

\* The steps that leave the directory alone.
LEMMA BlocksKept ==
  ASSUME DInv, UNCHANGED block PROVE Tiling' /\ Listed' = Listed
  BY DEF DInv, Tiling, Listed

\* A directory whose records tile its blocks satisfies the invariant.
LEMMA DirInit == Init => DInv
<1> SUFFICES ASSUME Init PROVE DInv
  OBVIOUS
<1>1. TypeOK
  <2>1. op \in [kind : {"none", "find", "add", "list"}, name : Names \cup {NoName},
                ino : Nat]
    BY DEF Init
  <2>2. /\ DOMAIN block = Blks /\ pc = "idle" /\ blk = 1 /\ off = 0 /\ result = 0
        /\ device = "good"
    BY DirImage DEF Init
  <2> QED
    BY <2>1, <2>2 DEF TypeOK
<1>2. OpOK /\ Tiling
  BY DirImage DEF Init, OpOK, Tiling
<1>3. OnRecord /\ Walked /\ Answered
  BY DEF Init, OnRecord, Walked, Answered
<1> QED
  BY <1>1, <1>2, <1>3 DEF DInv

\* The start of a walk.
LEMMA CallStep ==
  ASSUME DInv, NEW kind \in {"find", "add", "list"}, NEW name \in Names, NEW ino \in Inos,
         Call(kind, name, ino)
  PROVE  DInv'
<1>1. /\ pc' = "read" /\ op' = [kind |-> kind, name |-> name, ino |-> ino]
      /\ blk' = 1 /\ off' = 0 /\ result' = 0 /\ device' = "good" /\ block' = block
  BY DEF Call
<1>2. ino \in Nat \ {0}
  BY DirConstants
<1>3. TypeOK' /\ OpOK'
  <2>1. op' \in [kind : {"none", "find", "add", "list"}, name : Names \cup {NoName},
                 ino : Nat]
    BY <1>1, <1>2
  <2>2. op'.kind # "none" /\ op'.name \in Names /\ op'.ino \in Nat \ {0}
    BY <1>1, <1>2
  <2>3. DOMAIN block' = Blks
    BY <1>1 DEF DInv, TypeOK
  <2> QED
    BY <1>1, <2>1, <2>2, <2>3 DEF TypeOK, OpOK
<1>4. Walked'
  BY <1>1 DEF Walked, Blks
<1>5. OnRecord' /\ Answered'
  BY <1>1 DEF OnRecord, Answered
<1> QED
  BY <1>1, <1>3, <1>4, <1>5, BlocksKept DEF DInv

\* A walk that is over and has not changed the directory.
LEMMA ReturnStep ==
  ASSUME DInv, pc # "idle", NEW r \in Nat, NEW served \in {"good", "failed"},
         Return(r, served), block' = block,
         served = "good" =>
           /\ op.kind = "find" =>
                \/ [ino |-> r, name |-> op.name] \in Listed
                \/ r = 0 /\ \A b \in Blks : \A o \in DOMAIN block[b] :
                              Dismissed(block[b][o])
           /\ op.kind = "add" /\ r = 0 =>
                \A b \in Blks : \A o \in DOMAIN block[b] :
                  Dismissed(block[b][o])
  PROVE  DInv'
<1>1. pc' = "idle" /\ result' = r /\ device' = served /\ UNCHANGED <<op, blk, off, block>>
  BY DEF Return
<1>2. TypeOK' /\ OpOK'
  BY <1>1 DEF DInv, TypeOK, OpOK
<1>3. Walked' /\ OnRecord'
  BY <1>1 DEF Walked, OnRecord
<1>4. Answered'
  BY <1>1, BlocksKept DEF Answered, Dismissed
<1> QED
  BY <1>1, <1>2, <1>3, <1>4, BlocksKept DEF DInv

\* From one block to the next, and the end of a walk that met nothing.
LEMMA ReadStep == ASSUME DInv, ReadBlock \/ NoMoreBlocks \/ NextBlock PROVE DInv'
<1>1. CASE ReadBlock
  <2>1. pc = "read" /\ blk \in Blks /\ block' = block
    BY <1>1 DEF ReadBlock, DInv, TypeOK, Blks
  <2>2. CASE Return(0, "failed")
    BY <2>1, <2>2, ReturnStep
  <2>3. CASE /\ pc' = "scan" /\ off' = 0
             /\ UNCHANGED <<op, blk, out, outPos, result, device, calls>>
    <3>1. TypeOK' /\ OpOK'
      BY <2>1, <2>3 DEF DInv, TypeOK, OpOK
    <3>2. Tiles(block[blk])
      BY <2>1 DEF DInv, Tiling
    <3>3. OnRecord' /\ Answered'
      BY <2>1, <2>3, <3>2 DEF OnRecord, Answered, Tiles
    <3>4. Walked'
      BY <2>1, <2>3, <3>2 DEF DInv, Walked, Dismissed, Tiles, Offsets
    <3> QED
      BY <2>1, <3>1, <3>3, <3>4, BlocksKept DEF DInv
  <2> QED
    BY <1>1, <2>2, <2>3 DEF ReadBlock
<1>2. CASE NoMoreBlocks
  <2>1. pc = "read" /\ ~(blk <= NB) /\ block' = block /\ blk \in Nat
    BY <1>2, DirConstants DEF NoMoreBlocks, DInv, TypeOK
  <2>2. \A b \in Blks : \A o \in DOMAIN block[b] : Dismissed(block[b][o])
    BY <2>1, DirConstants DEF DInv, Walked, Blks
  <2>3. Return(IF op.kind = "list" THEN 1 ELSE 0, "good")
    BY <1>2 DEF NoMoreBlocks
  <2>4. CASE op.kind = "list"
    <3>1. Return(1, "good")
      BY <2>3, <2>4
    <3> QED
      BY <2>1, <2>4, <3>1, ReturnStep
  <2>5. CASE op.kind # "list"
    <3>1. Return(0, "good")
      BY <2>3, <2>5
    <3> QED
      BY <2>1, <2>2, <3>1, ReturnStep
  <2> QED
    BY <2>4, <2>5
<1>3. CASE NextBlock
  <2>1. /\ pc = "scan" /\ AtEnd /\ pc' = "read" /\ blk' = blk + 1
        /\ UNCHANGED <<block, op, off, out, outPos, result, device, calls>>
        /\ blk \in Blks /\ blk \in Nat
    BY <1>3 DEF NextBlock, DInv, TypeOK
  <2>2. TypeOK' /\ OpOK' /\ OnRecord' /\ Answered'
    BY <2>1 DEF DInv, TypeOK, OpOK, OnRecord, Answered
  <2>3. \A b \in Blks : b < blk + 1 => \A o \in DOMAIN block[b] : Dismissed(block[b][o])
    <3> SUFFICES ASSUME NEW b \in Blks, b < blk + 1
                 PROVE  \A o \in DOMAIN block[b] : Dismissed(block[b][o])
      OBVIOUS
    <3>1. b < blk \/ b = blk
      BY <2>1 DEF Blks
    <3> QED
      BY <2>1, <3>1, BlockOver DEF DInv, Walked
  <2>4. Walked'
    BY <2>1, <2>3 DEF Walked, Dismissed
  <2> QED
    BY <2>1, <2>2, <2>4, BlocksKept DEF DInv
<1> QED
  BY <1>1, <1>2, <1>3

\* A lookup that finds its name, a listing whose buffer is full.
LEMMA FoundStep == ASSUME DInv, Found \/ Cut PROVE DInv'
<1>1. CASE Found
  <2>1. /\ pc = "scan" /\ ~AtEnd /\ op.kind = "find" /\ Matches(Here, op.name)
        /\ Return(Here.ino, "good") /\ block' = block
    BY <1>1 DEF Found
  <2>2. /\ blk \in Blks /\ off \in DOMAIN block[blk] /\ Here = block[blk][off]
        /\ Here.ino \in Nat
    BY <2>1, AtRecord DEF Record
  <2>3. [ino |-> Here.ino, name |-> op.name] \in Entries(block[blk])
    BY <2>1, <2>2 DEF Entries, Matches
  <2>4. [ino |-> Here.ino, name |-> op.name] \in Listed
    BY <2>2, <2>3 DEF Listed
  <2> HIDE DEF Here
  <2> QED
    BY <2>1, <2>2, <2>4, ReturnStep
<1>2. CASE Cut
  BY <1>2, ReturnStep DEF Cut
<1> QED
  BY <1>1, <1>2

\* The step from a record that is of no use to the next one.
LEMMA AdvanceStep == ASSUME DInv, Advance PROVE DInv'
<1>1. /\ pc = "scan" /\ ~AtEnd /\ off' = off + Here.rec
      /\ UNCHANGED <<block, pc, op, blk, result, device, calls>>
      /\ op.kind = "find" => ~Matches(Here, op.name)
      /\ op.kind = "add"  => ~Fits(Here, op.name)
  BY DEF Advance
<1>2. /\ blk \in Blks /\ Tiles(block[blk]) /\ off \in DOMAIN block[blk]
      /\ Here = block[blk][off] /\ off \in Nat /\ Here.rec \in Nat
  BY <1>1, AtRecord DEF Record
<1>3. /\ off + Here.rec \in DOMAIN block[blk] \cup {W}
      /\ \A p \in DOMAIN block[blk] : p < off + Here.rec => p <= off
  BY <1>2, NextRecord
<1>4. Dismissed(Here)
  BY <1>1 DEF Dismissed
<1>5. \A o \in DOMAIN block[blk] : o < off + Here.rec => Dismissed(block[blk][o])
  <2> SUFFICES ASSUME NEW o \in DOMAIN block[blk], o < off + Here.rec
               PROVE  Dismissed(block[blk][o])
    OBVIOUS
  <2>1. o < off \/ o = off
    BY <1>2, <1>3 DEF Tiles, Offsets
  <2> QED
    BY <1>1, <1>2, <1>4, <2>1 DEF DInv, Walked
<1> HIDE DEF Here
<1>6. TypeOK' /\ OpOK'
  BY <1>1, <1>2 DEF DInv, TypeOK, OpOK
<1>7. OnRecord' /\ Answered'
  BY <1>1, <1>3 DEF OnRecord, Answered
<1>8. Walked'
  BY <1>1, <1>5 DEF DInv, Walked, Dismissed
<1> QED
  BY <1>1, <1>6, <1>7, <1>8, BlocksKept DEF DInv

\* What an addition does to the blocks, if it reaches the disk.
LEMMA AddedBlocks ==
  ASSUME DInv, Added,
         block' = [block EXCEPT ![blk] = Split(@, off, op.name, op.ino)]
  PROVE  /\ Tiling' /\ DOMAIN block' = Blks
         /\ Listed' = Listed \cup {[ino |-> op.ino, name |-> op.name]}
<1>1. pc = "scan" /\ ~AtEnd /\ op.kind = "add" /\ Fits(Here, op.name)
  BY DEF Added
<1>2. /\ blk \in Blks /\ Tiles(block[blk]) /\ off \in DOMAIN block[blk]
      /\ Here = block[blk][off] /\ op.name \in Names /\ op.ino \in Nat \ {0}
  BY <1>1, AtRecord DEF DInv, OpOK
<1> DEFINE f == Split(block[blk], off, op.name, op.ino)
           e == [ino |-> op.ino, name |-> op.name]
<1>3. Tiles(f) /\ Entries(f) = Entries(block[blk]) \cup {e}
  BY <1>1, <1>2, SplitTiles, SplitEntries
<1> HIDE DEF f, e
<1>4. /\ DOMAIN block' = Blks /\ block'[blk] = f
      /\ \A b \in Blks \ {blk} : block'[b] = block[b]
  BY <1>2 DEF DInv, TypeOK, f
<1>5. Tiling'
  BY <1>3, <1>4 DEF DInv, Tiling
<1>6. Listed' = Listed \cup {e}
  BY <1>2, <1>3, <1>4 DEF Listed
<1> QED
  BY <1>4, <1>5, <1>6 DEF e

\* The addition, whether its block write is reported as done or not.
LEMMA AddedStep == ASSUME DInv, Added PROVE DInv'
<1> DEFINE new == [block EXCEPT ![blk] = Split(@, off, op.name, op.ino)]
<1>1. pc = "scan" /\ op.kind = "add"
  BY DEF Added
<1>2. \/ block' = new /\ Return(1, "good")
      \/ block' \in {block, new} /\ Return(0, "failed")
  BY DEF Added
<1>3. CASE block' = block
  <2>1. CASE Return(0, "failed")
    BY <1>1, <1>3, <2>1, ReturnStep
  <2>2. CASE Return(1, "good")
    BY <1>1, <1>3, <2>2, ReturnStep
  <2> QED
    BY <1>2, <2>1, <2>2
<1>4. CASE block' = new
  <2>1. Tiling' /\ DOMAIN block' = Blks
    BY <1>4, AddedBlocks
  <2>2. /\ pc' = "idle" /\ result' \in {0, 1} /\ (device' = "failed" \/ (device' = "good" /\ result' = 1))
        /\ UNCHANGED <<op, blk, off>>
    BY <1>2 DEF Return
  <2>3. TypeOK'
    BY <2>1, <2>2 DEF DInv, TypeOK
  <2>4. OpOK' /\ OnRecord' /\ Walked' /\ Answered'
    BY <1>1, <2>1, <2>2 DEF DInv, OpOK, OnRecord, Walked, Answered
  <2> QED
    BY <2>1, <2>3, <2>4 DEF DInv
<1> QED
  BY <1>2, <1>3, <1>4

\* Every step keeps the invariant.
LEMMA DirStep == DInv /\ [Next]_vars => DInv'
<1> SUFFICES ASSUME DInv, [Next]_vars PROVE DInv'
  OBVIOUS
<1>1. CASE UNCHANGED vars
  BY <1>1 DEF vars, DInv, TypeOK, OpOK, Tiling, OnRecord, Walked, Answered, Dismissed, Listed
<1>2. CASE Next
  BY <1>2, CallStep, ReadStep, FoundStep, AdvanceStep, AddedStep DEF Next
<1> QED
  BY <1>1, <1>2

\* The inductive invariant holds in every state.
THEOREM DirInductive == Spec => []DInv
  BY DirInit, DirStep, PTL DEF Spec

(***************************************************************************)
(* Tiling and OnRecord of Ext4Dir.tla: additions keep the records of a     *)
(* block following one another to its end, and no walk of the driver takes *)
(* other bytes for a record.                                               *)
(***************************************************************************)
THEOREM RecordsTile == Spec => [](Tiling /\ OnRecord)
<1>1. DInv => Tiling /\ OnRecord
  BY DEF DInv
<1> QED
  BY <1>1, DirInductive, PTL

(***************************************************************************)
(* FindCorrect of Ext4Dir.tla: unless a read fails, ext4_find_in_dir finds *)
(* a name exactly when some record of the directory holds it.              *)
(***************************************************************************)
THEOREM LookupCorrect == Spec => []FindCorrect
<1>1. DInv => FindCorrect
  <2> SUFFICES ASSUME DInv, FindDone PROVE FindCorrect
    BY DEF FindCorrect
  <2>1. CASE [ino |-> result, name |-> op.name] \in Listed
    BY <2>1 DEF FindCorrect
  <2>2. CASE result = 0 /\ \A b \in Blks : \A o \in DOMAIN block[b] : Dismissed(block[b][o])
    <3>1. Absent(op.name)
      BY <2>2 DEF FindDone, Absent, Listed, Entries, Dismissed, Matches
    <3> QED
      BY <2>2, <3>1 DEF FindCorrect
  <2> QED
    BY <2>1, <2>2 DEF DInv, Answered, FindDone
<1> QED
  BY <1>1, DirInductive, PTL

(***************************************************************************)
(* AddGivesUpLate of Ext4Dir.tla: ext4_add_dir_entry reports a full        *)
(* directory only when no record of it has room for the entry.             *)
(***************************************************************************)
THEOREM FullMeansFull == Spec => []AddGivesUpLate
<1>1. DInv => AddGivesUpLate
  BY DEF DInv, AddGivesUpLate, Answered, Dismissed
<1> QED
  BY <1>1, DirInductive, PTL

(***************************************************************************)
(* AddCorrect of Ext4Dir.tla: an addition adds the entry it was asked for, *)
(* and nothing the walks do adds, drops or changes another one.            *)
(***************************************************************************)
THEOREM AdditionCorrect == Spec => AddCorrect
<1> DEFINE e == [ino |-> op.ino, name |-> op.name]
           A == /\ Listed \subseteq Listed'
                /\ Listed' \subseteq Listed \cup {e}
                /\ (op.kind = "add" /\ result' = 1) => e \in Listed'
<1>1. ASSUME DInv, Added PROVE A
  <2>1. CASE block' = [block EXCEPT ![blk] = Split(@, off, op.name, op.ino)]
    BY <1>1, <2>1, AddedBlocks
  <2>2. CASE block' = block /\ Return(0, "failed")
    <3>1. result' = 0
      BY <2>2 DEF Return
    <3> QED
      BY <1>1, <2>2, <3>1, BlocksKept
  <2> QED
    BY <1>1, <2>1, <2>2 DEF Added
<1>2. ASSUME DInv, Next, ~Added PROVE A
  <2>1. block' = block /\ (op.kind = "add" => result' # 1)
    BY <1>2 DEF Next, Call, ReadBlock, NoMoreBlocks, NextBlock, Found, Cut, Advance, Return,
                DInv, OpOK
  <2> QED
    BY <1>2, <2>1, BlocksKept
<1>3. DInv /\ [Next]_vars => [A]_vars
  BY <1>1, <1>2
<1> QED
  BY <1>3, DirInductive, PTL DEF Spec, AddCorrect

-----------------------------------------------------------------------------
(***************************************************************************)
(* Listings.  A walk has listed exactly the visible records that it has    *)
(* passed; that it has listed each name once rests on the directory naming *)
(* nothing twice, and that on an addition being asked for only when the    *)
(* name is absent.                                                         *)
(***************************************************************************)
Passed(b, o) == b < blk \/ (pc = "scan" /\ b = blk /\ o < off)

Fresh == pc # "idle" /\ op.kind = "add" => Absent(op.name)

Listing ==
  pc # "idle" /\ op.kind = "list" =>
    /\ out \in Seq(Names) /\ outPos \in Nat /\ outPos < MaxSize
    /\ \A k \in 1 .. Len(out) : \E b \in Blks : \E o \in DOMAIN block[b] :
         Passed(b, o) /\ Shown(block[b][o]) /\ block[b][o].name = out[k]
    /\ \A b \in Blks : \A o \in DOMAIN block[b] :
         Passed(b, o) /\ Shown(block[b][o]) =>
           \E k \in 1 .. Len(out) : out[k] = block[b][o].name
    /\ \A j, k \in 1 .. Len(out) : out[j] = out[k] => j = k

LInv == NamedOnce(block) /\ Fresh /\ Listing /\ ListRight

\* A record that holds something is an entry of the directory.
LEMMA RecordListed ==
  ASSUME NEW b \in Blks, NEW o \in DOMAIN block[b], block[b][o].ino # 0
  PROVE  [ino |-> block[b][o].ino, name |-> block[b][o].name] \in Listed
  BY DEF Listed, Entries

\* An addition of an absent name keeps every name in one record.
LEMMA OnceStep ==
  ASSUME DInv, LInv, Added PROVE NamedOnce(block)'
<1>1. CASE block' = block
  BY <1>1 DEF LInv, NamedOnce
<1>2. CASE block' = [block EXCEPT ![blk] = Split(@, off, op.name, op.ino)]
  <2>1. /\ blk \in Blks /\ Tiles(block[blk]) /\ off \in DOMAIN block[blk]
        /\ Fits(block[blk][off], op.name) /\ op.name \in Names /\ op.ino \in Nat \ {0}
    BY AtRecord DEF Added, DInv, OpOK
  <2>2. \A b \in Blks : \A o \in DOMAIN block[b] :
          block[b][o].ino # 0 => block[b][o].name # op.name
    <3>1. Absent(op.name)
      BY DEF LInv, Fresh, Added
    <3>2. ASSUME NEW b \in Blks, NEW o \in DOMAIN block[b], block[b][o].ino # 0
          PROVE  block[b][o].name # op.name
      BY <3>1, <3>2, RecordListed DEF Absent
    <3> QED
      BY <3>2
  <2> DEFINE n == off + Used(block[blk][off].name)
             g == Split(block[blk], off, op.name, op.ino)
  <2>3. /\ n \notin DOMAIN block[blk] /\ DOMAIN g = DOMAIN block[blk] \cup {n}
        /\ g[n].ino = op.ino /\ g[n].name = op.name
        /\ \A p \in DOMAIN block[blk] : /\ g[p].ino = block[blk][p].ino
                                       /\ g[p].name = block[blk][p].name
    <3>1. n \notin DOMAIN block[blk]
      BY <2>1, SplitNew
    <3>2. DOMAIN g = DOMAIN block[blk] \cup {n}
      BY SplitDomain
    <3>3. g[n].ino = op.ino /\ g[n].name = op.name
      BY SplitAt
    <3>4. \A p \in DOMAIN block[blk] : /\ g[p].ino = block[blk][p].ino
                                      /\ g[p].name = block[blk][p].name
      BY <2>1, SplitRest
    <3> QED
      BY <3>1, <3>2, <3>3, <3>4
  <2> HIDE DEF g, n
  <2>4. /\ block'[blk] = g
        /\ \A b \in Blks \ {blk} : block'[b] = block[b]
    BY <1>2, <2>1 DEF DInv, TypeOK, g
  <2>5. ASSUME NEW b \in Blks, NEW o \in DOMAIN block'[b], block'[b][o].ino # 0
        PROVE  \/ b = blk /\ o = n /\ block'[b][o].name = op.name
               \/ /\ o \in DOMAIN block[b] /\ block[b][o].ino # 0
                  /\ block'[b][o].name = block[b][o].name
    BY <2>3, <2>4, <2>5
  <2> SUFFICES ASSUME NEW b \in Blks, NEW c \in Blks,
                      NEW o \in DOMAIN block'[b], NEW p \in DOMAIN block'[c],
                      block'[b][o].ino # 0, block'[c][p].ino # 0,
                      block'[b][o].name = block'[c][p].name
               PROVE  b = c /\ o = p
    BY DEF NamedOnce
  <2>6. NamedOnce(block)
    BY DEF LInv
  <2> QED
    BY <2>2, <2>5, <2>6 DEF NamedOnce
<1> QED
  BY <1>1, <1>2 DEF Added

\* In the last two words of a block no record holds anything.
LEMMA TailEmpty ==
  ASSUME DInv, pc = "scan", AtEnd, NEW o \in DOMAIN block[blk], ~(o < off)
  PROVE  block[blk][o].ino = 0
<1> DEFINE r == block[blk][o]
<1>1. blk \in Blks /\ Tiles(block[blk]) /\ off \in Nat
  BY DEF DInv, TypeOK, Tiling
<1>2. off + 2 >= W
  <2> SUFFICES ASSUME off + 2 < W PROVE FALSE
    BY <1>1, DirConstants
  <2>1. off \in DOMAIN block[blk]
    BY <1>1, DirConstants DEF DInv, OnRecord
  <2> QED
    BY <1>1, <2>1, NextRecord DEF AtEnd, Here
<1>3. o \in Nat /\ r \in Record /\ o + r.rec <= W
  BY <1>1, NextRecord
<1>4. r.rec <= 2 /\ r.rec \in Nat
  BY <1>1, <1>2, <1>3, DirConstants DEF Record
<1>5. r.rec >= Used(r.name) /\ (r.ino # 0 => r.name # NoName)
  BY <1>1 DEF Tiles
<1>6. r.name \in Names \cup {NoName}
  BY <1>3 DEF Record
<1>7. Used(r.name) \in Nat /\ (r.name \in Names => Used(r.name) >= 3)
  BY <1>6, UsedFacts
<1> QED
  BY <1>4, <1>5, <1>6, <1>7
Visible  == {e.name : e \in Listed} \ Hidden
OutNames == {out[k] : k \in 1 .. Len(out)}

\* A name is visible exactly if some record shows it.
LEMMA VisibleIs ==
  /\ \A b \in Blks : \A o \in DOMAIN block[b] :
       Shown(block[b][o]) => block[b][o].name \in Visible
  /\ \A m \in Visible : \E b \in Blks : \E o \in DOMAIN block[b] :
       Shown(block[b][o]) /\ block[b][o].name = m
<1>1. ASSUME NEW b \in Blks, NEW o \in DOMAIN block[b], Shown(block[b][o])
      PROVE  block[b][o].name \in Visible
  <2>1. [ino |-> block[b][o].ino, name |-> block[b][o].name] \in Listed
    BY <1>1, RecordListed DEF Shown
  <2> QED
    BY <1>1, <2>1 DEF Visible, Shown
<1>2. ASSUME NEW m \in Visible
      PROVE  \E b \in Blks : \E o \in DOMAIN block[b] :
               Shown(block[b][o]) /\ block[b][o].name = m
  <2>1. PICK e \in Listed : e.name = m /\ m \notin Hidden
    BY DEF Visible
  <2>2. PICK b \in Blks : e \in Entries(block[b])
    BY DEF Listed
  <2>3. PICK o \in DOMAIN block[b] :
          /\ block[b][o].ino # 0
          /\ e = [ino |-> block[b][o].ino, name |-> block[b][o].name]
    BY <2>2 DEF Entries
  <2>4. block[b][o].name = m
    BY <2>1, <2>3
  <2> QED
    BY <2>1, <2>3, <2>4 DEF Shown
<1> QED
  BY <1>1, <1>2

\* What is listed is visible.
LEMMA OutVisible ==
  ASSUME Listing, pc # "idle", op.kind = "list" PROVE OutNames \subseteq Visible
<1> SUFFICES ASSUME NEW k \in 1 .. Len(out) PROVE out[k] \in Visible
  BY DEF OutNames
<1>1. PICK b, o :
        b \in Blks /\ o \in DOMAIN block[b] /\ Shown(block[b][o]) /\ block[b][o].name = out[k]
  BY DEF Listing
<1> QED
  BY <1>1, VisibleIs

\* What a listing claims, once the names it is about are known.
LEMMA ClaimNext ==
  ASSUME Listed' = Listed, UNCHANGED <<out, outPos>>,
         pc' = "idle" /\ op'.kind = "list" /\ result' = 1 =>
           /\ OutNames \subseteq Visible /\ outPos < MaxSize
           /\ \A j, k \in 1 .. Len(out) : out[j] = out[k] => j = k
           /\ Visible # OutNames =>
                \E m \in Visible \ OutNames : outPos + Len4[m] + 2 >= MaxSize
  PROVE  ListRight'
<1>1. {e.name : e \in Listed'} \ Hidden = Visible
  BY DEF Visible
<1>2. {out'[k] : k \in 1 .. Len(out')} = OutNames
  BY DEF OutNames
<1> QED
  BY <1>1, <1>2 DEF ListRight

\* A walk that returns with nothing more to claim than the directory's names.
LEMMA ReturnLists ==
  ASSUME LInv, block' = block, NEW r, NEW served, Return(r, served),
         op.kind = "list" /\ r = 1 =>
           /\ OutNames \subseteq Visible /\ outPos < MaxSize
           /\ \A j, k \in 1 .. Len(out) : out[j] = out[k] => j = k
           /\ Visible # OutNames =>
                \E m \in Visible \ OutNames : outPos + Len4[m] + 2 >= MaxSize
  PROVE  LInv'
<1>1. pc' = "idle" /\ result' = r /\ op' = op /\ out' = out /\ outPos' = outPos
  BY DEF Return
<1>2. NamedOnce(block)'
  BY DEF LInv, NamedOnce
<1>3. Fresh' /\ Listing'
  BY <1>1 DEF Fresh, Listing
<1>4. Listed' = Listed
  BY DEF Listed
<1>5. ListRight'
  BY <1>1, <1>4, ClaimNext
<1> QED
  BY <1>2, <1>3, <1>5 DEF LInv

\* A step of the walk that passes no visible record.
LEMMA PassNothing ==
  ASSUME LInv, UNCHANGED <<block, op, out, outPos>>, pc # "idle", pc' # "idle",
         \A b \in Blks : \A o \in DOMAIN block[b] :
           /\ Passed(b, o) => Passed(b, o)'
           /\ Passed(b, o)' /\ Shown(block[b][o]) => Passed(b, o)
  PROVE  LInv'
<1>1. NamedOnce(block)' /\ Listed' = Listed
  BY DEF LInv, NamedOnce, Listed
<1>2. Fresh'
  BY <1>1 DEF LInv, Fresh, Absent
<1>3. Listing'
  <2> SUFFICES ASSUME op.kind = "list" PROVE Listing'
    BY DEF Listing
  <2>1. Listing
    BY DEF LInv
  <2>2. \A k \in 1 .. Len(out) : \E b \in Blks : \E o \in DOMAIN block[b] :
          Passed(b, o)' /\ Shown(block[b][o]) /\ block[b][o].name = out[k]
    BY <2>1 DEF Listing
  <2>3. \A b \in Blks : \A o \in DOMAIN block[b] :
          Passed(b, o)' /\ Shown(block[b][o]) =>
            \E k \in 1 .. Len(out) : out[k] = block[b][o].name
    BY <2>1 DEF Listing
  <2>4. /\ out \in Seq(Names) /\ outPos \in Nat /\ outPos < MaxSize
        /\ \A j, k \in 1 .. Len(out) : out[j] = out[k] => j = k
    BY <2>1 DEF Listing
  <2> QED
    BY <2>2, <2>3, <2>4 DEF Listing, Shown
<1>4. ListRight'
  BY DEF ListRight
<1> QED
  BY <1>1, <1>2, <1>3, <1>4 DEF LInv

\* The beginning: the image names nothing twice.
LEMMA ListInit == Init => LInv
<1> SUFFICES ASSUME Init PROVE LInv
  OBVIOUS
<1>1. block = Image /\ pc = "idle" /\ op.kind = "none"
  BY DEF Init
<1> QED
  BY <1>1, DirNames DEF LInv, Fresh, Listing, ListRight

\* The start of a walk, with nothing passed and nothing listed.
LEMMA ListCall ==
  ASSUME DInv, LInv, NEW kind \in {"find", "add", "list"}, NEW name \in Names, NEW ino \in Inos,
         Call(kind, name, ino)
  PROVE  LInv'
<1>1. /\ pc' = "read" /\ op' = [kind |-> kind, name |-> name, ino |-> ino]
      /\ blk' = 1 /\ out' = <<>> /\ outPos' = 0 /\ block' = block
      /\ kind = "add" => Absent(name)
  BY DEF Call
<1>2. NamedOnce(block)' /\ Listed' = Listed
  BY <1>1 DEF LInv, NamedOnce, Listed
<1>3. Fresh'
  BY <1>1, <1>2 DEF Fresh, Absent
<1>4. \A b \in Blks : \A o : ~Passed(b, o)'
  BY <1>1 DEF Passed, Blks
<1>5. Len(out') = 0 /\ out' \in Seq(Names)
  BY <1>1
<1>6. Listing'
  BY <1>1, <1>4, <1>5, DirConstants DEF Listing
<1>7. ListRight'
  BY <1>1 DEF ListRight
<1> QED
  BY <1>2, <1>3, <1>6, <1>7 DEF LInv

\* From one block to the next, and the end of a listing that met no full buffer.
LEMMA ListRead == ASSUME DInv, LInv, ReadBlock \/ NoMoreBlocks \/ NextBlock PROVE LInv'
<1>1. CASE ReadBlock
  <2>1. pc = "read" /\ blk \in Blks /\ block' = block
    BY <1>1 DEF ReadBlock, DInv, TypeOK, Blks
  <2>2. CASE Return(0, "failed")
    BY <2>1, <2>2, ReturnLists
  <2>3. CASE /\ pc' = "scan" /\ off' = 0
             /\ UNCHANGED <<op, blk, out, outPos, result, device, calls>>
    <3>1. ASSUME NEW b \in Blks, NEW o \in DOMAIN block[b]
          PROVE  Passed(b, o)' <=> Passed(b, o)
      <4>1. o \in Nat
        BY NextRecord DEF DInv, Tiling
      <4> QED
        BY <2>1, <2>3, <4>1 DEF Passed
    <3> QED
      BY <2>1, <2>3, <3>1, PassNothing
  <2> QED
    BY <1>1, <2>2, <2>3 DEF ReadBlock
<1>2. CASE NoMoreBlocks
  <2>1. pc = "read" /\ ~(blk <= NB) /\ block' = block /\ blk \in Nat
    BY <1>2, DirConstants DEF NoMoreBlocks, DInv, TypeOK
  <2>2. CASE op.kind = "list"
    <3>1. Return(1, "good")
      BY <1>2, <2>2 DEF NoMoreBlocks
    <3>2. Listing
      BY DEF LInv
    <3>3. /\ outPos < MaxSize /\ OutNames \subseteq Visible
          /\ \A j, k \in 1 .. Len(out) : out[j] = out[k] => j = k
      BY <2>1, <2>2, <3>2, OutVisible DEF Listing
    <3>4. ASSUME NEW m \in Visible PROVE m \in OutNames
      <4>1. PICK b, o :
              b \in Blks /\ o \in DOMAIN block[b] /\ Shown(block[b][o]) /\ block[b][o].name = m
        BY VisibleIs
      <4>2. Passed(b, o)
        BY <2>1, <4>1, DirConstants DEF Passed, Blks
      <4>3. \E k \in 1 .. Len(out) : out[k] = block[b][o].name
        BY <2>1, <2>2, <3>2, <4>1, <4>2 DEF Listing
      <4> QED
        BY <4>1, <4>3 DEF OutNames
    <3>5. Visible = OutNames
      BY <3>3, <3>4
    <3> QED
      BY <2>1, <3>1, <3>3, <3>5, ReturnLists
  <2>3. CASE op.kind # "list"
    <3>1. Return(0, "good")
      BY <1>2, <2>3 DEF NoMoreBlocks
    <3> QED
      BY <2>1, <3>1, ReturnLists
  <2> QED
    BY <2>2, <2>3
<1>3. CASE NextBlock
  <2>1. /\ pc = "scan" /\ AtEnd /\ pc' = "read" /\ blk' = blk + 1
        /\ UNCHANGED <<block, op, off, out, outPos, result, device, calls>>
        /\ blk \in Blks /\ blk \in Nat
    BY <1>3 DEF NextBlock, DInv, TypeOK
  <2>2. ASSUME NEW b \in Blks, NEW o \in DOMAIN block[b]
        PROVE  /\ Passed(b, o) => Passed(b, o)'
               /\ Passed(b, o)' /\ Shown(block[b][o]) => Passed(b, o)
    <3>1. Passed(b, o)' <=> b < blk \/ b = blk
      BY <2>1 DEF Passed, Blks
    <3>2. b = blk /\ ~(o < off) => block[b][o].ino = 0
      BY <2>1, TailEmpty
    <3> QED
      BY <2>1, <3>1, <3>2 DEF Passed, Shown
  <2> QED
    BY <2>1, <2>2, PassNothing
<1> QED
  BY <1>1, <1>2, <1>3

\* A listing that stops at a full buffer misses the record it is at.
LEMMA ListCut == ASSUME DInv, LInv, Found \/ Cut PROVE LInv'
<1>1. CASE Found
  <2>1. Return(Here.ino, "good") /\ op.kind = "find" /\ block' = block
    BY <1>1 DEF Found
  <2> QED
    BY <2>1, ReturnLists
<1>2. CASE Cut
  <2>1. /\ pc = "scan" /\ ~AtEnd /\ op.kind = "list" /\ Shown(Here) /\ Full(Here)
        /\ Return(1, "good") /\ block' = block
    BY <1>2 DEF Cut
  <2>2. blk \in Blks /\ off \in DOMAIN block[blk] /\ Here = block[blk][off] /\ off \in Nat
    BY <2>1, AtRecord
  <2>3. Listing /\ NamedOnce(block)
    BY DEF LInv
  <2>4. Here.name \in Visible
    BY <2>1, <2>2, VisibleIs
  <2>5. Here.name \notin OutNames
    <3> SUFFICES ASSUME NEW k \in 1 .. Len(out), out[k] = Here.name PROVE FALSE
      BY DEF OutNames
    <3>1. PICK b, o :
            /\ b \in Blks /\ o \in DOMAIN block[b] /\ Passed(b, o) /\ Shown(block[b][o])
            /\ block[b][o].name = Here.name
      BY <2>1, <2>3 DEF Listing
    <3>2. b = blk /\ o = off
      BY <2>1, <2>2, <2>3, <3>1 DEF NamedOnce, Shown
    <3> QED
      BY <2>2, <3>1, <3>2 DEF Passed, Blks
  <2>6. outPos + Len4[Here.name] + 2 >= MaxSize
    BY <2>1 DEF Full
  <2>7. /\ outPos < MaxSize /\ OutNames \subseteq Visible
        /\ \A j, k \in 1 .. Len(out) : out[j] = out[k] => j = k
    BY <2>1, <2>3, OutVisible DEF Listing
  <2> HIDE DEF Here
  <2> QED
    BY <2>1, <2>4, <2>5, <2>6, <2>7, ReturnLists
<1> QED
  BY <1>1, <1>2

\* The step over a record passes this one and no other.
LEMMA PassedMore ==
  ASSUME DInv, Advance, NEW b \in Blks, NEW o \in DOMAIN block[b]
  PROVE  Passed(b, o)' <=> Passed(b, o) \/ (b = blk /\ o = off)
<1>1. pc = "scan" /\ pc' = "scan" /\ ~AtEnd /\ off' = off + Here.rec /\ blk' = blk
  BY DEF Advance
<1>2. /\ blk \in Blks /\ Tiles(block[blk]) /\ off \in DOMAIN block[blk]
      /\ Here = block[blk][off] /\ off \in Nat /\ Here.rec \in Nat
  BY <1>1, AtRecord DEF Record
<1>3. /\ \A p \in DOMAIN block[blk] : p < off + Here.rec => p <= off
      /\ Here.rec >= 2
  BY <1>2, NextRecord
<1>4. o \in Nat
  BY NextRecord DEF DInv, Tiling
<1> HIDE DEF Here
<1>5. b = blk => (o < off + Here.rec <=> o < off \/ o = off)
  BY <1>2, <1>3, <1>4
<1> QED
  BY <1>1, <1>2, <1>5 DEF Passed, Blks

\* The step over a visible record lists its name, for the first time.
LEMMA ListAdvance == ASSUME DInv, LInv, Advance PROVE LInv'
<1>1. /\ pc = "scan" /\ pc' = "scan" /\ ~AtEnd
      /\ UNCHANGED <<block, op, blk>>
  BY DEF Advance
<1>2. CASE ~(op.kind = "list" /\ Shown(Here))
  <2>1. UNCHANGED <<out, outPos>>
    BY <1>2 DEF Advance
  <2>2. CASE op.kind = "list"
    <3>1. blk \in Blks /\ off \in DOMAIN block[blk] /\ Here = block[blk][off]
      BY <1>1, AtRecord
    <3>2. ~Shown(block[blk][off])
      BY <1>2, <2>2, <3>1
    <3> QED
      BY <1>1, <2>1, <3>2, PassedMore, PassNothing
  <2>3. CASE op.kind # "list"
    <3>1. NamedOnce(block)' /\ Listed' = Listed
      BY <1>1 DEF LInv, NamedOnce, Listed
    <3>2. Fresh'
      BY <1>1, <3>1 DEF LInv, Fresh, Absent
    <3>3. Listing' /\ ListRight'
      BY <1>1, <2>3 DEF Listing, ListRight
    <3> QED
      BY <3>1, <3>2, <3>3 DEF LInv
  <2> QED
    BY <2>2, <2>3
<1>3. CASE op.kind = "list" /\ Shown(Here)
  <2>1. /\ ~Full(Here) /\ out' = Append(out, Here.name)
        /\ outPos' = outPos + Len4[Here.name] + 1
    BY <1>3 DEF Advance
  <2>2. /\ blk \in Blks /\ Tiles(block[blk]) /\ off \in DOMAIN block[blk]
        /\ Here = block[blk][off] /\ Here \in Record /\ off \in Nat
    BY <1>1, AtRecord
  <2>3. Here.name \in Names
    BY <1>3, <2>2 DEF Shown, Record, Tiles
  <2>4. /\ NamedOnce(block) /\ Listing /\ out \in Seq(Names) /\ Len(out) \in Nat
        /\ outPos \in Nat /\ outPos < MaxSize
    <3>1. NamedOnce(block) /\ Listing
      BY DEF LInv
    <3>2. out \in Seq(Names) /\ outPos \in Nat /\ outPos < MaxSize
      BY <1>1, <1>3, <3>1 DEF Listing
    <3> QED
      BY <3>1, <3>2
  <2>5. /\ out' \in Seq(Names) /\ Len(out') = Len(out) + 1
        /\ out'[Len(out) + 1] = Here.name
        /\ \A k \in 1 .. Len(out) : out'[k] = out[k]
    BY <2>1, <2>3, <2>4
  <2>6. outPos' \in Nat /\ outPos' < MaxSize
    <3>1. Len4[Here.name] \in Nat
      BY <2>3, DirConstants
    <3>2. ~(outPos + Len4[Here.name] + 2 >= MaxSize)
      BY <2>1 DEF Full
    <3> QED
      BY <2>1, <2>4, <3>1, <3>2, DirConstants
  <2>7. ASSUME NEW k \in 1 .. Len(out)
        PROVE  out[k] # Here.name
    <3>1. PICK b, o :
            /\ b \in Blks /\ o \in DOMAIN block[b] /\ Passed(b, o) /\ Shown(block[b][o])
            /\ block[b][o].name = out[k]
      BY <1>1, <1>3, <2>4 DEF Listing
    <3> SUFFICES ASSUME out[k] = Here.name PROVE FALSE
      OBVIOUS
    <3>2. b = blk /\ o = off
      BY <1>3, <2>2, <2>4, <3>1 DEF NamedOnce, Shown
    <3> QED
      BY <2>2, <3>1, <3>2 DEF Passed, Blks
  <2>8. \A k \in 1 .. Len(out') : k \in 1 .. Len(out) \/ k = Len(out) + 1
    BY <2>4, <2>5
  <2>9. ASSUME NEW k \in 1 .. Len(out')
        PROVE  \E b \in Blks : \E o \in DOMAIN block[b] :
                 Passed(b, o)' /\ Shown(block[b][o]) /\ block[b][o].name = out'[k]
    <3>1. CASE k \in 1 .. Len(out)
      <4>1. PICK b, o :
              /\ b \in Blks /\ o \in DOMAIN block[b] /\ Passed(b, o) /\ Shown(block[b][o])
              /\ block[b][o].name = out[k]
        BY <1>1, <1>3, <2>4, <3>1 DEF Listing
      <4>2. Passed(b, o)'
        BY <4>1, PassedMore
      <4> QED
        BY <2>5, <3>1, <4>1, <4>2
    <3>2. CASE k = Len(out) + 1
      <4>1. PICK b, o : b = blk /\ o = off
        OBVIOUS
      <4>2. b \in Blks /\ o \in DOMAIN block[b]
        BY <2>2, <4>1
      <4>3. Passed(b, o)'
        BY <4>1, <4>2, PassedMore
      <4> QED
        BY <1>3, <2>2, <2>5, <3>2, <4>1, <4>2, <4>3
    <3> QED
      BY <2>8, <3>1, <3>2
  <2>10. ASSUME NEW b \in Blks, NEW o \in DOMAIN block[b], Passed(b, o)', Shown(block[b][o])
         PROVE  \E k \in 1 .. Len(out') : out'[k] = block[b][o].name
    <3>1. CASE Passed(b, o)
      <4>1. PICK k \in 1 .. Len(out) : out[k] = block[b][o].name
        BY <1>1, <1>3, <2>4, <2>10, <3>1 DEF Listing
      <4> QED
        BY <2>4, <2>5, <4>1
    <3>2. CASE b = blk /\ o = off
      <4>1. Len(out) + 1 \in 1 .. Len(out')
        BY <2>4, <2>5
      <4> QED
        BY <2>2, <2>5, <3>2, <4>1
    <3> QED
      BY <2>10, <3>1, <3>2, PassedMore
  <2>11. ASSUME NEW j \in 1 .. Len(out'), NEW k \in 1 .. Len(out'), out'[j] = out'[k]
         PROVE  j = k
    <3>1. \A p, q \in 1 .. Len(out) : out[p] = out[q] => p = q
      BY <1>1, <1>3, <2>4 DEF Listing
    <3> HIDE DEF Here
    <3> QED
      BY <2>5, <2>7, <2>8, <2>11, <3>1
  <2>12. NamedOnce(block)' /\ Fresh'
    BY <1>1, <1>3, <2>4 DEF NamedOnce, Fresh
  <2>13. ListRight'
    BY <1>1 DEF ListRight
  <2>14. Listing'
    <3>1. \A k \in 1 .. Len(out') : \E b \in Blks : \E o \in DOMAIN block'[b] :
            Passed(b, o)' /\ Shown(block'[b][o]) /\ block'[b][o].name = out'[k]
      BY <1>1, <2>9
    <3>2. \A b \in Blks : \A o \in DOMAIN block'[b] :
            Passed(b, o)' /\ Shown(block'[b][o]) =>
              \E k \in 1 .. Len(out') : out'[k] = block'[b][o].name
      BY <1>1, <2>10
    <3> QED
      BY <2>5, <2>6, <2>11, <3>1, <3>2 DEF Listing, Shown
  <2> QED
    BY <2>12, <2>13, <2>14 DEF LInv
<1> QED
  BY <1>2, <1>3

\* An addition ends the walk, and lists nothing.
LEMMA ListAdded == ASSUME DInv, LInv, Added PROVE LInv'
<1>1. pc' = "idle" /\ op' = op /\ op.kind = "add"
  BY DEF Added, Return
<1> QED
  BY <1>1, OnceStep DEF LInv, Fresh, Listing, ListRight

\* Every step keeps it.
LEMMA ListStep == DInv /\ LInv /\ [Next]_vars => LInv'
<1> SUFFICES ASSUME DInv, LInv, [Next]_vars PROVE LInv'
  OBVIOUS
<1>1. CASE UNCHANGED vars
  <2>1. UNCHANGED <<block, pc, op, blk, off, out, outPos, result>>
    BY <1>1 DEF vars
  <2>2. Listed' = Listed /\ NamedOnce(block)'
    BY <2>1 DEF Listed, LInv, NamedOnce
  <2>3. Fresh'
    BY <2>1, <2>2 DEF LInv, Fresh, Absent
  <2>4. ListRight'
    <3>1. pc = "idle" /\ op.kind = "list" /\ result = 1 =>
            /\ OutNames \subseteq Visible /\ outPos < MaxSize
            /\ \A j, k \in 1 .. Len(out) : out[j] = out[k] => j = k
            /\ Visible # OutNames =>
                 \E m \in Visible \ OutNames : outPos + Len4[m] + 2 >= MaxSize
      BY DEF LInv, ListRight, Visible, OutNames
    <3> QED
      BY <2>1, <2>2, <3>1, ClaimNext
  <2>5. CASE pc = "idle"
    BY <2>1, <2>2, <2>3, <2>4, <2>5 DEF LInv, Listing
  <2>6. CASE pc # "idle"
    <3>1. ASSUME NEW b \in Blks, NEW o \in DOMAIN block[b]
          PROVE  Passed(b, o)' <=> Passed(b, o)
      BY <2>1 DEF Passed
    <3> QED
      BY <2>1, <2>6, <3>1, PassNothing
  <2> QED
    BY <2>5, <2>6
<1>2. CASE Next
  BY <1>2, ListCall, ListRead, ListCut, ListAdvance, ListAdded DEF Next
<1> QED
  BY <1>1, <1>2

(***************************************************************************)
(* ListRight of Ext4Dir.tla: what ext4_list_dir reports as shown is in the *)
(* directory, not hidden, shown once and within the buffer, and a name is  *)
(* missing only if the buffer had no room for one that is missing.         *)
(***************************************************************************)
THEOREM ListingRight == Spec => []ListRight
<1>1. LInv => ListRight
  BY DEF LInv
<1> QED
  BY <1>1, DirInductive, ListInit, ListStep, PTL DEF Spec
=============================================================================
