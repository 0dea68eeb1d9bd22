--------------------------- MODULE Rtl8139_proof ---------------------------
(***************************************************************************)
(* Rtl8139: types, the agreement of the two read pointers, what the ROK    *)
(* bit means, and that card and driver implement FrameQueue, for every     *)
(* ring and all sizes of frames.                                           *)
(***************************************************************************)
EXTENDS Rtl8139, Integers, TLAPS

Holding(b) == IF b THEN 1 ELSE 0

\* Every frame handed over was accepted, and beside them there is a frame
\* for each of the promises that are out: a frame written and not announced,
\* the bit that is set, the acknowledgement that a poll has not spent.
Promises ==
  Waiting >= Holding(raising = "yes") + rok + Holding(pc \in {"header", "copy"})

\* The frame that a poll copies is one that was accepted.
Headers ==
  /\ \A o \in Ring : mem[o] \in 0 .. Len(size)
  /\ pc \in {"copy", "capr"} => cur \in 1 .. Len(size)
  /\ pc = "ack" => rok = 1

\* The inductive invariant.
Inv == TypeOK /\ Promises /\ Headers /\ PointersAgree

-----------------------------------------------------------------------------
(* Arithmetic of the pointers.                                             *)

\* The ring fits into the register.
LEMMA RingFits == 4 * R <= 65536
<1>1. R \in Nat \ {0} /\ 65536 % (4 * R) = 0
  BY RingConstants
<1>2. 4 * R \in Nat \ {0}
  BY <1>1
<1>3. ASSUME NEW d \in Nat, d > 65536 PROVE 65536 % d = 65536
  BY <1>3
<1>4. SUFFICES ASSUME 4 * R > 65536 PROVE FALSE
  BY <1>2
<1>5. 65536 % (4 * R) = 65536
  BY <1>2, <1>3, <1>4
<1>. QED  BY <1>1, <1>5

\* The 16 bytes that are subtracted and added again, modulo 2^16.
LEMMA BiasUndone ==
  ASSUME NEW a \in Nat, a < 65536, NEW x, x = (65536 + a - 16) % 65536
  PROVE  x \in Nat /\ x < 65536 /\ (x + 16) % 65536 = a
<1>1. CASE a >= 16
  <2>1. x = a - 16
    BY <1>1
  <2>. QED  BY <1>1, <2>1
<1>2. CASE a < 16
  <2>1. x = 65520 + a
    BY <1>2
  <2>2. x + 16 = 65536 + a /\ (65536 + a) % 65536 = a
    BY <1>2, <2>1
  <2>. QED  BY <1>2, <2>1, <2>2
<1>. QED  BY <1>1, <1>2

\* What the driver writes to CAPR is what the card reads it back as.
LEMMA CaprBias ==
  ASSUME NEW o \in Ring
  PROVE  LET x == (65536 + 4 * o - 16) % 65536
         IN  x \in Nat /\ x < 65536 /\ (((x + 16) % 65536) \div 4) % R = o
<1>1. R \in Nat \ {0} /\ o \in 0 .. (R - 1) /\ 4 * o < 65536
  BY RingFits, RingConstants DEF Ring
<1>2. o % R = o /\ (4 * o) \div 4 = o
  BY <1>1
<1>. DEFINE x == (65536 + 4 * o - 16) % 65536
<1>3. x \in Nat /\ x < 65536 /\ (x + 16) % 65536 = 4 * o
  <2>. DEFINE a == 4 * o
  <2>1. a \in Nat /\ a < 65536 /\ x = (65536 + a - 16) % 65536
    BY <1>1
  <2>. HIDE DEF a, x
  <2>2. x \in Nat /\ x < 65536 /\ (x + 16) % 65536 = a
    BY <2>1, BiasUndone
  <2>. QED  BY <2>2 DEF a
<1>. HIDE DEF x
<1>4. (((x + 16) % 65536) \div 4) % R = o
  BY <1>2, <1>3
<1>. QED  BY <1>3, <1>4 DEF x

\* An offset that a frame has moved stays in the ring.
LEMMA NextInRing ==
  ASSUME NEW o \in Ring, NEW s \in Sizes
  PROVE  NextRx(o + s) \in Ring /\ (o + s) % R \in Ring
BY RingConstants DEF NextRx, Ring

-----------------------------------------------------------------------------
(* The invariant holds at the start and is kept.                           *)

LEMMA RingInit == Init => Inv
<1>. SUFFICES ASSUME Init PROVE Inv
  OBVIOUS
<1>1. 0 \in Ring /\ Len(size) = 0 /\ Len(out) = 0
  BY RingConstants DEF Init, Ring
<1>2. ReadPtr = rx
  <2>1. (65536 + 4 * 0 - 16) % 65536 = 65520
    OBVIOUS
  <2>. QED  BY <1>1, <2>1, CaprBias DEF Init, ReadPtr
<1>3. TypeOK
  BY <1>1 DEF Init, TypeOK
<1>4. Promises /\ Headers
  BY <1>1 DEF Init, Promises, Headers, Waiting, Holding
<1>. QED  BY <1>2, <1>3, <1>4 DEF Inv, PointersAgree

\* The card writes a frame.
LEMMA AcceptStep ==
  ASSUME Inv, NEW s \in Sizes, Accept(s)
  PROVE  Inv'
<1>1. /\ raising = "no" /\ raising' = "yes" /\ size' = Append(size, s) /\ wr' = (wr + s) % R
      /\ UNCHANGED <<rok, capr, rx, pc, cur, out>>
      /\ wr \in Ring /\ size \in Seq(Sizes) /\ mem \in [Ring -> Nat]
  BY DEF Accept, Inv, TypeOK
<1>2. Len(size) \in Nat /\ Len(size') = Len(size) + 1 /\ size' \in Seq(Sizes)
  BY <1>1
<1>3. \A o \in Ring : mem'[o] \in 0 .. Len(size')
  <2>. SUFFICES ASSUME NEW o \in Ring PROVE mem'[o] \in 0 .. Len(size')
    OBVIOUS
  <2>1. mem'[o] \in {Len(size) + 1, 0, mem[o]}
    BY DEF Accept
  <2>2. mem[o] \in 0 .. Len(size)
    BY DEF Inv, Headers
  <2>. QED  BY <1>2, <2>1, <2>2
<1>4. mem' \in [Ring -> Nat] /\ wr' \in Ring
  <2>1. mem' \in [Ring -> Nat]
    BY <1>1, <1>2 DEF Accept
  <2>. QED  BY <1>1, <2>1, NextInRing
<1>5. out \in Seq(0 .. Len(size'))
  BY <1>2 DEF Inv, TypeOK
<1>6. TypeOK'
  BY <1>1, <1>2, <1>4, <1>5 DEF Inv, TypeOK
<1>7. Promises'
  <2>1. Len(out) \in Nat
    BY DEF Inv, TypeOK
  <2>. QED  BY <1>1, <1>2, <2>1 DEF Inv, TypeOK, Promises, Waiting, Holding
<1>8. Headers' /\ PointersAgree'
  BY <1>1, <1>2, <1>3 DEF Inv, Headers, PointersAgree, ReadPtr
<1>. QED  BY <1>6, <1>7, <1>8 DEF Inv

\* The bit is set.
LEMMA RaiseStep == Inv /\ Raise => Inv'
<1>. SUFFICES ASSUME Inv, Raise PROVE Inv'
  OBVIOUS
<1>1. TypeOK'
  BY DEF Raise, Inv, TypeOK
<1>2. Promises'
  <2>1. Waiting' = Waiting /\ Waiting \in Int
    BY DEF Raise, Waiting, Inv, TypeOK
  <2>. QED  BY <2>1 DEF Raise, Inv, TypeOK, Promises, Holding
<1>3. Headers' /\ PointersAgree'
  BY DEF Raise, Inv, Headers, PointersAgree, ReadPtr
<1>. QED  BY <1>1, <1>2, <1>3 DEF Inv

\* The accesses of a poll before it copies.
LEMMA PollStep == Inv /\ (PollIsr \/ Ack \/ ReadHeader) => Inv'
<1>. SUFFICES ASSUME Inv, PollIsr \/ Ack \/ ReadHeader PROVE Inv'
  OBVIOUS
<1>0. Waiting' = Waiting /\ Waiting \in Int
  <2>1. Len(size) \in Nat /\ Len(out) \in Nat
    BY DEF Inv, TypeOK
  <2>2. UNCHANGED <<size, out>>
    BY DEF PollIsr, Ack, ReadHeader
  <2>. QED  BY <2>1, <2>2 DEF Waiting
<1>1. CASE PollIsr
  <2>1. TypeOK' /\ Headers' /\ PointersAgree'
    BY <1>1 DEF PollIsr, Inv, TypeOK, Headers, PointersAgree, ReadPtr
  <2>2. Promises'
    BY <1>0, <1>1 DEF PollIsr, Inv, TypeOK, Promises, Holding
  <2>. QED  BY <2>1, <2>2 DEF Inv
<1>2. CASE Ack
  <2>1. TypeOK' /\ Headers' /\ PointersAgree'
    BY <1>2 DEF Ack, Inv, TypeOK, Headers, PointersAgree, ReadPtr
  <2>2. Promises'
    BY <1>0, <1>2 DEF Ack, Inv, TypeOK, Headers, Promises, Holding
  <2>. QED  BY <2>1, <2>2 DEF Inv
<1>3. CASE ReadHeader
  <2>1. mem[rx] \in 0 .. Len(size)
    BY DEF Inv, TypeOK, Headers
  <2>2. TypeOK' /\ Headers' /\ PointersAgree'
    BY <1>3, <2>1 DEF ReadHeader, Inv, TypeOK, Headers, PointersAgree, ReadPtr
  <2>3. Promises'
    BY <1>0, <1>3 DEF ReadHeader, Inv, TypeOK, Promises, Holding
  <2>. QED  BY <2>2, <2>3 DEF Inv
<1>. QED  BY <1>1, <1>2, <1>3

\* The frame is handed over.
LEMMA CopyStep == Inv /\ Copy => Inv'
<1>. SUFFICES ASSUME Inv, Copy PROVE Inv'
  OBVIOUS
<1>1. PICK f \in 0 .. Len(size) : out' = Append(out, f)
  <2>1. cur \in 0 .. Len(size) /\ Len(size) \in Nat
    BY DEF Inv, TypeOK
  <2>. QED  BY <2>1 DEF Copy
<1>2. out \in Seq(0 .. Len(size)) /\ Len(out) \in Nat /\ Len(out') = Len(out) + 1
      /\ out' \in Seq(0 .. Len(size))
  BY <1>1 DEF Inv, TypeOK
<1>3. TypeOK' /\ Headers' /\ PointersAgree'
  BY <1>2 DEF Copy, Inv, TypeOK, Headers, PointersAgree, ReadPtr
<1>4. Promises'
  <2>1. Waiting' = Waiting - 1 /\ Waiting \in Int
    BY <1>2 DEF Copy, Waiting, Inv, TypeOK
  <2>. QED  BY <2>1 DEF Copy, Inv, TypeOK, Promises, Holding
<1>. QED  BY <1>3, <1>4 DEF Inv

\* The pointers move on.
LEMMA AdvanceStep == Inv /\ Advance => Inv'
<1>. SUFFICES ASSUME Inv, Advance PROVE Inv'
  OBVIOUS
<1>1. size[cur] \in Sizes /\ rx \in Ring
  BY DEF Advance, Inv, TypeOK, Headers
<1>2. rx' \in Ring
  BY <1>1, NextInRing DEF Advance
<1>3. /\ capr' \in Nat /\ capr' < 65536
      /\ (((capr' + 16) % 65536) \div 4) % R = rx'
  BY <1>2, CaprBias DEF Advance
<1>4. TypeOK' /\ Headers'
  BY <1>2, <1>3 DEF Advance, Inv, TypeOK, Headers
<1>5. PointersAgree'
  BY <1>3 DEF PointersAgree, ReadPtr
<1>6. Promises'
  <2>1. Waiting' = Waiting /\ Waiting \in Int
    BY DEF Advance, Waiting, Inv, TypeOK
  <2>. QED  BY <2>1 DEF Advance, Inv, TypeOK, Promises, Holding
<1>. QED  BY <1>4, <1>5, <1>6 DEF Inv

LEMMA RingStep == Inv /\ [Next]_vars => Inv'
<1>. SUFFICES ASSUME Inv, [Next]_vars PROVE Inv'
  OBVIOUS
<1>1. CASE Driver
  BY <1>1, PollStep, CopyStep, AdvanceStep DEF Driver
<1>2. CASE Raise
  BY <1>2, RaiseStep
<1>3. CASE \E s \in Sizes : Accept(s)
  BY <1>3, AcceptStep
<1>4. CASE UNCHANGED vars
  BY <1>4 DEF vars, Inv, TypeOK, Promises, Waiting, Headers, PointersAgree, ReadPtr
<1>. QED  BY <1>1, <1>2, <1>3, <1>4 DEF Next

LEMMA Inductive == Spec => []Inv
<1>. QED  BY RingInit, RingStep, PTL DEF Spec

-----------------------------------------------------------------------------
(* The results.                                                            *)

\* Types: the pointers stay in the ring, and frames are handed over that
\* were accepted.
THEOREM TypeCorrect == Spec => []TypeOK
<1>1. Inv => TypeOK
  BY DEF Inv
<1>. QED  BY <1>1, Inductive, PTL

\* Card and driver agree how far the ring is read, whatever its size.
THEOREM PointersCorrect == Spec => []PointersAgree
<1>1. Inv => PointersAgree
  BY DEF Inv
<1>. QED  BY <1>1, Inductive, PTL

\* A poll that finds ROK set has a frame to read, however frames arrived.
THEOREM RokCorrect == Spec => []RokMeansFrame
<1>1. Inv => RokMeansFrame
  BY DEF Inv, TypeOK, Promises, RokMeansFrame, Holding, Waiting
<1>. QED  BY <1>1, Inductive, PTL
-----------------------------------------------------------------------------
(***************************************************************************)
(* The queue.  What the card has written and the driver has not read lies  *)
(* in the ring from rx on, frame behind frame: at[k] is where frame k is,  *)
(* counted on beyond the end of the ring.  It never fills the ring, so a   *)
(* frame that is accepted leaves the headers of those that wait alone;     *)
(* other headers are stale and the promises keep the driver from them.     *)
(***************************************************************************)
First == IF pc = "capr" THEN Len(out) ELSE Len(out) + 1

Placed(at) ==
  /\ at[First] = rx /\ at[Len(size) + 1] < rx + R /\ wr = NextRx(at[Len(size) + 1])
  /\ \A k \in First .. Len(size) : at[k + 1] = at[k] + size[k] /\ mem[NextRx(at[k])] = k
  /\ \A j, k \in First .. Len(size) + 1 : j <= k => at[j] <= at[k]

Window == \E at \in [First .. Len(size) + 1 -> Nat] : Placed(at)

InOrder ==
  /\ \A k \in 1 .. Len(out) : out[k] = k
  /\ pc \in {"copy", "capr"} => cur = First

QInv == Inv /\ ReadPtr = rx /\ Window /\ InOrder

\* A frame takes a word at least, and leaves one of the ring free.
LEMMA SizeIs ==
  ASSUME NEW s \in Sizes
  PROVE  s \in 1 .. (R - 1)
BY RingConstants

\* Wrapping a position once is taking it modulo the ring.
LEMMA Wrap ==
  ASSUME NEW x \in Nat, x < 2 * R
  PROVE  x % R = NextRx(x) /\ NextRx(x) \in Ring
<1>1. R \in Nat \ {0}
  BY RingConstants
<1>2. CASE x < R
  BY <1>1, <1>2 DEF NextRx, Ring
<1>3. CASE x >= R
  <2>. DEFINE y == x - R
  <2>1. y \in 0 .. (R - 1) /\ x = y + R
    BY <1>1, <1>3
  <2>2. x % R = y
    BY <1>1, <2>1
  <2>. QED  BY <1>1, <1>3, <2>1, <2>2 DEF NextRx, Ring
<1>. QED  BY <1>1, <1>2, <1>3

\* The frames that wait, and those handed over.
LEMMA Counted ==
  ASSUME Inv, InOrder
  PROVE  /\ Len(size) \in Nat /\ Len(out) \in Nat /\ Len(out) <= Len(size)
         /\ First \in 1 .. Len(size) + 1
         /\ pc \in {"header", "copy", "capr"} => First <= Len(size)
<1>1. Len(size) \in Nat /\ Len(out) \in Nat
  BY DEF Inv, TypeOK
<1>2. Waiting >= 0 /\ (pc \in {"header", "copy"} => Waiting >= 1) /\ rok \in {0, 1}
  BY <1>1 DEF Inv, TypeOK, Promises, Holding, Waiting
<1>3. pc = "capr" => Len(out) \in 1 .. Len(size)
  BY DEF InOrder, First, Inv, Headers
<1>. QED  BY <1>1, <1>2, <1>3 DEF Waiting, First

\* A frame that is accepted fits behind those that wait.
LEMMA RoomIs ==
  ASSUME NEW r \in Ring, ReadPtr = r, NEW b \in Nat, r <= b, b < r + R, wr = NextRx(b),
         NEW s \in Sizes, Room(s)
  PROVE  b + s < r + R
<1>1. R \in Nat \ {0} /\ s \in 1 .. (R - 1) /\ r \in 0 .. (R - 1)
  BY RingConstants DEF Ring
<1>. DEFINE x == (R + r) - wr
<1>2. (R + r - wr) % R = x % R
  BY <1>1 DEF NextRx
<1>3. CASE b < R
  <2>1. x = (R + r) - b /\ x \in Nat /\ x < 2 * R
    BY <1>1, <1>3 DEF NextRx
  <2>2. x % R = NextRx(x)
    BY <2>1, Wrap
  <2>. HIDE DEF x
  <2>. QED  BY <1>1, <1>2, <2>1, <2>2 DEF Room, NextRx
<1>4. CASE b >= R
  <2>1. x = (R + R + r) - b /\ x \in Nat /\ x < 2 * R
    BY <1>1, <1>4 DEF NextRx
  <2>2. x % R = NextRx(x)
    BY <2>1, Wrap
  <2>. HIDE DEF x
  <2>. QED  BY <1>1, <1>2, <1>4, <2>1, <2>2 DEF Room, NextRx
<1>. QED  BY <1>1, <1>3, <1>4

LEMMA QueueInit == Init => QInv
<1>. SUFFICES ASSUME Init PROVE QInv
  OBVIOUS
<1>1. Inv /\ Len(size) = 0 /\ Len(out) = 0 /\ pc = "isr" /\ rx = 0 /\ wr = 0 /\ First = 1
  BY RingInit DEF Init, First
<1>2. ReadPtr = rx
  BY <1>1 DEF Inv, PointersAgree
<1>3. Window
  <2>. DEFINE at == [k \in 1 .. 1 |-> 0]
  <2>1. at \in [First .. Len(size) + 1 -> Nat] /\ at[1] = 0
    BY <1>1
  <2>. HIDE DEF at
  <2>2. Placed(at)
    BY <1>1, <2>1, RingConstants DEF Placed, NextRx
  <2>. QED  BY <2>1, <2>2 DEF Window
<1>4. InOrder
  BY <1>1 DEF InOrder
<1>. QED  BY <1>1, <1>2, <1>3, <1>4 DEF QInv

\* The card writes a frame behind those that wait.
LEMMA QueueAccept ==
  ASSUME QInv, NEW s \in Sizes, Accept(s)
  PROVE  QInv'
<1>1. /\ raising = "no" /\ Room(s) /\ size' = Append(size, s) /\ wr' = (wr + s) % R
      /\ UNCHANGED <<rok, capr, rx, pc, cur, out>>
      /\ wr \in Ring /\ size \in Seq(Sizes) /\ mem \in [Ring -> Nat] /\ rx \in Ring
  BY DEF Accept, QInv, Inv, TypeOK
<1>2. /\ Len(size) \in Nat /\ Len(size') = Len(size) + 1 /\ size'[Len(size) + 1] = s
      /\ \A k \in 1 .. Len(size) : size'[k] = size[k] /\ size[k] \in Sizes
  BY <1>1
<1>3. First' = First /\ First \in 1 .. Len(size) + 1
  BY <1>1, Counted DEF First, QInv
<1>. DEFINE n == Len(size) + 1
<1>4. PICK at \in [First .. n -> Nat] : Placed(at)
  BY DEF QInv, Window
<1>. DEFINE b == at[n]
<1>5. /\ n \in First .. n /\ First \in First .. n /\ n \in Nat /\ First \in Nat
      /\ b \in Nat /\ at[First] = rx /\ rx <= b /\ b < rx + R /\ wr = NextRx(b)
  BY <1>2, <1>3, <1>4 DEF Placed
<1>6. R \in Nat \ {0} /\ s \in 1 .. (R - 1) /\ rx \in 0 .. (R - 1)
  BY <1>1, RingConstants DEF Ring
<1>7. b + s < rx + R
  BY <1>1, <1>5, RoomIs DEF QInv
<1>8. PICK new : new = [k \in First .. n + 1 |-> IF k <= n THEN at[k] ELSE b + s]
  OBVIOUS
<1>9. /\ new \in [First .. n + 1 -> Nat] /\ new[n + 1] = b + s
      /\ \A k \in First .. n : new[k] = at[k]
  BY <1>5, <1>6, <1>8
<1>. HIDE DEF b
<1>10. wr' = NextRx(b + s)
  <2>1. CASE b < R
    <3>1. wr = b /\ b + s \in Nat /\ b + s < 2 * R
      BY <1>5, <1>6, <1>7, <2>1 DEF NextRx
    <3>. QED  BY <1>1, <3>1, Wrap
  <2>2. CASE b >= R
    <3>1. wr = b - R /\ wr + s \in Nat /\ wr + s < R
      BY <1>5, <1>6, <1>7, <2>2 DEF NextRx
    <3>2. (wr + s) % R = NextRx(wr + s)
      BY <1>6, <3>1, Wrap
    <3>. QED  BY <1>1, <1>5, <1>6, <1>7, <2>2, <3>1, <3>2 DEF NextRx
  <2>. QED  BY <1>5, <1>6, <2>1, <2>2
<1>11. ASSUME NEW k \in First .. Len(size)
       PROVE  /\ new[k + 1] = new[k] + size'[k] /\ mem'[NextRx(new[k])] = k
  <2>0. /\ k \in First .. n /\ k + 1 \in First .. n /\ k \in 1 .. Len(size)
        /\ First <= k /\ k + 1 <= n
    BY <1>2, <1>3
  <2>1. /\ at[k + 1] = at[k] + size[k] /\ mem[NextRx(at[k])] = k
        /\ at[First] <= at[k] /\ at[k + 1] <= at[n] /\ at[k] \in Nat
        /\ size[k] \in 1 .. (R - 1) /\ size'[k] = size[k]
    <3>1. at[First] <= at[k] /\ at[k + 1] <= at[n]
      BY <1>4, <1>5, <2>0 DEF Placed
    <3>2. at[k + 1] = at[k] + size[k] /\ mem[NextRx(at[k])] = k
      BY <1>4 DEF Placed
    <3>3. size[k] \in 1 .. (R - 1) /\ size'[k] = size[k]
      BY <1>2, <2>0, SizeIs
    <3>. QED  BY <1>4, <2>0, <3>1, <3>2, <3>3
  <2>2. rx <= at[k] /\ at[k] < b
    BY <1>5, <1>6, <2>0, <2>1 DEF b
  <2>. DEFINE x == NextRx(at[k])
  <2>3. x \in Ring /\ x # wr /\ ~(x > wr /\ x < wr + s)
    <3>1. x = (IF at[k] >= R THEN at[k] - R ELSE at[k]) /\ at[k] \in Nat /\ at[k] < 2 * R
      BY <1>5, <1>6, <1>7, <2>1, <2>2 DEF NextRx
    <3>2. wr = (IF b >= R THEN b - R ELSE b)
      BY <1>5 DEF NextRx
    <3>. QED  BY <1>5, <1>6, <1>7, <2>2, <3>1, <3>2 DEF Ring
  <2>. HIDE DEF x
  <2>4. mem'[x] = mem[x]
    BY <2>3 DEF Accept
  <2>. QED  BY <1>9, <2>0, <2>1, <2>4 DEF x
<1>12. new[n + 1] = new[n] + size'[n] /\ mem'[NextRx(new[n])] = n
  <2>1. mem'[wr] = n
    BY <1>1 DEF Accept
  <2>. QED  BY <1>2, <1>5, <1>9, <2>1 DEF b
<1>13. ASSUME NEW j \in First .. n + 1, NEW k \in First .. n + 1, j <= k
       PROVE  new[j] <= new[k]
  <2>1. \A i \in First .. n : at[i] <= b /\ at[i] \in Nat
    BY <1>2, <1>3, <1>4, <1>5 DEF Placed, b
  <2>2. CASE k <= n
    BY <1>2, <1>3, <1>4, <1>5, <1>9, <1>13, <2>2 DEF Placed
  <2>3. CASE k = n + 1 /\ j <= n
    BY <1>5, <1>6, <1>9, <2>1, <2>3
  <2>4. CASE k = n + 1 /\ j = n + 1
    BY <1>5, <1>6, <1>9, <2>4
  <2>. QED  BY <1>5, <1>13, <2>2, <2>3, <2>4
<1>14. Placed(new)'
  <2>1. \A k \in First .. n :
          /\ new[k + 1] = new[k] + size'[k] /\ mem'[NextRx(new[k])] = k
    BY <1>2, <1>3, <1>11, <1>12
  <2>2. new[First] = rx /\ new[n + 1] < rx + R /\ wr' = NextRx(new[n + 1])
    BY <1>5, <1>7, <1>9, <1>10
  <2>3. Len(size') = n
    BY <1>2
  <2>. HIDE DEF n
  <2>. QED  BY <1>1, <1>3, <1>13, <2>1, <2>2, <2>3 DEF Placed
<1>15. Window'
  BY <1>2, <1>3, <1>9, <1>14 DEF Window
<1>16. Inv' /\ (ReadPtr = rx)' /\ InOrder'
  BY <1>1, <1>3, AcceptStep DEF QInv, ReadPtr, InOrder
<1>. QED  BY <1>15, <1>16 DEF QInv

\* The steps that move nothing in the ring; the header that is read is that
\* of the frame whose turn it is.
LEMMA HeaderIs ==
  ASSUME QInv, pc \in {"header", "copy"}
  PROVE  mem[rx] = First /\ First = Len(out) + 1 /\ First \in 1 .. Len(size)
<1>1. First \in 1 .. Len(size) /\ First = Len(out) + 1 /\ Len(size) \in Nat
  BY Counted DEF QInv, First
<1>2. rx \in Ring /\ NextRx(rx) = rx
  BY RingConstants DEF QInv, Inv, TypeOK, NextRx, Ring
<1>. QED  BY <1>1, <1>2 DEF QInv, Window, Placed

LEMMA QueueRest ==
  ASSUME QInv, Raise \/ PollIsr \/ Ack \/ ReadHeader \/ Copy
  PROVE  QInv'
<1>1. UNCHANGED <<wr, size, mem, capr, rx>>
  BY DEF Raise, PollIsr, Ack, ReadHeader, Copy
<1>2. Inv'
  BY RaiseStep, PollStep, CopyStep DEF QInv
<1>3. (ReadPtr = rx)'
  BY <1>1 DEF QInv, ReadPtr
<1>4. First' = First /\ InOrder'
  <2>1. CASE Raise \/ PollIsr \/ Ack
    BY <2>1 DEF Raise, PollIsr, Ack, First, QInv, InOrder
  <2>2. CASE ReadHeader
    <3>1. mem[rx] = First
      BY <2>2, HeaderIs DEF ReadHeader
    <3>. QED  BY <2>2, <3>1 DEF ReadHeader, First, QInv, InOrder
  <2>3. CASE Copy
    <3>1. mem[rx] = First /\ First = Len(out) + 1 /\ cur = First
      BY <2>3, HeaderIs DEF Copy, QInv, InOrder
    <3>2. out' = Append(out, First) /\ pc' = "capr" /\ cur' = cur
      BY <2>3, <3>1 DEF Copy
    <3>3. out \in Seq(0 .. Len(size)) /\ Len(out) \in Nat
      BY DEF QInv, Inv, TypeOK
    <3>4. Len(out') = Len(out) + 1 /\ out'[Len(out) + 1] = First
          /\ \A k \in 1 .. Len(out) : out'[k] = out[k]
      BY <3>2, <3>3
    <3>5. First' = First
      BY <3>1, <3>2, <3>4 DEF First
    <3>6. \A k \in 1 .. Len(out') : out'[k] = k
      <4>1. \A k \in 1 .. Len(out') : k \in 1 .. Len(out) \/ k = Len(out) + 1
        BY <3>3, <3>4
      <4>. QED  BY <3>1, <3>4, <4>1 DEF QInv, InOrder
    <3>. QED  BY <3>1, <3>2, <3>5, <3>6 DEF InOrder
  <2>. QED  BY <2>1, <2>2, <2>3
<1>5. Window'
  BY <1>1, <1>4 DEF QInv, Window, Placed
<1>. QED  BY <1>2, <1>3, <1>4, <1>5 DEF QInv

\* The pointers move on to the next frame.
LEMMA QueueAdvance ==
  ASSUME QInv, Advance
  PROVE  QInv'
<1>1. /\ pc = "capr" /\ pc' = "isr" /\ rx' = NextRx(rx + size[cur])
      /\ UNCHANGED <<wr, size, mem, cur, out>>
      /\ rx \in 0 .. (R - 1) /\ R \in Nat \ {0}
  BY RingConstants DEF Advance, QInv, Inv, TypeOK, Ring
<1>. DEFINE n == Len(size) + 1
            a == First
<1>2. /\ a \in Nat /\ a = Len(out) /\ cur = a /\ n \in Nat /\ a \in 1 .. Len(size) /\ First' = a + 1
      /\ a < n
  BY <1>1, Counted DEF QInv, InOrder, First
<1>3. PICK at \in [a .. n -> Nat] : Placed(at)
  BY DEF QInv, Window
<1>. DEFINE c == at[a + 1]
<1>4. /\ at[a] = rx /\ c = rx + size[cur] /\ at[n] < rx + R /\ wr = NextRx(at[n])
      /\ \A k \in a + 1 .. n : at[k] \in Nat /\ c <= at[k] /\ at[k] <= at[n] /\ at[k] < rx + R
  <2>1. at[a] = rx /\ at[n] < rx + R /\ wr = NextRx(at[n])
    BY <1>3 DEF Placed
  <2>2. c = at[a] + size[a]
    BY <1>2, <1>3 DEF Placed
  <2>3. ASSUME NEW k \in a + 1 .. n
        PROVE  at[k] \in Nat /\ c <= at[k] /\ at[k] <= at[n] /\ at[k] < rx + R
    <3>1. k \in a .. n /\ a + 1 \in a .. n /\ n \in a .. n /\ a + 1 <= k /\ k <= n
      BY <1>2
    <3>2. c <= at[k] /\ at[k] <= at[n]
      BY <1>3, <3>1 DEF Placed
    <3>. QED  BY <1>1, <1>3, <2>1, <3>1, <3>2
  <2>. QED  BY <1>2, <2>1, <2>2, <2>3
<1>5. size[cur] \in 1 .. (R - 1)
  <2>1. size \in Seq(Sizes)
    BY DEF QInv, Inv, TypeOK
  <2>2. size[cur] \in Sizes
    BY <1>2, <2>1
  <2>. QED  BY <2>2, SizeIs
<1>6. c \in Nat /\ n \in a + 1 .. n /\ a + 1 \in a + 1 .. n
  BY <1>2, <1>3
<1>7. PICK new : new = [k \in a + 1 .. n |-> IF c < R THEN at[k] ELSE at[k] - R]
  OBVIOUS
<1>8. /\ new \in [a + 1 .. n -> Nat]
      /\ \A k \in a + 1 .. n : new[k] = IF c < R THEN at[k] ELSE at[k] - R
  BY <1>1, <1>4, <1>6, <1>7
<1>. HIDE DEF c
<1>9. \A k \in a + 1 .. n : NextRx(new[k]) = NextRx(at[k]) /\ new[k] \in Nat
  <2>. SUFFICES ASSUME NEW k \in a + 1 .. n
                PROVE  NextRx(new[k]) = NextRx(at[k]) /\ new[k] \in Nat
    OBVIOUS
  <2>1. at[k] \in Nat /\ c <= at[k] /\ at[k] < rx + R
    BY <1>4
  <2>2. new[k] \in Nat /\ new[k] = IF c < R THEN at[k] ELSE at[k] - R
    BY <1>8
  <2>3. CASE c < R
    BY <2>2, <2>3
  <2>4. CASE ~(c < R)
    <3>1. at[k] >= R /\ at[k] - R < R /\ new[k] = at[k] - R
      BY <1>1, <1>6, <2>1, <2>2, <2>4
    <3>. QED  BY <1>1, <2>1, <3>1 DEF NextRx
  <2>. QED  BY <2>3, <2>4
<1>10. new[a + 1] = rx' /\ new[n] < rx' + R
  <2>1. at[a + 1] = c /\ at[n] \in Nat /\ at[n] < rx + R /\ c = rx + size[cur]
    BY <1>4, <1>6 DEF c
  <2>2. /\ new[a + 1] = IF c < R THEN c ELSE c - R
        /\ new[n] = IF c < R THEN at[n] ELSE at[n] - R
    BY <1>6, <1>8, <2>1
  <2>3. rx' = IF c >= R THEN c - R ELSE c
    BY <1>1, <2>1 DEF NextRx
  <2>4. R \in Nat /\ c \in Nat /\ rx \in Nat /\ at[n] \in Nat /\ rx <= c
    BY <1>1, <1>5, <1>6, <2>1
  <2>5. at[n] < c + R
    BY <2>1, <2>4
  <2>6. CASE c < R
    <3>1. rx' = c /\ new[a + 1] = c /\ new[n] = at[n]
      BY <2>2, <2>3, <2>4, <2>6
    <3>. QED  BY <2>5, <3>1
  <2>7. CASE ~(c < R)
    <3>1. rx' = c - R /\ new[a + 1] = c - R /\ new[n] = at[n] - R
      BY <2>2, <2>3, <2>4, <2>7
    <3>2. at[n] - R < c
      BY <2>4, <2>5
    <3>3. (c - R) + R = c
      BY <2>4
    <3>. QED  BY <3>1, <3>2, <3>3
  <2>. QED  BY <2>6, <2>7
<1>11. \A k \in a + 1 .. Len(size) : /\ new[k + 1] = new[k] + size[k]
                                    /\ mem[NextRx(new[k])] = k
  <2>. SUFFICES ASSUME NEW k \in a + 1 .. Len(size)
                PROVE  new[k + 1] = new[k] + size[k] /\ mem[NextRx(new[k])] = k
    OBVIOUS
  <2>1. k \in a + 1 .. n /\ k + 1 \in a + 1 .. n /\ k \in a .. Len(size)
    BY <1>2
  <2>2. at[k + 1] = at[k] + size[k] /\ mem[NextRx(at[k])] = k
    BY <1>3, <2>1 DEF Placed
  <2>3. at[k] \in Nat /\ at[k + 1] \in Nat /\ size[k] \in Nat
    <3>1. size \in Seq(Sizes) /\ k \in 1 .. Len(size)
      BY <1>2 DEF QInv, Inv, TypeOK
    <3>2. size[k] \in Sizes
      BY <3>1
    <3>3. size[k] \in 1 .. (R - 1)
      BY <3>2, SizeIs
    <3>. QED  BY <1>4, <2>1, <3>3
  <2>4. /\ new[k] = IF c < R THEN at[k] ELSE at[k] - R
        /\ new[k + 1] = IF c < R THEN at[k + 1] ELSE at[k + 1] - R
        /\ NextRx(new[k]) = NextRx(at[k])
    BY <1>8, <1>9, <2>1
  <2>. QED  BY <1>1, <2>2, <2>3, <2>4
<1>12. \A j, k \in a + 1 .. n : j <= k => new[j] <= new[k]
  <2>. SUFFICES ASSUME NEW j \in a + 1 .. n, NEW k \in a + 1 .. n, j <= k
                PROVE  new[j] <= new[k]
    OBVIOUS
  <2>1. at[j] <= at[k] /\ at[j] \in Nat /\ at[k] \in Nat
    BY <1>2, <1>3, <1>4 DEF Placed
  <2>. QED  BY <1>1, <1>8, <2>1
<1>13. Placed(new)'
  <2>1. First' = a + 1 /\ Len(size') + 1 = n /\ size' = size /\ mem' = mem /\ wr' = wr
    BY <1>1, <1>2
  <2>2. wr = NextRx(new[n])
    BY <1>4, <1>6, <1>9
  <2>. HIDE DEF n, a
  <2>. QED  BY <1>10, <1>11, <1>12, <2>1, <2>2 DEF Placed
<1>14. Window'
  BY <1>1, <1>2, <1>8, <1>13 DEF Window
<1>15. Inv' /\ (ReadPtr = rx)'
  BY <1>1, AdvanceStep DEF QInv, Inv, PointersAgree
<1>16. InOrder'
  BY <1>1, <1>2 DEF QInv, InOrder
<1>. QED  BY <1>14, <1>15, <1>16 DEF QInv

LEMMA QueueStep == QInv /\ [Next]_vars => QInv'
<1>. SUFFICES ASSUME QInv, [Next]_vars PROVE QInv'
  OBVIOUS
<1>1. CASE Driver \/ Raise
  BY <1>1, QueueRest, QueueAdvance DEF Driver
<1>2. CASE \E s \in Sizes : Accept(s)
  BY <1>2, QueueAccept
<1>3. CASE UNCHANGED vars
  <2>1. Inv' /\ (ReadPtr = rx)' /\ InOrder' /\ First' = First
    BY <1>3, RingStep DEF vars, QInv, ReadPtr, InOrder, First
  <2>2. Window'
    BY <1>3, <2>1 DEF vars, QInv, Window, Placed
  <2>. QED  BY <2>1, <2>2 DEF QInv
<1>. QED  BY <1>1, <1>2, <1>3 DEF Next

\* The numbers behind b, as a sequence.
From(b, n) == [k \in 1 .. n |-> b + k]

LEMMA FromLonger ==
  ASSUME NEW b \in Nat, NEW n \in Nat
  PROVE  Append(From(b, n), b + n + 1) = From(b, n + 1)
<1>1. From(b, n) \in Seq(Nat) /\ Len(From(b, n)) = n
  BY DEF From
<1>. QED  BY <1>1 DEF From

LEMMA SeqIs ==
  ASSUME NEW I, NEW s \in Seq(I)
  PROVE  s = [i \in 1 .. Len(s) |-> s[i]]
OBVIOUS

LEMMA FromShorter ==
  ASSUME NEW b \in Nat, NEW n \in Nat \ {0}
  PROVE  /\ From(b, n) # <<>> /\ Head(From(b, n)) = b + 1
         /\ Tail(From(b, n)) = From(b + 1, n - 1)
<1>. DEFINE q == From(b, n)
<1>1. q \in Seq(Nat) /\ Len(q) = n /\ \A k \in 1 .. n : q[k] = b + k
  BY DEF From
<1>2. From(b + 1, n - 1) = [k \in 1 .. n - 1 |-> q[k + 1]]
  BY <1>1 DEF From
<1>. HIDE DEF q
<1>3. q # <<>> /\ Head(q) = b + 1
  BY <1>1
<1>4. Tail(q) = [k \in 1 .. n - 1 |-> q[k + 1]]
  <2>1. q \in Seq(Nat) /\ Len(q) = n /\ n > 0
    BY <1>1
  <2>. DEFINE t == Tail(q)
  <2>2. t \in Seq(Nat) /\ Len(t) = n - 1 /\ \A k \in 1 .. n - 1 : t[k] = q[k + 1]
    BY <2>1
  <2>3. t = [k \in 1 .. n - 1 |-> t[k]]
    <3>. HIDE DEF t
    <3>. QED  BY <2>2, SeqIs
  <2>. HIDE DEF t
  <2>. QED  BY <2>2, <2>3 DEF t
<1>. QED  BY <1>2, <1>3, <1>4 DEF q

(***************************************************************************)
(* QueueSpec of Rtl8139.tla: for every ring and all sizes of frames,       *)
(* rtl8139_poll hands over the frames that the card accepted, each once,   *)
(* whole and in their order, whatever falls between its accesses.          *)
(***************************************************************************)
THEOREM ReceiverRefines == Spec => QueueSpec
<1>1. ASSUME Init PROVE Queue!Init
  <2>1. Waiting = 0 /\ out = <<>>
    BY <1>1 DEF Init, Waiting
  <2>. QED  BY <2>1 DEF Queue!Init
<1>2. ASSUME QInv, [Next]_vars PROVE [Queue!Next]_(Queue!vars)
  <2>. DEFINE w == From(Len(out), Waiting)
  <2>0. Len(size) \in Nat /\ Len(out) \in Nat /\ Waiting \in Nat
    BY <1>2, Counted DEF QInv, Waiting
  <2>1. ASSUME NEW s \in Sizes, Accept(s), NEW f \in Nat, f = Len(size) + 1
        PROVE  Queue!Accept(f)
    <3>1. size' = Append(size, s) /\ size \in Seq(Sizes) /\ out' = out
      BY <1>2, <2>1 DEF Accept, QInv, Inv, TypeOK
    <3>2. Waiting' = Waiting + 1 /\ Len(out) + Waiting + 1 = Len(size) + 1
      BY <2>0, <3>1 DEF Waiting
    <3>3. w' = Append(w, Len(size) + 1)
      BY <2>0, <3>1, <3>2, FromLonger
    <3>. QED  BY <2>1, <3>1, <3>3 DEF Queue!Accept, From
  <2>2. ASSUME Copy PROVE Queue!HandOver
    <3>1. mem[rx] = cur /\ cur = Len(out) + 1 /\ Len(out) < Len(size)
      BY <1>2, <2>0, <2>2, HeaderIs DEF Copy, QInv, InOrder
    <3>2. out' = Append(out, Len(out) + 1) /\ size' = size
          /\ out \in Seq(0 .. Len(size))
      BY <1>2, <2>2, <3>1 DEF Copy, QInv, Inv, TypeOK
    <3>3. Len(out') = Len(out) + 1 /\ Waiting' = Waiting - 1 /\ Waiting > 0
      BY <2>0, <3>1, <3>2 DEF Waiting
    <3>4. w # <<>> /\ Head(w) = Len(out) + 1
          /\ Tail(w) = From(Len(out) + 1, Waiting - 1)
      <4>1. Waiting \in Nat \ {0}
        BY <2>0, <3>3
      <4>. QED  BY <2>0, <4>1, FromShorter
    <3>5. w' = Tail(w)
      BY <3>3, <3>4
    <3>. QED  BY <3>2, <3>4, <3>5 DEF Queue!HandOver, From
  <2>3. ASSUME UNCHANGED <<size, out>> PROVE UNCHANGED Queue!vars
    BY <2>3 DEF Queue!vars, Waiting
  <2>4. ASSUME Driver \/ Raise, ~Copy PROVE UNCHANGED <<size, out>>
    BY <2>4 DEF Driver, Raise, PollIsr, Ack, ReadHeader, Advance
  <2>5. ASSUME NEW s \in Sizes, Accept(s) PROVE Len(size) + 1 \in 1 .. MaxFrames
    BY <2>0, <2>5, RingConstants DEF Accept
  <2>6. CASE \E s \in Sizes : Accept(s)
    <3>1. PICK s \in Sizes : Accept(s)
      BY <2>6
    <3>2. PICK f \in 1 .. MaxFrames : f = Len(size) + 1
      BY <2>5, <3>1
    <3>3. Queue!Accept(f)
      BY <2>1, <3>1, <3>2
    <3>4. Queue!Next
      BY <3>3 DEF Queue!Next
    <3>. QED  BY <3>4
  <2>7. CASE Copy
    BY <2>2, <2>7 DEF Queue!Next
  <2>8. CASE (Driver \/ Raise) /\ ~Copy
    BY <2>3, <2>4, <2>8
  <2>9. CASE UNCHANGED vars
    BY <2>3, <2>9 DEF vars
  <2>. QED  BY <1>2, <2>6, <2>7, <2>8, <2>9 DEF Next
<1>. QED  BY <1>1, <1>2, QueueInit, QueueStep, PTL DEF Spec, QueueSpec, Queue!Spec
=============================================================================
