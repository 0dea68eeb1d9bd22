------------------------------ MODULE Rtl8139 ------------------------------
(***************************************************************************)
(* The receiving half of drivers/net/rtl8139.c and the card it polls.  The *)
(* card writes frames into a ring in memory while the driver reads them;   *)
(* they meet in the ISR's ROK bit, which the card sets and the driver      *)
(* clears, and in CAPR, by which the driver tells how far it has read.     *)
(*                                                                         *)
(* Offsets count words of four bytes, to which both sides round; CAPR has  *)
(* bytes and 16 bits, and the card adds the 16 that the driver subtracts.  *)
(* With RCR.WRAP a frame is written on behind the end of the ring, never   *)
(* split.  The card is external.                                           *)
(***************************************************************************)
EXTENDS Naturals, Sequences

CONSTANTS
  R,           \* words in the ring: 2048
  Sizes,       \* words a frame may take, its header and its CRC included
  MaxFrames    \* bound on the frames the card accepts

ASSUME RingConstants ==
  /\ R \in Nat \ {0} /\ 65536 % (4 * R) = 0
  /\ Sizes \subseteq 1 .. (R - 1) /\ MaxFrames \in Nat

VARIABLES
  \* the card
  wr,          \* where the next frame goes
  raising,     \* "yes": a frame is written and ROK not yet set
  size,        \* the sizes of the frames accepted, in order
  \* shared
  mem,         \* mem[o]: the frame whose header is at o; 0: no header
  rok, capr,   \* ISR.ROK and CAPR
  \* the driver
  rx,          \* rx_offset
  pc, cur,     \* where rtl8139_poll is, and the frame it copies
  out          \* the frames it has handed over; 0: not one whole frame

vars == <<wr, raising, size, mem, rok, capr, rx, pc, cur, out>>

Ring == 0 .. (R - 1)

Init ==
  /\ wr = 0 /\ raising = "no" /\ size = <<>>
  /\ mem = [o \in Ring |-> 0] /\ rok = 0 /\ capr = 65520
  /\ rx = 0 /\ pc = "isr" /\ cur = 0 /\ out = <<>>

-----------------------------------------------------------------------------
(* The card.                                                               *)

ReadPtr == (((capr + 16) % 65536) \div 4) % R

\* It takes equal pointers for an empty ring.
Room(s) == LET avail == (R + ReadPtr - wr) % R IN avail = 0 \/ s < avail

Accept(s) ==
  /\ raising = "no" /\ Len(size) < MaxFrames /\ Room(s)
  /\ raising' = "yes" /\ size' = Append(size, s) /\ wr' = (wr + s) % R
  /\ mem' = [o \in Ring |-> IF o = wr THEN Len(size) + 1
                            ELSE IF o > wr /\ o < wr + s THEN 0 ELSE mem[o]]
  /\ UNCHANGED <<rok, capr, rx, pc, cur, out>>

Raise ==
  /\ raising = "yes" /\ raising' = "no" /\ rok' = 1
  /\ UNCHANGED <<wr, size, mem, capr, rx, pc, cur, out>>

-----------------------------------------------------------------------------
(* rtl8139_poll.  (A poll that finds ROK clear does nothing.)              *)

PollIsr ==
  /\ pc = "isr" /\ rok = 1 /\ pc' = "ack"
  /\ UNCHANGED <<wr, raising, size, mem, rok, capr, rx, cur, out>>

\* Mutant: ROK is left set.
AckNothing ==
  /\ pc = "ack" /\ pc' = "header"
  /\ UNCHANGED <<wr, raising, size, mem, rok, capr, rx, cur, out>>

Ack ==
  /\ pc = "ack" /\ pc' = "header" /\ rok' = 0
  /\ UNCHANGED <<wr, raising, size, mem, capr, rx, cur, out>>

\* Mutant: the status bit is taken the other way round.
ReadHeaderInverted ==
  /\ pc = "header" /\ cur' = mem[rx]
  /\ pc' = IF mem[rx] # 0 THEN "isr" ELSE "copy"
  /\ UNCHANGED <<wr, raising, size, mem, rok, capr, rx, out>>

\* if (!(status & 0x01)) return 0;
ReadHeader ==
  /\ pc = "header" /\ cur' = mem[rx]
  /\ pc' = IF mem[rx] = 0 THEN "isr" ELSE "copy"
  /\ UNCHANGED <<wr, raising, size, mem, rok, capr, rx, out>>

Copy ==
  /\ pc = "copy" /\ pc' = "capr"
  /\ out' = Append(out, IF mem[rx] = cur THEN cur ELSE 0)
  /\ UNCHANGED <<wr, raising, size, mem, rok, capr, rx, cur>>

\* if (offset >= 8192) offset -= 8192;
NextRx(o) == IF o >= R THEN o - R ELSE o

\* Mutant: the 16 bytes that the card adds are not subtracted.
AdvanceUnbiased ==
  /\ pc = "capr" /\ pc' = "isr"
  /\ rx' = NextRx(rx + size[cur])
  /\ capr' = 4 * rx'
  /\ UNCHANGED <<wr, raising, size, mem, rok, cur, out>>

Advance ==
  /\ pc = "capr" /\ pc' = "isr"
  /\ rx' = NextRx(rx + size[cur])
  /\ capr' = (65536 + 4 * rx' - 16) % 65536
  /\ UNCHANGED <<wr, raising, size, mem, rok, cur, out>>

Driver == PollIsr \/ Ack \/ ReadHeader \/ Copy \/ Advance

Next == Driver \/ Raise \/ \E s \in Sizes : Accept(s)

Spec == Init /\ [][Next]_vars

\* net_ping polls without a pause, and the card sets the bit it owes.
FairSpec == Spec /\ WF_vars(Driver) /\ WF_vars(Raise)

-----------------------------------------------------------------------------
TypeOK ==
  /\ wr \in Ring /\ rx \in Ring /\ raising \in {"no", "yes"}
  /\ size \in Seq(Sizes) /\ mem \in [Ring -> Nat]
  /\ rok \in {0, 1} /\ capr \in Nat /\ capr < 65536
  /\ pc \in {"isr", "ack", "header", "copy", "capr"}
  /\ cur \in 0 .. Len(size) /\ out \in Seq(0 .. Len(size))

Waiting == Len(size) - Len(out)

\* Driver and card agree how far the ring is read, across the wrap of the
\* ring and of the 16-bit register.
PointersAgree == pc # "capr" => ReadPtr = rx

\* ROK is never set on a ring that is read empty: a poll that sees it hands
\* a frame over.
RokMeansFrame == rok = 1 /\ pc = "isr" => Waiting > 0

\* Whoever polls on gets a frame for every ROK.
RokServed == \A k \in 0 .. MaxFrames :
               (rok = 1 /\ pc = "isr" /\ Len(out) = k) ~> Len(out) > k

\* The driver implements FrameQueue.
Queue == INSTANCE FrameQueue WITH
  Frames  <- 1 .. MaxFrames,
  waiting <- [k \in 1 .. Waiting |-> Len(out) + k],
  got     <- out
QueueSpec == Queue!Spec
=============================================================================
