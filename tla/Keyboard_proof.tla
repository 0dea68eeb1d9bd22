--------------------------- MODULE Keyboard_proof ---------------------------
(***************************************************************************)
(* Keyboard: types, the configuration that keyboard_init leaves, and that  *)
(* the ring implements KeyQueue, for every ring size and set of keys.      *)
(***************************************************************************)
EXTENDS Keyboard, TLAPS, SequenceTheorems

Early == {"off", "flush", "config", "answer", "write"}
Late == {"ready", "check", "hlt", "halted", "take", "advance"}

\* The controller, from where it is disabled to where it is configured.
SetUp ==
  /\ interrupts => pc \in Late
  /\ pc \in Early => config.rest = "firmware"
  /\ pc \in Early \ {"off"} => config.off
  /\ pc = "config" => out = Nothing
  /\ pc = "answer" /\ ~late => out = ConfigByte(config)
  /\ pc = "write" => read.irq /\ ~read.off
  /\ pc = "write" /\ ~late => read.rest = "firmware"

\* The reader, which has found a character and then has read it.
ReaderOK ==
  /\ pc \in {"take", "advance"} => HasKey
  /\ pc = "advance" => ch = buffer[read_pos]

Inv == TypeOK /\ SetUp /\ ConfigKept /\ WokenUp /\ ReaderOK

-----------------------------------------------------------------------------
(* The ring. *)

LEMMA ModIs ==
  ASSUME NEW a \in Nat, a < 2 * Size
  PROVE  a % Size = IF a < Size THEN a ELSE a - Size
BY SizeAssumption

\* How many characters wait, and where each of them is.
Number == IF write_pos >= read_pos THEN write_pos - read_pos
          ELSE write_pos + Size - read_pos
Place(r, i) == IF r + i - 1 < Size THEN r + i - 1 ELSE r + i - 1 - Size

RingOK ==
  /\ read_pos \in Slots /\ write_pos \in Slots
  /\ buffer \in [Slots -> Chars \union {NoChar}]

LEMMA WaitingIs ==
  ASSUME RingOK
  PROVE  /\ Number \in 0 .. Size - 1
         /\ Waiting = [i \in 1 .. Number |-> buffer[Place(read_pos, i)]]
         /\ \A i \in 1 .. Number : Place(read_pos, i) \in Slots
         /\ HasKey <=> Number > 0
         /\ Waiting \in Seq(Chars \union {NoChar}) /\ Len(Waiting) = Number
<1>1. read_pos \in Slots /\ write_pos \in Slots /\ Size \in Nat /\ Size >= 2
  BY SizeAssumption DEF RingOK
<1>2. Number \in 0 .. Size - 1
  BY <1>1 DEF Number, Slots
<1>3. (write_pos + Size - read_pos) % Size = Number
  <2>1. write_pos + Size - read_pos \in Nat /\ write_pos + Size - read_pos < 2 * Size
    BY <1>1 DEF Slots
  <2>. QED  BY <1>1, <2>1, ModIs DEF Number, Slots
<1>4. \A i \in 1 .. Number : /\ (read_pos + i - 1) % Size = Place(read_pos, i)
                             /\ Place(read_pos, i) \in Slots
  <2>. SUFFICES ASSUME NEW i \in 1 .. Number
                PROVE  /\ (read_pos + i - 1) % Size = Place(read_pos, i)
                       /\ Place(read_pos, i) \in Slots
    OBVIOUS
  <2>1. /\ read_pos + i - 1 \in Nat /\ read_pos + i - 1 < 2 * Size
        /\ i \in Nat /\ i >= 1 /\ i < Size
    BY <1>1, <1>2 DEF Slots
  <2>2. (read_pos + i - 1) % Size = Place(read_pos, i)
    <3>. DEFINE a == read_pos + i - 1
    <3>1. a \in Nat /\ a < 2 * Size
      BY <2>1
    <3>. HIDE DEF a
    <3>2. a % Size = IF a < Size THEN a ELSE a - Size
      BY <3>1, ModIs
    <3>3. Place(read_pos, i) = IF a < Size THEN a ELSE a - Size
      BY <1>1, <2>1 DEF Place, a, Slots
    <3>. QED  BY <3>2, <3>3 DEF a
  <2>3. Place(read_pos, i) \in Slots
    BY <1>1, <2>1 DEF Place, Slots
  <2>. QED  BY <2>2, <2>3
<1>5. Waiting = [i \in 1 .. Number |-> buffer[Place(read_pos, i)]]
  BY <1>3, <1>4 DEF Waiting
<1>6. HasKey <=> Number > 0
  BY <1>1 DEF HasKey, Number, Slots
<1>7. Waiting \in [1 .. Number -> Chars \union {NoChar}]
  BY <1>4, <1>5 DEF RingOK
<1>8. Waiting \in Seq(Chars \union {NoChar}) /\ Len(Waiting) = Number
  BY <1>2, <1>7
<1>. QED  BY <1>2, <1>4, <1>5, <1>6, <1>8

\* The next position.
LEMMA NextPlace ==
  ASSUME NEW w \in Slots
  PROVE  /\ (w + 1) % Size \in Slots
         /\ (w + 1) % Size = IF w = Size - 1 THEN 0 ELSE w + 1
<1>1. w + 1 \in Nat /\ w + 1 < 2 * Size /\ Size \in Nat /\ Size >= 2
  BY SizeAssumption DEF Slots
<1>2. (w + 1) % Size = IF w + 1 < Size THEN w + 1 ELSE (w + 1) - Size
  <2>. DEFINE a == w + 1
  <2>1. a \in Nat /\ a < 2 * Size
    BY <1>1
  <2>. HIDE DEF a
  <2>2. a % Size = IF a < Size THEN a ELSE a - Size
    BY <2>1, ModIs
  <2>. QED  BY <2>2 DEF a
<1>. QED  BY <1>1, <1>2 DEF Slots

\* A sequence is the function of its elements, and so is its tail.
LEMMA SeqIs ==
  ASSUME NEW I, NEW s \in Seq(I)
  PROVE  s = [i \in 1 .. Len(s) |-> s[i]]
OBVIOUS

\* The handler's step on the ring.
LEMMA PutImplements ==
  ASSUME RingOK, NEW c \in Chars, Put(c), UNCHANGED <<read_pos, returned>>
  PROVE  Queue!Put(c) \/ UNCHANGED <<Waiting, returned>>
<1>. DEFINE n == (write_pos + 1) % Size
            I == Chars \union {NoChar}
<1>1. /\ read_pos \in Slots /\ write_pos \in Slots /\ Size \in Nat /\ Size >= 2
      /\ buffer \in [Slots -> I]
  BY SizeAssumption DEF RingOK
<1>2. n \in Slots /\ n = IF write_pos = Size - 1 THEN 0 ELSE write_pos + 1
  BY <1>1, NextPlace
<1>3. CASE n = read_pos
  <2>1. UNCHANGED <<buffer, write_pos>>
    BY <1>3 DEF Put
  <2>. QED  BY <2>1 DEF Waiting
<1>4. CASE n # read_pos
  <2>1. buffer' = [buffer EXCEPT ![write_pos] = c] /\ write_pos' = n
    BY <1>4 DEF Put
  <2>2. RingOK'
    BY <1>1, <1>2, <2>1 DEF RingOK
  <2>3. /\ Number \in 0 .. Size - 1
        /\ Waiting = [i \in 1 .. Number |-> buffer[Place(read_pos, i)]]
        /\ \A i \in 1 .. Number : Place(read_pos, i) \in Slots
        /\ Waiting \in Seq(I) /\ Len(Waiting) = Number
    BY WaitingIs
  <2>4. Waiting' = [i \in 1 .. Number' |-> buffer'[Place(read_pos, i)]]
    <3>1. (RingOK => Waiting = [i \in 1 .. Number |-> buffer[Place(read_pos, i)]])'
      BY WaitingIs, PTL
    <3>. QED  BY <2>2, <3>1
  <2>. HIDE DEF n
  <2>5. Number' = Number + 1 /\ Number < Size - 1
    BY <1>1, <1>2, <1>4, <2>1 DEF Number, Slots
  <2>6. Place(read_pos, Number + 1) = write_pos
    BY <1>1, <2>3 DEF Number, Place, Slots
  <2>7. \A i \in 1 .. Number : Place(read_pos, i) # write_pos
    BY <1>1, <2>3 DEF Number, Place, Slots
  <2>8. \A i \in 1 .. Number + 1 :
            buffer'[Place(read_pos, i)] = IF i <= Number THEN Waiting[i] ELSE c
    <3>1. \A i \in 1 .. Number : buffer'[Place(read_pos, i)] = Waiting[i]
      BY <1>1, <2>1, <2>3, <2>7
    <3>2. buffer'[write_pos] = c
      BY <1>1, <2>1
    <3>3. \A i \in 1 .. Number + 1 : IF i <= Number THEN i \in 1 .. Number
                                     ELSE i = Number + 1
      BY <2>3
    <3>. QED  BY <2>6, <3>1, <3>2, <3>3
  <2>9. Append(Waiting, c) =
            [i \in 1 .. Number + 1 |-> IF i <= Number THEN Waiting[i] ELSE c]
    <3>. DEFINE a == Append(Waiting, c)
    <3>1. c \in I
      OBVIOUS
    <3>2. /\ a \in Seq(I) /\ Len(a) = Number + 1
          /\ \A i \in 1 .. Number : a[i] = Waiting[i]
          /\ a[Number + 1] = c
      BY <2>3, <3>1, AppendProperties
    <3>. HIDE DEF a, I
    <3>3. a = [i \in 1 .. Number + 1 |-> a[i]]
      BY <3>2, SeqIs
    <3>4. \A i \in 1 .. Number + 1 : a[i] = IF i <= Number THEN Waiting[i] ELSE c
      BY <2>3, <3>2
    <3>5. a = [i \in 1 .. Number + 1 |-> IF i <= Number THEN Waiting[i] ELSE c]
      BY <3>3, <3>4
    <3>. QED  BY <3>5 DEF a
  <2>10. Waiting' = Append(Waiting, c)
    BY <2>4, <2>5, <2>8, <2>9
  <2>. QED  BY <2>3, <2>5, <2>10 DEF Queue!Put
<1>. QED  BY <1>3, <1>4

\* The reader's step.
LEMMA TakeImplements ==
  ASSUME RingOK, HasKey, ch = buffer[read_pos], Advance
  PROVE  Queue!Take
<1>. DEFINE n == (read_pos + 1) % Size
            I == Chars \union {NoChar}
<1>1. /\ read_pos \in Slots /\ write_pos \in Slots /\ Size \in Nat /\ Size >= 2
      /\ buffer \in [Slots -> I]
  BY SizeAssumption DEF RingOK
<1>2. n \in Slots /\ n = IF read_pos = Size - 1 THEN 0 ELSE read_pos + 1
  BY <1>1, NextPlace
<1>3. /\ read_pos' = n /\ returned' = ch
      /\ UNCHANGED <<buffer, write_pos>>
  BY DEF Advance, Reader
<1>4. RingOK'
  BY <1>1, <1>2, <1>3 DEF RingOK
<1>5. /\ Number \in 0 .. Size - 1 /\ Number > 0
      /\ Waiting = [i \in 1 .. Number |-> buffer[Place(read_pos, i)]]
      /\ Waiting \in Seq(I) /\ Len(Waiting) = Number
  BY WaitingIs
<1>6. Waiting' = [i \in 1 .. Number' |-> buffer[Place(n, i)]]
  <2>1. (RingOK => Waiting = [i \in 1 .. Number |-> buffer[Place(read_pos, i)]])'
    BY WaitingIs, PTL
  <2>. QED  BY <1>3, <1>4, <2>1
<1>. HIDE DEF n
<1>7. Number' = Number - 1
  BY <1>1, <1>2, <1>3, <1>5 DEF Number, Slots, HasKey
<1>8. \A i \in 1 .. Number - 1 : Place(n, i) = Place(read_pos, i + 1)
  BY <1>1, <1>2, <1>5 DEF Place, Slots
<1>9. Place(read_pos, 1) = read_pos
  BY <1>1 DEF Place, Slots
<1>10. Tail(Waiting) = [i \in 1 .. Number - 1 |-> Waiting[i + 1]]
  <2>. HIDE DEF I
  <2>. QED  BY <1>5
<1>11. \A i \in 1 .. Number - 1 : Waiting[i + 1] = buffer[Place(n, i)]
  BY <1>5, <1>8
<1>12. Waiting' = Tail(Waiting)
  BY <1>6, <1>7, <1>10, <1>11
<1>13. Head(Waiting) = ch /\ Waiting # << >>
  BY <1>5, <1>9
<1>. QED  BY <1>3, <1>12, <1>13 DEF Queue!Take

-----------------------------------------------------------------------------
(* The invariant. *)

LEMMA BytesAre ==
  /\ Nothing \in Bytes /\ Ack \in Bytes
  /\ \A k \in Keys : Down(k) \in Bytes /\ Up(k) \in Bytes
  /\ \A c \in Configs : ConfigByte(c) \in Bytes
BY DEF Bytes

\* What a configuration byte read back says of the other bits.
LEMMA ConfigRead ==
  ASSUME NEW b \in Bytes, b.tag = "config"
  PROVE  b.byte \in Configs
BY DEF Bytes, Down, Up, Ack, Nothing, ConfigByte

LEMMA InitInv == Init => Inv
<1>. SUFFICES ASSUME Init PROVE Inv
  OBVIOUS
<1>1. TypeOK
  <2>1. device \in Seq(Bytes) /\ out \in Bytes /\ last \in Bytes
    BY BytesAre DEF Init
  <2>2. config \in Configs /\ read \in Configs
    BY DEF Init, Configs
  <2>3. 0 \in Slots
    BY SizeAssumption DEF Slots
  <2>. QED  BY <2>1, <2>2, <2>3 DEF Init, TypeOK, Slots, Positions
<1>2. SetUp /\ ConfigKept /\ WokenUp /\ ReaderOK
  BY DEF Init, SetUp, ConfigKept, WokenUp, ReaderOK, Late, Early
<1>. QED  BY <1>1, <1>2 DEF Inv

LEMMA TypeInv ==
  ASSUME Inv, Type
  PROVE  Inv'
<1>1. PICK b \in Bytes : Send(b)
  BY BytesAre DEF Type
<1>2. device' \in Seq(Bytes)
  BY <1>1 DEF Inv, TypeOK, Send
<1>. QED  BY <1>2 DEF Type, ring, Inv, TypeOK, SetUp, ConfigKept, WokenUp, ReaderOK, HasKey

LEMMA DeliverInv ==
  ASSUME Inv, Deliver
  PROVE  Inv'
<1>1. device' \in Seq(Bytes) /\ out' \in Bytes
  BY DEF Inv, TypeOK, Deliver
<1>2. pc # "config" /\ (pc = "answer" => FALSE)
  BY DEF Inv, SetUp, Deliver, Early
<1>. QED  BY <1>1, <1>2 DEF Deliver, ring, Inv, TypeOK, SetUp, ConfigKept, WokenUp,
           ReaderOK, HasKey

LEMMA InitialiseInv ==
  ASSUME Inv, Initialise
  PROVE  Inv'
<1>. USE DEF InitStep, ring, Inv, TypeOK, SetUp, ConfigKept, WokenUp, ReaderOK,
             HasKey, Early, Late, Positions
<1>0. Inb \in Bytes /\ Nothing \in Bytes
  BY BytesAre DEF Inb
<1>1. CASE DisablePort
  BY <1>1 DEF DisablePort, Configs
<1>2. CASE Flush
  BY <1>0, <1>2 DEF Flush, Emptied
<1>3. CASE AskConfig
  <2>1. ConfigByte(config) \in Bytes
    BY BytesAre
  <2>. QED  BY <1>3, <2>1 DEF AskConfig
<1>4. CASE AskConfigLate
  BY <1>4 DEF AskConfigLate
<1>5. CASE ReadConfig
  <2>1. ~late => Inb.tag = "config" /\ Inb.byte = config
    BY <1>5 DEF ReadConfig, Inb, ConfigByte, Nothing
  <2>2. Inb.tag = "config" => Inb.byte.rest \in {"firmware", "stray"}
    BY <1>0, ConfigRead DEF Configs
  <2>3. /\ read' \in Configs /\ read'.irq /\ ~read'.off
        /\ ~late => read'.rest = "firmware"
    BY <1>5, <2>1, <2>2 DEF ReadConfig, Configs
  <2>. QED  BY <1>0, <1>5, <2>3 DEF ReadConfig, Emptied
<1>6. CASE WriteConfig
  <2>1. ~late => read = [irq |-> TRUE, off |-> FALSE, rest |-> "firmware"]
    BY <1>6 DEF WriteConfig, Configs
  <2>. QED  BY <1>6, <2>1 DEF WriteConfig
<1>7. CASE EnablePort
  <2>1. config' \in Configs
    BY <1>7 DEF EnablePort, Configs
  <2>2. ~late => config' = [irq |-> TRUE, off |-> FALSE, rest |-> "firmware"]
    <3>1. ~late => config = [irq |-> TRUE, off |-> FALSE, rest |-> "firmware"]
      BY <1>7 DEF EnablePort
    <3>2. config' = [config EXCEPT !.off = FALSE] /\ late' = late
      BY <1>7 DEF EnablePort
    <3>3. config \in Configs
      OBVIOUS
    <3>4. /\ config'.irq = config.irq /\ config'.off = FALSE /\ config'.rest = config.rest
          /\ config' \in Configs
      BY <3>2, <3>3 DEF Configs
    <3>. QED  BY <3>1, <3>4 DEF Configs
  <2>. QED  BY <1>7, <2>1, <2>2 DEF EnablePort
<1>8. CASE EnableScan
  <2>1. device' \in Seq(Bytes)
    BY <1>8, BytesAre DEF EnableScan
  <2>. QED  BY <1>8, <2>1 DEF EnableScan
<1>. QED  BY <1>1, <1>2, <1>3, <1>4, <1>5, <1>6, <1>7, <1>8 DEF Initialise

LEMMA WaitInv ==
  ASSUME Inv, WaitForEnter
  PROVE  Inv'
<1>1. Inb \in Bytes /\ Nothing \in Bytes
  BY BytesAre DEF Inb, Inv, TypeOK
<1>. QED  BY <1>1 DEF WaitForEnter, Emptied, ring, Inv, TypeOK, SetUp, ConfigKept,
           WokenUp, ReaderOK, HasKey, Early, Late, Positions

\* What the handler does to the ring, from where the reader looks at it.
LEMMA PutRing ==
  ASSUME RingOK, NEW c \in Chars, Put(c), UNCHANGED read_pos
  PROVE  /\ RingOK'
         /\ HasKey => HasKey' /\ buffer'[read_pos'] = buffer[read_pos]
<1>1. (write_pos + 1) % Size \in Slots
  BY NextPlace DEF RingOK
<1>. QED  BY <1>1 DEF Put, RingOK, HasKey

LEMMA ProcessRing ==
  ASSUME RingOK, shift_pressed \in BOOLEAN, NEW b, ProcessScancode(b)
  PROVE  /\ RingOK' /\ shift_pressed' \in BOOLEAN
         /\ HasKey => HasKey' /\ buffer'[read_pos'] = buffer[read_pos]
<1>1. CASE \E c \in Chars : Put(c) /\ UNCHANGED shift_pressed
  BY <1>1, PutRing DEF ProcessScancode
<1>2. CASE UNCHANGED <<buffer, write_pos>> /\ shift_pressed' \in BOOLEAN
  BY <1>2 DEF ProcessScancode, RingOK, HasKey
<1>3. ASSUME b.key \in Printing, Put(<<b.key, shift_pressed>>), UNCHANGED shift_pressed
      PROVE  \E c \in Chars : Put(c) /\ UNCHANGED shift_pressed
  <2>1. <<b.key, shift_pressed>> \in Chars
    BY <1>3 DEF Chars
  <2>. QED  BY <1>3, <2>1
<1>. QED  BY <1>1, <1>2, <1>3 DEF ProcessScancode

LEMMA InterruptInv ==
  ASSUME Inv, Interrupt
  PROVE  Inv'
<1>1. RingOK /\ shift_pressed \in BOOLEAN
  BY DEF Inv, TypeOK, RingOK
<1>2. /\ RingOK' /\ shift_pressed' \in BOOLEAN
      /\ HasKey => HasKey' /\ buffer'[read_pos'] = buffer[read_pos]
  BY <1>1, ProcessRing DEF Interrupt
<1>3. Inb \in Bytes /\ Nothing \in Bytes
  BY BytesAre DEF Inb, Inv, TypeOK
<1>4. pc \in Late /\ pc' \in Late /\ (pc' \in {"take", "advance"} => pc' = pc)
  BY DEF Interrupt, Inv, SetUp, Late
<1>5. TypeOK'
  BY <1>2, <1>3, <1>4 DEF Interrupt, Emptied, Inv, TypeOK, RingOK, Late, Positions
<1>6. SetUp' /\ ConfigKept' /\ WokenUp'
  BY <1>4 DEF Interrupt, Inv, SetUp, ConfigKept, WokenUp, Late, Early
<1>7. ReaderOK'
  BY <1>2, <1>4 DEF Interrupt, Inv, ReaderOK
<1>. QED  BY <1>5, <1>6, <1>7 DEF Inv

LEMMA EnableInv ==
  ASSUME Inv, EnableInterrupts
  PROVE  Inv'
BY DEF EnableInterrupts, controller, ring, Inv, TypeOK, SetUp, ConfigKept, WokenUp,
   ReaderOK, HasKey, Late

LEMMA ReaderInv ==
  ASSUME Inv, Getchar \/ GetcharNonblock \/ Read
  PROVE  Inv'
<1>. USE DEF Reader, Idle, controller, Inv, TypeOK, SetUp, ConfigKept, WokenUp,
             ReaderOK, HasKey, Early, Late, Positions
<1>1. CASE Getchar
  BY <1>1 DEF Getchar
<1>2. CASE GetcharNonblock
  BY <1>2 DEF GetcharNonblock
<1>3. CASE FoundKey
  BY <1>3 DEF FoundKey
<1>4. CASE NoKey
  BY <1>4 DEF NoKey
<1>5. CASE Halt
  BY <1>5 DEF Halt
<1>6. CASE TakeChar
  BY <1>6 DEF TakeChar
<1>7. CASE Advance
  <2>1. read_pos' \in Slots
    BY <1>7, NextPlace DEF Advance
  <2>. QED  BY <1>7, <2>1 DEF Advance
<1>. QED  BY <1>1, <1>2, <1>3, <1>4, <1>5, <1>6, <1>7 DEF Read

LEMMA NextInv == Inv /\ [Next]_vars => Inv'
<1>. SUFFICES ASSUME Inv, [Next]_vars PROVE Inv'
  OBVIOUS
<1>1. CASE UNCHANGED vars
  BY <1>1 DEF vars, Inv, TypeOK, SetUp, ConfigKept, WokenUp, ReaderOK, HasKey
<1>2. CASE Next
  BY <1>2, TypeInv, DeliverInv, InitialiseInv, WaitInv, InterruptInv, EnableInv, ReaderInv
  DEF Next
<1>. QED  BY <1>1, <1>2

LEMMA Invariant == Spec => []Inv
BY InitInv, NextInv, PTL DEF Spec

\* The ring's positions stay in it, and everything else has its type.
THEOREM TypeCorrect == Spec => []TypeOK
<1>1. Inv => TypeOK
  BY DEF Inv
<1>. QED  BY Invariant, <1>1, PTL

\* Whatever is typed while the controller is configured, it keeps the settings
\* of the firmware.
THEOREM ConfigCorrect == Spec => []ConfigKept
<1>1. Inv => ConfigKept
  BY DEF Inv
<1>. QED  BY Invariant, <1>1, PTL

\* Between any two steps of the reader and the handler, the only interrupt that
\* does not keep keyboard_getchar awake is one between its test and its hlt.
THEOREM GetcharWoken == Spec => []WokenUp
<1>1. Inv => WokenUp
  BY DEF Inv
<1>. QED  BY Invariant, <1>1, PTL

-----------------------------------------------------------------------------
(* The ring implements KeyQueue. *)

LEMMA InitShown == Init => Queue!Init
<1>. SUFFICES ASSUME Init PROVE Queue!Init
  OBVIOUS
<1>1. RingOK /\ ~HasKey
  BY SizeAssumption DEF Init, RingOK, Slots, HasKey
<1>2. Number = 0 /\ Waiting = [i \in 1 .. Number |-> buffer[Place(read_pos, i)]]
  BY <1>1, WaitingIs
<1>3. Waiting = << >>
  BY <1>2
<1>. QED  BY <1>3 DEF Init, Queue!Init

LEMMA NextShown == Inv /\ [Next]_vars => [Queue!Next]_(Queue!vars)
<1>. DEFINE Goal == Queue!Next \/ UNCHANGED <<Waiting, returned>>
<1>. SUFFICES ASSUME Inv, [Next]_vars PROVE Goal
  BY DEF Queue!vars
<1>1. RingOK
  BY DEF Inv, TypeOK, RingOK
<1>2. UNCHANGED <<buffer, write_pos, read_pos, returned>> => Goal
  BY DEF Waiting
<1>3. CASE Advance
  <2>1. Queue!Take
    BY <1>1, <1>3, TakeImplements DEF Inv, ReaderOK, Advance, Reader
  <2>. QED  BY <2>1 DEF Queue!Next
<1>4. CASE Interrupt
  <2>1. ProcessScancode(out) /\ UNCHANGED <<read_pos, returned>>
    BY <1>4 DEF Interrupt, ProcessScancode
  <2>2. CASE out.key \in Printing /\ Put(<<out.key, shift_pressed>>)
    <3>. DEFINE c == <<out.key, shift_pressed>>
    <3>1. c \in Chars /\ Put(c)
      BY <2>2 DEF Chars, Inv, TypeOK
    <3>. HIDE DEF c
    <3>2. Queue!Put(c) \/ UNCHANGED <<Waiting, returned>>
      BY <1>1, <2>1, <3>1, PutImplements
    <3>. QED  BY <3>1, <3>2 DEF Queue!Next
  <2>. QED  BY <1>2, <2>1, <2>2 DEF ProcessScancode
<1>. HIDE DEF Goal
<1>5. CASE UNCHANGED vars
  BY <1>2, <1>5 DEF vars
<1>6. CASE Type \/ Deliver \/ Initialise \/ WaitForEnter \/ EnableInterrupts
  <2>1. UNCHANGED <<buffer, write_pos, read_pos, returned>>
    BY <1>6 DEF Type, Deliver, Initialise, DisablePort, Flush, AskConfig, AskConfigLate,
       ReadConfig, WriteConfig, EnablePort, EnableScan, InitStep, WaitForEnter,
       EnableInterrupts, ring
  <2>. QED  BY <1>2, <2>1
<1>7. CASE Getchar \/ GetcharNonblock \/ FoundKey \/ NoKey \/ Halt \/ TakeChar
  <2>1. UNCHANGED <<buffer, write_pos, read_pos, returned>>
    BY <1>7 DEF Getchar, GetcharNonblock, FoundKey, NoKey, Halt, TakeChar, Reader, Idle
  <2>. QED  BY <1>2, <2>1
<1>. QED  BY <1>3, <1>4, <1>5, <1>6, <1>7 DEF Next, Read

\* With the handler between any two steps of the reader, characters are returned
\* in order, each once, and at most Size - 1 wait.
THEOREM QueueRefines == Spec => ImplementsKeyQueue
BY InitShown, NextShown, Invariant, PTL DEF Spec, ImplementsKeyQueue, Queue!Spec
=============================================================================
