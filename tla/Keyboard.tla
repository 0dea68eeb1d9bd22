------------------------------ MODULE Keyboard ------------------------------
(***************************************************************************)
(* The keyboard: the PS/2 controller and its initialisation, the polling   *)
(* for Enter when the kernel starts, and the interrupt path that fills the *)
(* ring of characters (drivers/input/keyboard.c, kernel/core/idt.c,        *)
(* kernel/interrupts.asm).                                                 *)
(*                                                                         *)
(* Each access to the controller and each step of a reader is atomic;      *)
(* between two of them keys are pressed, the controller takes a byte from  *)
(* the keyboard and, once interrupts are enabled, the handler runs.        *)
(* Nothing in the kernel enables them yet (idt_enable_interrupts has no    *)
(* caller), so the ring is the driver's interface for who does.            *)
(***************************************************************************)
EXTENDS Integers, Sequences

CONSTANTS
    Printing,       \* the keys with a character in the tables
    Shift, Other,   \* the shift keys; ctrl, alt and the keys without a character
    Enter,          \* scan code 0x1C
    NoChar,
    Size,           \* KB_BUFFER_SIZE
    DeviceSize      \* the bytes that the keyboard itself stores

Keys == Printing \union Shift \union Other

ASSUME KeysAssumption ==
    /\ Printing \intersect Shift = {} /\ Printing \intersect Other = {}
    /\ Shift \intersect Other = {} /\ Enter \in Printing
ASSUME SizeAssumption == Size \in Nat /\ Size >= 2 /\ DeviceSize \in Nat

\* What the tables make of a key without and with shift.
Chars == Printing \X BOOLEAN
ASSUME NoCharAssumption == NoChar \notin Chars

VARIABLES
    device,         \* the bytes in the keyboard, oldest first
    out,            \* the controller's output buffer, at most one byte
    last,           \* what port 0x60 returns while the buffer is empty
    config,         \* the controller's configuration byte
    pc,             \* where the kernel's code is
    read,           \* the configuration byte as keyboard_init has read it
    late,           \* a wait for the controller ended without an answer
    interrupts,     \* IF
    tooEarly,       \* history: the last interrupt came between the test and the hlt
    buffer, read_pos, write_pos, shift_pressed,
    ch, returned    \* what keyboard_getchar has read, and returned last

controller == <<device, out, last, config>>
ring == <<buffer, read_pos, write_pos, shift_pressed>>
vars == <<device, out, last, config, pc, read, late, interrupts, tooEarly, buffer,
          read_pos, write_pos, shift_pressed, ch, returned>>

-----------------------------------------------------------------------------
(* The controller and the keyboard. *)

Down(k) == [tag |-> "down", key |-> k]
Up(k) == [tag |-> "up", key |-> k]
Ack == [tag |-> "ack"]
Nothing == [tag |-> "nothing"]
ConfigByte(c) == [tag |-> "config", byte |-> c]

\* Bit 0, bit 4, and the others: as the firmware left them or something else.
Configs == [irq : BOOLEAN, off : BOOLEAN, rest : {"firmware", "stray"}]

Bytes == {Down(k) : k \in Keys} \union {Up(k) : k \in Keys} \union
         {Ack, Nothing} \union {ConfigByte(c) : c \in Configs}

\* Reading port 0x60 empties the buffer.
Inb == IF out = Nothing THEN last ELSE out
Emptied == out' = Nothing /\ last' = Inb

Send(b) ==
    /\ Len(device) < DeviceSize
    /\ device' = Append(device, b)

Type ==
    /\ \E k \in Keys : Send(Down(k)) \/ Send(Up(k))
    /\ UNCHANGED <<out, last, config, pc, read, late, interrupts, tooEarly, ch, returned>>
    /\ UNCHANGED ring

\* A disabled port (bit 4) does not take bytes from the keyboard.
Deliver ==
    /\ device # << >> /\ out = Nothing /\ ~config.off
    /\ out' = Head(device) /\ device' = Tail(device)
    /\ UNCHANGED <<last, config, pc, read, late, interrupts, tooEarly, ch, returned>>
    /\ UNCHANGED ring

-----------------------------------------------------------------------------
(* keyboard_init, after idt_load has masked every interrupt but IRQ1. *)

InitStep(from, to) ==
    /\ pc = from /\ pc' = to
    /\ UNCHANGED <<interrupts, tooEarly, ch, returned>> /\ UNCHANGED ring

DisablePort ==
    /\ InitStep("off", "flush")
    /\ config' = [config EXCEPT !.off = TRUE]
    /\ UNCHANGED <<device, out, last, read, late>>

\* Mutant: what is in the buffer stays there.
NoFlush ==
    /\ InitStep("flush", "config")
    /\ UNCHANGED <<device, out, last, config, read, late>>

Flush ==
    /\ InitStep("flush", "config")
    /\ Emptied
    /\ UNCHANGED <<device, config, read, late>>

\* Command 0x20: the controller puts its configuration into the buffer, once
\* there is nothing else in it; ps2_wait_output_full may give up before.
AskConfig ==
    /\ InitStep("config", "answer")
    /\ out' = IF out = Nothing THEN ConfigByte(config) ELSE out
    /\ UNCHANGED <<device, last, config, read, late>>

AskConfigLate ==
    /\ InitStep("config", "answer")
    /\ late' = TRUE
    /\ UNCHANGED <<device, out, last, config, read>>

\* config |= 0x01; config &= ~0x10.
ReadConfig ==
    /\ InitStep("answer", "write")
    /\ read' = [irq  |-> TRUE, off |-> FALSE,
                rest |-> IF Inb.tag = "config" THEN Inb.byte.rest ELSE "stray"]
    /\ Emptied
    /\ UNCHANGED <<device, config, late>>

WriteConfig ==
    /\ InitStep("write", "on")
    /\ config' = read
    /\ UNCHANGED <<device, out, last, read, late>>

EnablePort ==
    /\ InitStep("on", "scan")
    /\ config' = [config EXCEPT !.off = FALSE]
    /\ UNCHANGED <<device, out, last, read, late>>

\* 0xF4 goes to the keyboard, which acknowledges it.
EnableScan ==
    /\ InitStep("scan", "wait")
    /\ device' = IF Len(device) < DeviceSize THEN Append(device, Ack) ELSE device
    /\ UNCHANGED <<out, last, config, read, late>>

\* keyboard_wait_for_enter reads what comes, until Enter goes down.
WaitForEnter ==
    /\ pc = "wait" /\ out # Nothing
    /\ pc' = IF Inb = Down(Enter) THEN "ready" ELSE "wait"
    /\ Emptied
    /\ UNCHANGED <<device, config, read, late, interrupts, tooEarly, ch, returned>>
    /\ UNCHANGED ring

-----------------------------------------------------------------------------
(* The handler. *)

\* Mutant: the write position meets the read position, and the ring is empty.
PutFull(c) ==
    /\ buffer' = [buffer EXCEPT ![write_pos] = c]
    /\ write_pos' = (write_pos + 1) % Size

\* One slot stays free: with all of them taken the ring would look empty.
Put(c) ==
    IF (write_pos + 1) % Size # read_pos
    THEN /\ buffer' = [buffer EXCEPT ![write_pos] = c]
         /\ write_pos' = (write_pos + 1) % Size
    ELSE UNCHANGED <<buffer, write_pos>>

\* ctrl and alt set flags that nothing reads.
ProcessScancode(b) ==
    /\ UNCHANGED read_pos
    /\ \/ /\ b.tag = "down" /\ b.key \in Shift
          /\ shift_pressed' = TRUE /\ UNCHANGED <<buffer, write_pos>>
       \/ /\ b.tag = "up" /\ b.key \in Shift
          /\ shift_pressed' = FALSE /\ UNCHANGED <<buffer, write_pos>>
       \/ /\ b.tag = "down" /\ b.key \in Printing
          /\ Put(<<b.key, shift_pressed>>) /\ UNCHANGED shift_pressed
       \/ /\ b.tag = "down" => b.key \in Other
          /\ b.tag = "up" => b.key \notin Shift
          /\ UNCHANGED <<buffer, write_pos, shift_pressed>>

\* IRQ1 is raised while the buffer is full; it wakes a halted processor, which
\* goes on behind the hlt, with the test of the loop.
Interrupt ==
    /\ interrupts /\ config.irq /\ out # Nothing
    /\ ProcessScancode(out)
    /\ Emptied
    /\ tooEarly' = (pc = "hlt")
    /\ pc' = IF pc = "halted" THEN "check" ELSE pc
    /\ UNCHANGED <<device, config, read, late, interrupts, ch, returned>>

EnableInterrupts ==
    /\ pc = "ready" /\ ~interrupts
    /\ interrupts' = TRUE
    /\ UNCHANGED controller
    /\ UNCHANGED <<pc, read, late, tooEarly, ch, returned>> /\ UNCHANGED ring

-----------------------------------------------------------------------------
(* keyboard_getchar and keyboard_getchar_nonblock, called with interrupts on. *)

Reader(from, to) ==
    /\ pc = from /\ pc' = to
    /\ UNCHANGED controller /\ UNCHANGED <<read, late, interrupts, tooEarly>>
    /\ UNCHANGED <<buffer, write_pos, shift_pressed>>

HasKey == read_pos # write_pos

Idle == UNCHANGED <<read_pos, ch, returned>>

Getchar == interrupts /\ Reader("ready", "check") /\ Idle

\* keyboard_getchar_nonblock returns at once without a character.
GetcharNonblock == interrupts /\ HasKey /\ Reader("ready", "take") /\ Idle

FoundKey == HasKey /\ Reader("check", "take") /\ Idle

\* Mutant: the test is made once, before the loop.
NoKeyBefore == Reader("check", "hlt") /\ Idle

\* An interrupt may come between the test and the hlt.
NoKey == ~HasKey /\ Reader("check", "hlt") /\ Idle

Halt == Reader("hlt", "halted") /\ Idle

TakeChar ==
    /\ Reader("take", "advance")
    /\ ch' = buffer[read_pos]
    /\ UNCHANGED <<read_pos, returned>>

Advance ==
    /\ Reader("advance", "ready")
    /\ read_pos' = (read_pos + 1) % Size
    /\ returned' = ch
    /\ UNCHANGED ch

-----------------------------------------------------------------------------
Init ==
    /\ device = << >> /\ last = Nothing
    /\ out \in {Nothing} \union {Down(k) : k \in Keys}
    /\ config \in [irq : BOOLEAN, off : BOOLEAN, rest : {"firmware"}]
    /\ pc = "off" /\ late = FALSE /\ interrupts = FALSE
    /\ read = [irq |-> FALSE, off |-> FALSE, rest |-> "firmware"]
    /\ tooEarly = FALSE
    /\ buffer = [i \in 0 .. Size - 1 |-> NoChar]
    /\ read_pos = 0 /\ write_pos = 0 /\ shift_pressed = FALSE
    /\ ch = NoChar /\ returned = NoChar

Initialise == \/ DisablePort \/ Flush \/ AskConfig \/ AskConfigLate
              \/ ReadConfig \/ WriteConfig \/ EnablePort \/ EnableScan

Read == FoundKey \/ NoKey \/ Halt \/ TakeChar \/ Advance

Next == \/ Type \/ Deliver
        \/ Initialise \/ WaitForEnter
        \/ EnableInterrupts \/ Interrupt
        \/ Getchar \/ GetcharNonblock \/ Read

\* The processor goes on with what it does, a pending interrupt is taken, and
\* the controller takes the keyboard's bytes; whether anybody types is open.
FairSpec ==
    /\ Init /\ [][Next]_vars
    /\ WF_vars(Initialise) /\ WF_vars(Read)
    /\ WF_vars(Interrupt) /\ WF_vars(Deliver)

Spec == Init /\ [][Next]_vars
-----------------------------------------------------------------------------
(* Properties. *)

Slots == 0 .. Size - 1
Positions == {"off", "flush", "config", "answer", "write", "on", "scan", "wait",
              "ready", "check", "hlt", "halted", "take", "advance"}

\* Type invariant.
TypeOK ==
    /\ device \in Seq(Bytes) /\ out \in Bytes /\ last \in Bytes
    /\ config \in Configs /\ read \in Configs
    /\ pc \in Positions /\ late \in BOOLEAN /\ interrupts \in BOOLEAN
    /\ buffer \in [Slots -> Chars \union {NoChar}]
    /\ read_pos \in Slots /\ write_pos \in Slots /\ shift_pressed \in BOOLEAN
    /\ ch \in Chars \union {NoChar} /\ returned \in Chars \union {NoChar}

\* Keys that are pressed while keyboard_init runs do not get into what it writes
\* back: the controller keeps the firmware's settings (the translation of the
\* scan codes among them), with the interrupt and the port enabled, unless its
\* answer did not come in time.
ConfigKept ==
    pc \notin {"off", "flush", "config", "answer", "write"} /\ ~late =>
        config = [irq |-> TRUE, off |-> FALSE, rest |-> "firmware"]

\* The characters in the ring, oldest first.
Waiting ==
    [i \in 1 .. (write_pos + Size - read_pos) % Size |-> buffer[(read_pos + i - 1) % Size]]

\* The handler may run between any two steps of the reader, and the ring is
\* empty, full or wraps: characters are returned in order, each once.
Queue == INSTANCE KeyQueue WITH Limit <- Size - 1, queue <- Waiting

ImplementsKeyQueue == Queue!Spec

\* keyboard_getchar goes to sleep over a character, or sleeps on over it, only if
\* the last interrupt came between its test and its hlt: every other one wakes it,
\* and one before the test is seen by it (keyboard.c:201).
WokenUp == pc \in {"hlt", "halted"} /\ HasKey => tooEarly

Reading == pc \in {"check", "hlt", "halted", "take", "advance"}

\* A call of keyboard_getchar with a character in the ring returns, unless the last
\* interrupt came between its test and its hlt; and even then it does not sleep for
\* ever if keys go on coming (keyboard.c:190).
KeysReturned ==
    /\ Reading /\ HasKey ~> pc = "ready" \/ (pc = "halted" /\ tooEarly)
    /\ []<>(out # Nothing) => (Reading /\ HasKey ~> pc = "ready")
=============================================================================
