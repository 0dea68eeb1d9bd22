-------------------------------- MODULE Boot --------------------------------
(***************************************************************************)
(* From the firmware to the shell: the loader (boot/uefi_main.c), which    *)
(* reads the kernel, chooses a screen mode and leaves the boot services,   *)
(* and kernel_main (kernel/main.c), which finds the disks, the Linux       *)
(* partition of the first (drivers/storage/block.c, partition.c) and       *)
(* mounts it.  The NVMe driver is modelled as far as it gets               *)
(* (drivers/storage/nvme.c).                                               *)
(*                                                                         *)
(* The firmware's memory map may change whenever it runs; every call to    *)
(* the firmware and every read of a disk may fail.                         *)
(*                                                                         *)
(* The names are not those of Ahci, so that a module may extend both: the  *)
(* disk that is found here is the one that driver serves.                  *)
(***************************************************************************)
EXTENDS Naturals, Sequences

CONSTANTS
    Tries,          \* of each of the loops over GetMemoryMap: 10
    Growth,         \* bound: the largest memory map, 1 being the smallest
    Screens,        \* the sequences of modes a machine may have
    Disks,          \* what may be on a disk
    MaxDevices      \* BLOCK_MAX_DEVICES

VARIABLES
    stage,          \* of the start: what is next
    kernel,         \* what is at KERNEL_LOAD_ADDR: "nothing", "part", "whole"
    size,           \* of the firmware's memory map
    current,        \* the loader's map_key is that of the map
    changes,        \* of the map since the second loop began, at most Tries
    refusals,       \* history: of ExitBootServices, with the key of the map
    mapFailed,      \* history: GetMemoryMap failed in the second loop, whatever its size
    buffer,         \* the size of the loader's buffer for the map
    multiplier, attempt,
    modes, mode,    \* of the screen, and the mode set; no modes, no screen
    info,           \* BOOT_INFO
    devices,        \* the registered block devices
    contents,       \* what is on the first of them
    nvme, sent,     \* NVMe: commands submitted so far, and the last one's opcode
    part, found,    \* find_linux_partition: the table to try, and the LBA
    misread,        \* history: the tables passed over because a read failed
    mounted         \* the LBA of the mounted partition

history == <<refusals, mapFailed>>
loader == <<size, current, changes, history, buffer, multiplier, attempt>>
screen == <<modes, mode>>
storage == <<devices, contents, nvme, sent, part, found, misread, mounted>>
bootVars == <<stage, kernel, size, current, changes, refusals, mapFailed, buffer,
              multiplier, attempt, modes, mode, info, devices, contents, nvme, sent,
              part, found, misread, mounted>>

None == 2 ^ 16          \* no LBA

\* An entry of a partition table: where it begins, whether its type is that of a
\* Linux partition, and whether the entry is in use.
Entries == [lba : Nat, linux : BOOLEAN, used : BOOLEAN]

ConstantsOK ==
    /\ Tries \in Nat
    /\ \A d \in Disks : d.gpt \in Seq(Entries) /\ d.mbr \in Seq(Entries)

ASSUME BootConstants == ConstantsOK

NoTables == [gpt |-> << >>, mbr |-> << >>, large |-> FALSE, ext4 |-> {}]

Goto(from, to) == stage = from /\ stage' = to

-----------------------------------------------------------------------------
(* The loader. *)

\* AllocatePages, and load_kernel_from_fs: what returns an error ends efi_main.
Reserve ==
    /\ Goto("start", "load") \/ Goto("start", "returned")
    /\ UNCHANGED <<kernel, info>> /\ UNCHANGED <<loader, screen, storage>>

\* A read that is too short leaves load_kernel_from_fs with the status of the
\* read, a success, and the loader goes on; so it does, with nothing read, if the
\* first GetInfo succeeds.
LoadKernel ==
    /\ \/ Goto("load", "screen") /\ kernel' \in {"whole", "part", "nothing"}
       \/ Goto("load", "returned") /\ kernel' \in {"nothing", "part"}
    /\ UNCHANGED info /\ UNCHANGED <<loader, screen, storage>>

Area(m) == modes[m].width * modes[m].height

\* Modes with 32 bits a pixel, of those that QueryMode tells of; of the one that
\* is set nobody asks.
Good(told) == {m \in told : modes[m].rgb}

Targets(told) == {m \in Good(told) : modes[m].target}

Highest(S) == CHOOSE m \in S : \A n \in S : n <= m
Lowest(S) == CHOOSE m \in S : \A n \in S : m <= n

\* The first of those with the largest area, if it is larger than what is set.
Best(told) ==
    LET larger == {m \in Good(told) : Area(m) > Area(mode)}
    IN  IF larger = {} THEN mode
        ELSE Lowest({m \in larger : \A n \in larger : Area(n) <= Area(m)})

\* The last of the modes of 1280 by 800, otherwise the largest.
Chosen(told) == IF Targets(told) # {} THEN Highest(Targets(told)) ELSE Best(told)

\* LocateHandleBuffer or HandleProtocol may fail: the loader goes on without a
\* screen; if QueryMode fails, without that mode; if SetMode fails, with the mode
\* it has.
SetScreen ==
    /\ Goto("screen", "size")
    /\ \/ /\ modes # << >> /\ UNCHANGED modes
          /\ \E told \in SUBSET DOMAIN modes : mode' \in {mode, Chosen(told)}
       \/ mode' = 0 /\ modes' = << >>
    /\ UNCHANGED <<kernel, info>> /\ UNCHANGED <<loader, storage>>

\* The first loop: the size is asked for, and a multiple of it allocated.
AllocateMap ==
    /\ attempt < Tries
    /\ Goto("size", "map") \/ Goto("size", "returned")
    /\ attempt' = attempt + 1
    /\ buffer' = size * multiplier
    /\ current' = FALSE
    /\ UNCHANGED <<kernel, size, changes, multiplier, info>>
    /\ UNCHANGED <<history, screen, storage>>

GetMap ==
    /\ \/ Goto("map", "info") /\ size <= buffer /\ current' = TRUE
          /\ UNCHANGED multiplier
       \/ /\ Goto("map", IF attempt < Tries THEN "size" ELSE "returned")
          /\ size > buffer
          /\ multiplier' = multiplier + 1 /\ UNCHANGED current
       \/ Goto("map", "returned") /\ UNCHANGED <<current, multiplier>>
    /\ UNCHANGED <<kernel, size, changes, buffer, attempt, info>>
    /\ UNCHANGED <<history, screen, storage>>

\* A screen without a linear frame buffer has the address 0.
FillInfo ==
    /\ Goto("info", "key")
    /\ info' = [magic |-> TRUE,
                framebuffer |-> modes # << >> /\ modes[mode].linear]
    /\ attempt' = 0 /\ changes' = 0
    /\ UNCHANGED <<kernel, size, current, buffer, multiplier>>
    /\ UNCHANGED <<history, screen, storage>>

\* Mutant: the key of the first loop is used again.
OldKey ==
    /\ Goto("key", "exit")
    /\ UNCHANGED <<kernel, info>> /\ UNCHANGED <<loader, screen, storage>>

\* The second loop: the map and its key once more, and ExitBootServices.
GetKey ==
    /\ \/ Goto("key", "exit") /\ size <= buffer
          /\ current' = TRUE /\ UNCHANGED mapFailed
       \/ Goto("key", "halted") /\ size > buffer /\ UNCHANGED <<current, mapFailed>>
       \/ Goto("key", "halted") /\ mapFailed' = TRUE /\ UNCHANGED current
    /\ UNCHANGED <<kernel, size, changes, refusals, buffer, multiplier, attempt, info>>
    /\ UNCHANGED <<screen, storage>>

\* Mutant: the attempts are not counted.
RetryForever ==
    /\ \/ Goto("exit", "kernel") /\ current
       \/ Goto("exit", "key") /\ ~current
    /\ UNCHANGED <<kernel, info>> /\ UNCHANGED <<loader, screen, storage>>

\* It refuses a key that is not that of the map, and may refuse any.
ExitBootServices ==
    /\ \/ Goto("exit", "kernel") /\ current /\ UNCHANGED <<attempt, refusals>>
       \/ /\ attempt' = attempt + 1
          /\ refusals' = IF current THEN refusals + 1 ELSE refusals
          /\ Goto("exit", IF attempt + 1 < Tries THEN "key" ELSE "halted")
    /\ UNCHANGED <<kernel, size, current, changes, mapFailed, buffer, multiplier, info>>
    /\ UNCHANGED <<screen, storage>>

\* The firmware's own timers and events allocate memory, and Print does.
MapChanges ==
    /\ stage \in {"size", "map", "info", "key", "exit"}
    /\ size' \in 1 .. Growth
    /\ current' = FALSE
    /\ changes' = IF changes < Tries THEN changes + 1 ELSE changes
    /\ UNCHANGED <<stage, kernel, buffer, multiplier, attempt, info>>
    /\ UNCHANGED <<history, screen, storage>>

-----------------------------------------------------------------------------
(* kernel_main. *)

Runs == UNCHANGED <<kernel, info>> /\ UNCHANGED <<loader, screen>>

\* A part of the kernel may do anything; this is what the whole one does.  Of the
\* loader's variables and the firmware's nothing is left.
Start ==
    /\ kernel = "whole"
    /\ Goto("kernel", IF info.magic /\ info.framebuffer THEN "ahci" ELSE "noscreen")
    /\ size' = 0 /\ current' = FALSE /\ changes' = 0 /\ refusals' = 0
    /\ buffer' = 0 /\ multiplier' = 0 /\ attempt' = 0
    /\ UNCHANGED <<kernel, info, mapFailed>> /\ UNCHANGED <<screen, storage>>

\* block_register
Register(d) == devices' = IF Len(devices) < MaxDevices THEN Append(devices, d) ELSE devices

\* The first port with a disk; none, or no controller.
AhciInit ==
    /\ Goto("ahci", "nvme")
    /\ \/ Register("ahci0") /\ contents' \in Disks
       \/ UNCHANGED <<devices, contents>>
    /\ Runs /\ UNCHANGED <<nvme, sent, part, found, misread, mounted>>

\* Create the two queues, identify twice: the opcodes in cdw0.
Opcodes == <<5, 1, 6, 6>>

\* The bits that either has, of the lowest three, in which the opcodes are.
Or(a, b) ==
    LET Bit(i) == IF 1 \in {(a \div 2^i) % 2, (b \div 2^i) % 2} THEN 2^i ELSE 0
    IN  Bit(0) + Bit(1) + Bit(2)

\* No controller, or it does not become ready.
NoNvme == nvme = 0 /\ Goto("nvme", "find") /\ Runs /\ UNCHANGED storage

\* nvme_submit_cmd: the identifier of the command is the tail of the queue, and
\* it goes into the bits of the opcode.
NvmeSubmit ==
    /\ Goto("nvme", "waiting")
    /\ sent' = Or(Opcodes[nvme + 1], nvme)
    /\ nvme' = nvme + 1
    /\ Runs /\ UNCHANGED <<devices, contents, part, found, misread, mounted>>

\* The controller executes the opcodes it knows, and the driver, which waits
\* without end, goes on; after the last command it registers the device.
NvmeDone ==
    /\ sent \in {1, 5, 6}
    /\ Goto("waiting", IF nvme < Len(Opcodes) THEN "nvme" ELSE "find")
    /\ IF nvme = Len(Opcodes) THEN Register("nvme0") ELSE UNCHANGED devices
    /\ Runs /\ UNCHANGED <<contents, nvme, sent, part, found, misread, mounted>>

\* It refuses every other opcode, and may fail in any command.
NvmeRefused == Goto("waiting", "find") /\ Runs /\ UNCHANGED storage

\* Mutant: of a deleted entry the type alone is looked at.
AnyLinux == {i \in DOMAIN contents.gpt : contents.gpt[i].linux}

\* The entries of the GPT and of the MBR that the lookups take.
LinuxEntries == {i \in DOMAIN contents.gpt : contents.gpt[i].linux /\ contents.gpt[i].used}

LinuxParts == {i \in DOMAIN contents.mbr : contents.mbr[i].linux /\ contents.mbr[i].used}

\* One table of the disk: found, or nothing there or not to be read, and then
\* the next one.
NextTable == CASE part = "gpt" -> "mbr" [] part = "mbr" -> "raw" [] part = "raw" -> "none"

Found(table, lba) ==
    /\ devices # << >> /\ part = table /\ Goto("find", "mount")
    /\ found' = lba
    /\ Runs /\ UNCHANGED <<devices, contents, nvme, sent, part, misread, mounted>>

FindGpt == LinuxEntries # {} /\ ~contents.large
           /\ Found("gpt", contents.gpt[Lowest(LinuxEntries)].lba)

FindMbr == LinuxParts # {} /\ Found("mbr", contents.mbr[Lowest(LinuxParts)].lba)

FindRaw == 0 \in contents.ext4 /\ Found("raw", 0)

\* The table has what its lookup looks for.
Linux(table) ==
    CASE table = "gpt" -> LinuxEntries # {}
      [] table = "mbr" -> LinuxParts # {}
      [] table = "raw" -> 0 \in contents.ext4

\* A read that fails looks like a table that is not there.
NotFound ==
    /\ devices # << >> /\ part # "none" /\ Goto("find", "find")
    /\ part' = NextTable
    /\ misread' = IF Linux(part) THEN misread \cup {part} ELSE misread
    /\ Runs /\ UNCHANGED <<devices, contents, nvme, sent, found, mounted>>

\* Entries of more than a sector: entries_per_sector is 0, and the division by
\* it ends in default_exception_handler.
DivideError ==
    /\ devices # << >> /\ part = "gpt" /\ contents.gpt # << >> /\ contents.large
    /\ Goto("find", "exception")
    /\ Runs /\ UNCHANGED storage

NoDisk ==
    /\ devices = << >> \/ part = "none"
    /\ Goto("find", "enter")
    /\ Runs /\ UNCHANGED storage

\* ext4_mount reads the superblock of what was found.
Mount ==
    /\ Goto("mount", "enter")
    /\ \/ found \in contents.ext4 /\ mounted' = found
       \/ UNCHANGED mounted
    /\ Runs /\ UNCHANGED <<devices, contents, nvme, sent, part, found, misread>>

\* Enter, or no keyboard.
Shell == Goto("enter", "shell") /\ Runs /\ UNCHANGED storage

-----------------------------------------------------------------------------
BootInit ==
    /\ stage = "start" /\ kernel = "nothing"
    /\ size \in 1 .. Growth /\ current = FALSE /\ changes = 0
    /\ refusals = 0 /\ mapFailed = FALSE
    /\ buffer = 0 /\ multiplier = 2 /\ attempt = 0
    /\ modes \in Screens /\ mode \in (IF modes = << >> THEN {0} ELSE DOMAIN modes)
    /\ info = [magic |-> FALSE, framebuffer |-> FALSE]
    /\ devices = << >> /\ contents = NoTables /\ nvme = 0 /\ sent = 0
    /\ part = "gpt" /\ found = None /\ misread = {} /\ mounted = None

Loader ==
    \/ Reserve \/ LoadKernel \/ SetScreen \/ AllocateMap \/ GetMap
    \/ FillInfo \/ GetKey \/ ExitBootServices

Kernel ==
    \/ Start \/ AhciInit \/ NoNvme \/ NvmeSubmit \/ NvmeDone \/ NvmeRefused
    \/ FindGpt \/ FindMbr \/ FindRaw \/ NotFound \/ DivideError \/ NoDisk \/ Mount

BootNext == Loader \/ MapChanges \/ Kernel \/ Shell

BootSpec == BootInit /\ [][BootNext]_bootVars

\* The processor goes on, and firmware, disk and NVMe controller answer.
BootFairSpec == BootSpec /\ WF_bootVars(Loader) /\ WF_bootVars(Kernel)

-----------------------------------------------------------------------------
\* The loader stops before the kernel only when the map has outgrown its buffer or
\* cannot be read, or when each of its attempts to leave the boot services had a
\* cause of its own: a change of the map, or a refusal of its key
\* (boot/uefi_main.c:349).
GivesUpForCause ==
    stage = "halted" => size > buffer \/ mapFailed \/ changes + refusals >= Tries

\* The entries in use of a Linux partition.
InUse(entries) == {i \in DOMAIN entries : entries[i].linux /\ entries[i].used}

\* The table names lba.
Names(table, lba) ==
    \/ table = "gpt" /\ \E i \in InUse(contents.gpt) : contents.gpt[i].lba = lba
    \/ table = "mbr" /\ \E i \in InUse(contents.mbr) : contents.mbr[i].lba = lba
    \/ table = "raw" /\ lba = 0

\* The tables before it name nothing, or could not be read.
Exhausted(table) ==
    /\ table \in {"mbr", "raw"} => InUse(contents.gpt) = {} \/ "gpt" \in misread
    /\ table = "raw" => InUse(contents.mbr) = {} \/ "mbr" \in misread

\* What is mounted has a superblock, and a table of the first disk that is in use
\* names it as a Linux partition, or it is the whole disk; every table before that
\* one has no such entry, unless a read of it failed (kernel/main.c:119).
MountedNamed ==
    mounted # None =>
        /\ devices # << >> /\ mounted \in contents.ext4
        /\ \E table \in {"gpt", "mbr", "raw"} : Names(table, mounted) /\ Exhausted(table)

\* The machine comes to the question for Enter, or to a halt, an exception or back
\* to the firmware, unless what it starts is not the whole kernel.
BootEnds ==
    <>(\/ stage \in {"enter", "returned", "halted", "noscreen", "exception"}
       \/ stage = "kernel" /\ kernel # "whole")
=============================================================================
