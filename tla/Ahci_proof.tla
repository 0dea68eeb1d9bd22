----------------------------- MODULE Ahci_proof -----------------------------
(***************************************************************************)
(* The disk driver and its controller implement BlockDev, for every disk   *)
(* and in every order of their steps; and the start of the machine, which  *)
(* finds the disk and mounts a partition of it: why the loader gives up,   *)
(* and what is mounted, for every number of tries and every disk.          *)
(***************************************************************************)
EXTENDS Ahci, Boot, TLAPS, WellFoundedInduction

\* What is in the registers and in memory while a call is on its way.
Registers ==
  /\ IF Calling THEN \E r \in Request : req = {r} ELSE req = {}
  /\ pc \in {"table", "wait", "issue", "pollCi", "pollIs"} => \A r \in req : header = r.w
  /\ pc \in {"wait", "issue", "pollCi", "pollIs"} => table = req
  /\ hba = "ready" /\ ~Polling => ci = 0
  /\ hba # "ready" => ci = 1
  /\ tfes = 1 => hba = "halted"

\* A command that is done has done it.
Finished ==
  (hba = "posted" \/ (Polling /\ ci = 0)) => \A r \in req : Device!Moved(r)

AInv == TypeOK /\ ExecutesRequest /\ Registers /\ Finished

\* The invariant holds at the start.
LEMMA AInvInit == Init => AInv
<1> SUFFICES ASSUME Init PROVE AInv
  OBVIOUS
<1>1. TypeOK
  BY DEF Init, TypeOK
<1>2. ExecutesRequest /\ Registers /\ Finished
  BY DEF Init, ExecutesRequest, Registers, Finished, Polling, Calling
<1> QED
  BY <1>1, <1>2 DEF AInv

\* The steps of the driver that set the port up.
LEMMA SetupStep ==
  ASSUME AInv, StopCommands \/ StopFis \/ Rebase \/ StartFis \/ StartCommands
  PROVE  AInv'
<1>1. /\ UNCHANGED <<disk, hba, running, tfes, ci, busy, foreign, memory, req, result>>
      /\ pc \in {"stop", "stopFis", "stopping", "startFis", "startCommands"}
      /\ pc' \in {"stopFis", "stopping", "startFis", "startCommands", "idle"}
      /\ cmd' \subseteq cmd \cup {"FRE", "ST"} /\ base' \in {base, "kernel"}
  BY DEF StopCommands, StopFis, Rebase, StartFis, StartCommands, Step
<1>2. TypeOK'
  BY <1>1 DEF AInv, TypeOK, memory
<1>3. ExecutesRequest' /\ Registers' /\ Finished'
  BY <1>1 DEF AInv, ExecutesRequest, Registers, Finished, Polling, Calling, memory
<1> QED
  BY <1>2, <1>3 DEF AInv

\* The steps of a call up to the one that issues the command.
LEMMA CallStep ==
  ASSUME AInv, (\E r \in Request : Begin(r)) \/ ClearStatus \/ WriteHeader
                 \/ WriteTable \/ WaitIdle
  PROVE  AInv'
<1>1. CASE \E r \in Request : Begin(r)
  <2>1. PICK r \in Request : Begin(r)
    BY <1>1
  <2>2. pc = "idle" /\ pc' = "clear" /\ req' = {r} /\ buf' = Stale /\ result' = "none"
        /\ UNCHANGED <<disk, hba, running, port, header, table>>
    BY <2>1 DEF Begin, Step
  <2>3. TypeOK'
    BY <2>2 DEF AInv, TypeOK, port
  <2>4. ExecutesRequest' /\ Registers' /\ Finished'
    BY <2>2 DEF AInv, ExecutesRequest, Registers, Finished, Polling, Calling, port
  <2> QED
    BY <2>3, <2>4 DEF AInv
<1>2. CASE ClearStatus
  <2>1. TypeOK'
    BY <1>2 DEF ClearStatus, Step, AInv, TypeOK, memory
  <2>2. ExecutesRequest' /\ Registers' /\ Finished'
    BY <1>2 DEF ClearStatus, Step, AInv, ExecutesRequest, Registers, Finished, Polling,
                Calling, memory
  <2> QED
    BY <2>1, <2>2 DEF AInv
<1>3. CASE WriteHeader
  <2>1. PICK r \in Request : req = {r}
    BY <1>3 DEF WriteHeader, Step, AInv, Registers, Calling
  <2>2. header' = r.w /\ header' \in {0, 1} /\ pc = "header" /\ pc' = "table"
        /\ UNCHANGED <<disk, hba, running, port, table, buf, req, result>>
    BY <1>3, <2>1 DEF WriteHeader, Step, Request
  <2>3. TypeOK'
    BY <2>2 DEF AInv, TypeOK, port
  <2>4. ExecutesRequest' /\ Registers' /\ Finished'
    BY <2>1, <2>2 DEF AInv, ExecutesRequest, Registers, Finished, Polling, Calling, port
  <2> QED
    BY <2>3, <2>4 DEF AInv
<1>4. CASE WriteTable
  <2>1. TypeOK'
    BY <1>4 DEF WriteTable, Step, AInv, TypeOK, port
  <2>2. ExecutesRequest' /\ Registers' /\ Finished'
    BY <1>4 DEF WriteTable, Step, AInv, ExecutesRequest, Registers, Finished, Polling,
                Calling, port
  <2> QED
    BY <2>1, <2>2 DEF AInv
<1>5. CASE WaitIdle
  <2>1. TypeOK'
    BY <1>5 DEF WaitIdle, Step, AInv, TypeOK, port, memory
  <2>2. ExecutesRequest' /\ Registers' /\ Finished'
    BY <1>5 DEF WaitIdle, Step, AInv, ExecutesRequest, Registers, Finished, Polling,
                Calling, port, memory
  <2> QED
    BY <2>1, <2>2 DEF AInv
<1> QED
  BY <1>1, <1>2, <1>3, <1>4, <1>5

\* Issuing the command, and polling for its end.
LEMMA PollStep ==
  ASSUME AInv, Issue \/ PollCi \/ PollIs PROVE AInv'
<1>1. CASE Issue
  <2>1. TypeOK'
    BY <1>1 DEF Issue, Step, AInv, TypeOK, memory
  <2>2. ExecutesRequest' /\ Registers' /\ Finished'
    BY <1>1 DEF Issue, Step, AInv, ExecutesRequest, Registers, Finished, Polling,
                Calling, memory
  <2> QED
    BY <2>1, <2>2 DEF AInv
<1>2. CASE PollCi \/ PollIs
  <2>1. /\ UNCHANGED <<disk, hba, running, port, memory>> /\ Polling
        /\ \/ pc' \in {"pollCi", "pollIs"} /\ UNCHANGED <<req, result>>
           \/ pc = "pollCi" /\ ci = 0 /\ Return("ok")
           \/ pc = "pollIs" /\ tfes = 1 /\ Return("failed")
    BY <1>2 DEF PollCi, PollIs, Polling
  <2>2. TypeOK'
    BY <2>1 DEF AInv, TypeOK, port, memory, Return
  <2>3. CASE pc' \in {"pollCi", "pollIs"} /\ UNCHANGED <<req, result>>
    <3>1. ExecutesRequest' /\ Registers' /\ Finished'
      BY <2>1, <2>3 DEF AInv, ExecutesRequest, Registers, Finished, Polling, Calling,
                        port, memory, Device!Moved
    <3> QED
      BY <2>2, <3>1 DEF AInv
  <2>4. CASE pc = "pollCi" /\ ci = 0 /\ Return("ok")
    <3>1. ExecutesRequest' /\ Registers' /\ Finished'
      BY <2>1, <2>4 DEF AInv, ExecutesRequest, Registers, Finished, Polling, Calling,
                        port, memory, Return
    <3> QED
      BY <2>2, <3>1 DEF AInv
  <2>5. CASE pc = "pollIs" /\ tfes = 1 /\ Return("failed")
    <3>1. ExecutesRequest' /\ Registers' /\ Finished'
      BY <2>1, <2>5 DEF AInv, ExecutesRequest, Registers, Finished, Polling, Calling,
                        port, memory, Return
    <3> QED
      BY <2>2, <3>1 DEF AInv
  <2> QED
    BY <2>1, <2>3, <2>4, <2>5
<1> QED
  BY <1>1, <1>2

\* What moving the block for the request does, whoever observes it.
LEMMA MoveIsMove ==
  ASSUME TypeOK, NEW r \in Request, req = {r}, Move(r)
  PROVE  /\ disk' \in [Lbas -> Values] /\ buf' \in Values \cup {Stale}
         /\ req' = req => Device!Moved(r)'
         /\ UNCHANGED <<req, result>> => Device!Move(r)
<1>1. disk \in [Lbas -> Values] /\ buf \in Values \cup {Stale}
      /\ r.lba \in Lbas /\ r.val \in Values /\ r.w \in {0, 1}
  BY DEF TypeOK, Request
<1>2. CASE r.w = 1
  BY <1>1, <1>2 DEF Move, Device!Moved, Device!Move
<1>3. CASE r.w = 0
  BY <1>1, <1>3 DEF Move, Device!Moved, Device!Move
<1> QED
  BY <1>1, <1>2, <1>3

\* The steps of the controller.
LEMMA ControllerStep ==
  ASSUME AInv, Controller PROVE AInv'
<1>1. CASE EngineFollows
  <2>1. /\ UNCHANGED <<disk, hba, running, tfes, ci, busy, base, memory, pc, req, result>>
        /\ cmd' \subseteq {"ST", "CR", "FRE", "FR"} /\ foreign' \subseteq Engines
    BY <1>1 DEF EngineFollows, Starts, Stops, Engines, AInv, TypeOK
  <2>2. TypeOK'
    BY <2>1 DEF AInv, TypeOK, memory
  <2>3. ExecutesRequest' /\ Registers' /\ Finished'
    BY <2>1 DEF AInv, ExecutesRequest, Registers, Finished, Polling, Calling, memory,
                Device!Moved
  <2> QED
    BY <2>2, <2>3 DEF AInv
<1>2. CASE Fetch
  <2>1. PICK r \in Request : req = {r} /\ table = {r} /\ header = r.w /\ Polling
    BY <1>2 DEF Fetch, AInv, Registers, Polling, Calling
  <2>2. running' = {r}
    <3>1. [r EXCEPT !.w = header] = r
      BY <2>1 DEF Request
    <3> QED
      BY <1>2, <2>1, <3>1 DEF Fetch
  <2>3. /\ hba = "ready" /\ hba' = "exec" /\ busy' = 1 /\ ci = 1
        /\ UNCHANGED <<disk, cmd, tfes, ci, base, foreign, memory, pc, req, result>>
    BY <1>2 DEF Fetch
  <2>4. TypeOK'
    BY <2>2, <2>3 DEF AInv, TypeOK, memory
  <2>5. ExecutesRequest' /\ Registers' /\ Finished'
    BY <2>1, <2>2, <2>3 DEF AInv, ExecutesRequest, Registers, Finished, Polling, Calling,
                            memory
  <2> QED
    BY <2>4, <2>5 DEF AInv
<1>3. CASE Complete \/ Error
  <2>1. PICK r \in Request : req = {r} /\ running = {r} /\ Polling
    BY <1>3 DEF Complete, Error, AInv, ExecutesRequest, Registers, Polling, Calling
  <2>2. /\ hba = "exec" /\ busy' = 0
        /\ UNCHANGED <<running, cmd, ci, base, foreign, header, table, pc, req, result>>
        /\ \/ hba' = "posted" /\ tfes' = tfes /\ Move(r)
           \/ hba' = "halted" /\ tfes' = 1 /\ (Move(r) \/ UNCHANGED <<disk, buf>>)
    BY <1>3, <2>1 DEF Complete, Error
  <2>3. /\ disk' \in [Lbas -> Values] /\ buf' \in Values \cup {Stale}
        /\ hba' = "posted" => Device!Moved(r)'
    <3>1. CASE Move(r)
      BY <2>1, <2>2, <3>1, MoveIsMove DEF AInv
    <3>2. CASE hba' = "halted" /\ UNCHANGED <<disk, buf>>
      BY <3>2 DEF AInv, TypeOK
    <3> QED
      BY <2>2, <3>1, <3>2
  <2>4. TypeOK'
    BY <2>2, <2>3 DEF AInv, TypeOK
  <2>5. ExecutesRequest' /\ Registers'
    BY <2>1, <2>2 DEF AInv, ExecutesRequest, Registers, Polling, Calling
  <2>6. Finished'
    BY <2>1, <2>2, <2>3 DEF AInv, Registers, Finished, Polling, Calling
  <2> QED
    BY <2>4, <2>5, <2>6 DEF AInv
<1>4. CASE Post
  <2>1. /\ hba = "posted" /\ hba' = "ready" /\ ci' = 0
        /\ UNCHANGED <<disk, running, cmd, tfes, busy, base, foreign, memory, pc, req, result>>
    BY <1>4 DEF Post
  <2>2. TypeOK'
    BY <2>1 DEF AInv, TypeOK, memory
  <2>3. ExecutesRequest' /\ Registers'
    BY <2>1 DEF AInv, ExecutesRequest, Registers, Polling, Calling, memory
  <2>4. Finished'
    BY <2>1 DEF AInv, Finished, Polling, memory, Device!Moved
  <2> QED
    BY <2>2, <2>3, <2>4 DEF AInv
<1> QED
  BY <1>1, <1>2, <1>3, <1>4 DEF Controller

\* Every step keeps the invariant.
LEMMA AInvStep == AInv /\ [Next]_vars => AInv'
<1> SUFFICES ASSUME AInv, [Next]_vars PROVE AInv'
  OBVIOUS
<1>1. CASE Driver
  BY <1>1, SetupStep, CallStep, PollStep DEF Driver
<1>2. CASE Controller
  BY <1>2, ControllerStep
<1>3. CASE \E r \in Request : Begin(r)
  BY <1>3, CallStep
<1>4. CASE UNCHANGED vars
  <2>1. TypeOK'
    BY <1>4 DEF AInv, TypeOK, vars, port, memory
  <2>2. ExecutesRequest' /\ Registers' /\ Finished'
    BY <1>4 DEF AInv, ExecutesRequest, Registers, Finished, Polling, Calling, vars, port,
                memory, Device!Moved
  <2> QED
    BY <2>1, <2>2 DEF AInv
<1> QED
  BY <1>1, <1>2, <1>3, <1>4 DEF Next

\* In every reachable state, for every disk: the types, and that the
\* controller executes exactly the request the caller waits for.
THEOREM OneCommandAtATime == Spec => [](TypeOK /\ ExecutesRequest)
<1>1. AInv => TypeOK /\ ExecutesRequest
  BY DEF AInv
<1> QED
  BY <1>1, AInvInit, AInvStep, PTL DEF Spec

\* Only an engine that began to run at the firmware's bases works in the firmware's
\* memory, and none does once the bases are the kernel's.
Homed ==
  /\ foreign \subseteq cmd \cap Engines
  /\ base = "kernel" => foreign = {}
  /\ base = "kernel" \/ pc \in {"stop", "stopFis", "stopping"}

\* Every step keeps the engines where their bases are.
LEMMA HomedStep ==
  ASSUME Homed, [Next]_vars
  PROVE  Homed'
<1> USE DEF Homed, Engines, Step
<1>1. CASE StopCommands \/ StopFis \/ StartFis \/ StartCommands
  BY <1>1 DEF StopCommands, StopFis, StartFis, StartCommands
<1>2. CASE Rebase
  <2>1. foreign = {}
    BY <1>2 DEF Rebase
  <2> QED
    BY <1>2, <2>1 DEF Rebase
<1>3. CASE EngineFollows
  <2>1. ASSUME NEW bit \in Engines, NEW of \in {"ST", "FRE"}, Starts(bit, of) \/ Stops(bit, of)
        PROVE  foreign' \subseteq cmd' \cap Engines /\ (base = "kernel" => foreign' = {})
    BY <2>1 DEF Starts, Stops
  <2> QED
    BY <1>3, <2>1 DEF EngineFollows
<1>4. CASE \/ \E r \in Request : Begin(r)
          \/ ClearStatus \/ WriteHeader \/ WriteTable \/ WaitIdle \/ Issue
          \/ PollCi \/ PollIs \/ Fetch \/ Complete \/ Post \/ Error \/ UNCHANGED vars
  <2>1. UNCHANGED <<cmd, base, foreign>> /\ (pc' = pc \/ base = "kernel")
    BY <1>4 DEF Begin, ClearStatus, WriteHeader, WriteTable, WaitIdle, Issue, Return,
                PollCi, PollIs, Fetch, Complete, Post, Error, vars, port
  <2> QED
    BY <2>1
<1> QED
  BY <1>1, <1>2, <1>3, <1>4 DEF Next, Driver, Controller

\* No engine works in the firmware's memory while a call is on its way, in every
\* order of the driver's accesses and the engines' starts and stops.
THEOREM EnginesAtHome == Spec => []EnginesRehomed
<1>1. Init => Homed
  BY DEF Init, Homed, Engines
<1>2. Homed => EnginesRehomed
  BY DEF Homed, EnginesRehomed, Calling, Polling
<1> QED
  BY <1>1, <1>2, HomedStep, PTL DEF Spec

\* A step of driver or controller is a step of a BlockDevice, or none.
LEMMA DeviceStep == AInv /\ [Next]_vars => [Device!Next]_(Device!vars)
<1> SUFFICES ASSUME AInv, [Next]_vars PROVE Device!Next \/ UNCHANGED Device!vars
  OBVIOUS
<1>1. CASE \E r \in Request : Begin(r)
  <2>1. PICK r \in Request : Begin(r)
    BY <1>1
  <2>2. Device!Start(r)
    BY <2>1 DEF Begin, Step, AInv, Registers, Calling, Polling, Device!Start
  <2>3. r \in Device!Request
    BY DEF Request, Device!Request
  <2> QED
    BY <2>2, <2>3 DEF Device!Next
<1>2. CASE Complete \/ Error
  <2>1. PICK r \in Request : req = {r} /\ running = {r}
    BY <1>2 DEF Complete, Error, AInv, ExecutesRequest, Registers, Polling, Calling
  <2>2. UNCHANGED <<req, result>> /\ (Move(r) \/ UNCHANGED <<disk, buf>>)
    BY <1>2, <2>1 DEF Complete, Error
  <2>3. CASE Move(r)
    <3>1. Device!Move(r)
      BY <2>1, <2>2, <2>3, MoveIsMove DEF AInv
    <3>2. r \in Device!Request
      BY DEF Request, Device!Request
    <3> QED
      BY <3>1, <3>2 DEF Device!Next
  <2>4. CASE UNCHANGED <<disk, buf>>
    BY <2>2, <2>4 DEF Device!vars
  <2> QED
    BY <2>2, <2>3, <2>4
<1>3. CASE PollCi \/ PollIs
  <2>1. PICK r \in Request : req = {r}
    BY <1>3 DEF PollCi, PollIs, AInv, Registers, Calling, Polling
  <2>2. /\ UNCHANGED <<disk, buf>>
        /\ \/ UNCHANGED <<req, result>>
           \/ pc = "pollCi" /\ ci = 0 /\ Return("ok")
           \/ Return("failed")
    BY <1>3 DEF PollCi, PollIs, memory
  <2>3. pc = "pollCi" /\ ci = 0 => Device!Moved(r)
    BY <2>1 DEF AInv, Finished, Polling
  <2>4. UNCHANGED Device!vars \/ Device!Return(r)
    BY <2>1, <2>2, <2>3 DEF Return, Device!vars, Device!Return
  <2>5. r \in Device!Request
    BY DEF Request, Device!Request
  <2> QED
    BY <2>4, <2>5 DEF Device!Next
<1>4. CASE \/ StopCommands \/ StopFis \/ Rebase \/ StartFis \/ StartCommands
           \/ ClearStatus \/ WriteHeader \/ WriteTable \/ WaitIdle \/ Issue
           \/ EngineFollows \/ Fetch \/ Post \/ UNCHANGED vars
  BY <1>4 DEF StopCommands, StopFis, Rebase, StartFis, StartCommands, ClearStatus,
              WriteHeader, WriteTable, WaitIdle, Issue, EngineFollows, Fetch, Post,
              vars, memory, Device!vars
<1> QED
  BY <1>1, <1>2, <1>3, <1>4 DEF Next, Driver, Controller

\* The driver, with its controller, is a BlockDevice: what returns 1 has
\* moved the whole block, and what returns 0 has touched nothing else.
THEOREM DriverIsADevice == Spec => DeviceSpec
<1>1. Init => Device!Init
  BY DEF Init, Device!Init
<1> QED
  BY <1>1, AInvInit, AInvStep, DeviceStep, PTL DEF Spec, DeviceSpec, Device!Spec
-----------------------------------------------------------------------------
(* The start of the machine, in which this driver finds the first disk.    *)

\* An attempt to leave the boot services fails only after a change of the map or
\* for a refusal, and each after one of its own.
Retries ==
  /\ attempt \in Nat /\ changes \in 0 .. Tries /\ refusals \in Nat
  /\ stage \in {"key", "exit"} =>
       \/ changes >= Tries
       \/ attempt + (IF stage = "exit" /\ ~current THEN 1 ELSE 0) <= changes + refusals

\* A table in use has an entry for a Linux partition at lba, or it is the disk.
Named(lba) ==
  /\ devices # << >>
  /\ \E where \in {"gpt", "mbr", "raw"} : Names(where, lba) /\ Exhausted(where)

\* Nothing is mounted before the disks are known, what is about to be has a name,
\* and the tables already tried have none, or were not read.
Selected ==
  /\ stage \in {"start", "load", "screen", "size", "map", "info", "key", "exit", "kernel",
                "ahci", "nvme", "waiting", "find", "mount"} => mounted = None
  /\ stage \notin {"find", "mount", "enter", "shell", "exception"} => part = "gpt"
  /\ part \in {"gpt", "mbr", "raw", "none"} /\ Exhausted(part)
  /\ stage = "mount" => Named(found)
  /\ mounted # None => Named(mounted) /\ mounted \in contents.ext4

\* The disk is one of those there are, or none is known.
Known == contents \in Disks \cup {NoTables}

BootInv == Retries /\ GivesUpForCause /\ Selected /\ Known

\* What is mounted is what the invariant says of it.
LEMMA SelectedNamed == Selected => MountedNamed
  BY DEF Selected, Named, MountedNamed

\* A set of positions that is not empty has a lowest one.
LEMMA LowestIn ==
  ASSUME NEW T \in SUBSET Nat, T # {}
  PROVE  Lowest(T) \in T
<1>1. \E x \in T : \A y \in T : ~(<<y, x>> \in OpToRel(<, Nat))
  BY NatLessThanWellFounded, WFMin
<1>2. PICK x \in T : \A y \in T : ~(<<y, x>> \in OpToRel(<, Nat))
  BY <1>1
<1>3. ASSUME NEW y \in T PROVE x <= y
  <2>1. ~(y < x)
    BY <1>2, <1>3 DEF OpToRel
  <2> QED
    BY <2>1
<1> QED
  BY <1>2, <1>3 DEF Lowest

\* The tables are sequences of entries.
LEMMA TablesType ==
  ASSUME Known
  PROVE  contents.gpt \in Seq(Entries) /\ contents.mbr \in Seq(Entries)
<1>1. CASE contents \in Disks
  BY <1>1, BootConstants DEF ConstantsOK
<1>2. CASE contents = NoTables
  BY <1>2 DEF NoTables
<1> QED
  BY <1>1, <1>2 DEF Known

\* The entries that the lookups of the tables choose.
LEMMA ChosenNamed ==
  ASSUME Known
  PROVE  /\ LinuxEntries # {} => Names("gpt", contents.gpt[Lowest(LinuxEntries)].lba)
         /\ LinuxParts # {} => Names("mbr", contents.mbr[Lowest(LinuxParts)].lba)
<1>1. DOMAIN contents.gpt \subseteq Nat /\ DOMAIN contents.mbr \subseteq Nat
  BY TablesType
<1>2. LinuxEntries \subseteq Nat /\ LinuxParts \subseteq Nat
  BY <1>1 DEF LinuxEntries, LinuxParts
<1>3. ASSUME LinuxEntries # {}
      PROVE  Names("gpt", contents.gpt[Lowest(LinuxEntries)].lba)
  <2>1. Lowest(LinuxEntries) \in LinuxEntries
    BY <1>2, <1>3, LowestIn
  <2>2. PICK i : i = Lowest(LinuxEntries)
    OBVIOUS
  <2> QED
    BY <2>1, <2>2 DEF LinuxEntries, InUse, Names
<1>4. ASSUME LinuxParts # {}
      PROVE  Names("mbr", contents.mbr[Lowest(LinuxParts)].lba)
  <2>1. Lowest(LinuxParts) \in LinuxParts
    BY <1>2, <1>4, LowestIn
  <2>2. PICK i : i = Lowest(LinuxParts)
    OBVIOUS
  <2> QED
    BY <2>1, <2>2 DEF LinuxParts, InUse, Names
<1> QED
  BY <1>3, <1>4

\* The invariant of the start holds when the firmware calls the loader.
LEMMA BootInvInit ==
  ASSUME BootInit
  PROVE  BootInv
<1>1. stage = "start" /\ attempt = 0 /\ changes = 0 /\ refusals = 0
      /\ mounted = None /\ part = "gpt" /\ contents = NoTables /\ Tries \in Nat
  BY BootConstants DEF BootInit, ConstantsOK
<1> QED
  BY <1>1 DEF BootInv, Retries, Selected, Exhausted, Known, GivesUpForCause

\* The loader and the firmware neither mount nor look at a disk.
LEMMA LoaderStep ==
  ASSUME BootInv, Loader \/ MapChanges
  PROVE  BootInv'
<1> USE DEF Goto
<1>1. Tries \in Nat
  BY BootConstants DEF ConstantsOK
<1>2. /\ UNCHANGED <<devices, contents, part, found, misread, mounted>>
      /\ stage \in {"start", "load", "screen", "size", "map", "info", "key", "exit"}
      /\ stage' \in {"start", "load", "screen", "size", "map", "info", "key", "exit",
                     "kernel", "returned", "halted"}
  BY DEF Loader, Reserve, LoadKernel, SetScreen,
         AllocateMap, GetMap, FillInfo, GetKey,
         ExitBootServices, MapChanges, storage
<1>3. Selected' /\ Known'
  BY <1>2 DEF BootInv, Selected, Known, Named, Names, Exhausted
<1>4. Retries' /\ GivesUpForCause'
  <2> USE <1>1 DEF BootInv, Retries, GivesUpForCause, loader, history
  <2>1. CASE Reserve \/ LoadKernel \/ SetScreen
    BY <2>1 DEF Reserve, LoadKernel, SetScreen
  <2>2. CASE AllocateMap
    BY <2>2 DEF AllocateMap
  <2>3. CASE GetMap
    BY <2>3 DEF GetMap
  <2>4. CASE FillInfo
    BY <2>4 DEF FillInfo
  <2>5. CASE GetKey
    BY <2>5 DEF GetKey
  <2>6. CASE ExitBootServices
    BY <2>6 DEF ExitBootServices
  <2>7. CASE MapChanges
    BY <2>7 DEF MapChanges
  <2> QED
    BY <2>1, <2>2, <2>3, <2>4, <2>5, <2>6, <2>7 DEF Loader
<1> QED
  BY <1>3, <1>4 DEF BootInv

\* Of the kernel's steps only the lookups choose, and only Mount mounts.
LEMMA KernelStep ==
  ASSUME BootInv, Kernel \/ Shell
  PROVE  BootInv'
<1> USE DEF Goto, Runs, loader, history, storage
<1>1. /\ Tries \in Nat /\ attempt' \in {0, attempt} /\ changes' \in {0, changes}
      /\ refusals' \in {0, refusals}
      /\ stage \notin {"key", "exit", "halted"} /\ stage' \notin {"key", "exit", "halted"}
  BY BootConstants DEF ConstantsOK, Kernel, Shell, Start, AhciInit,
         NoNvme, NvmeSubmit, NvmeDone, NvmeRefused,
         FindGpt, FindMbr, FindRaw, Found, NotFound,
         DivideError, NoDisk, Mount
<1>2. Retries' /\ GivesUpForCause'
  <2>1. attempt' \in Nat /\ changes' \in 0 .. Tries /\ refusals' \in Nat
    BY <1>1 DEF BootInv, Retries
  <2> QED
    BY <1>1, <2>1 DEF Retries, GivesUpForCause
<1>3. Selected' /\ Known'
  <2>1. CASE Start \/ NoNvme \/ NvmeSubmit \/ NvmeRefused \/ DivideError \/ NoDisk \/ Shell
    <3>1. /\ UNCHANGED <<devices, contents, part, found, misread, mounted>>
          /\ stage \in {"kernel", "nvme", "waiting", "find"} \/ stage' = "shell"
          /\ stage' # "mount"
          /\ stage' \in {"find", "enter", "shell", "exception"}
             \/ stage \notin {"find", "mount", "enter", "shell", "exception"}
      BY <2>1 DEF Start, NoNvme, NvmeSubmit, NvmeRefused, DivideError, NoDisk, Shell
    <3> QED
      BY <3>1 DEF BootInv, Selected, Known, Named, Names, Exhausted
  <2>2. CASE AhciInit \/ NvmeDone
    <3>1. /\ UNCHANGED <<part, misread, mounted>> /\ stage \in {"ahci", "waiting"}
          /\ stage' \in {"nvme", "find"} /\ contents' \in Disks \cup {contents}
      BY <2>2 DEF AhciInit, NvmeDone
    <3> QED
      BY <3>1 DEF BootInv, Selected, Known, Exhausted
  <2>3. CASE FindGpt \/ FindMbr \/ FindRaw
    <3>1. /\ UNCHANGED <<devices, contents, part, misread, mounted>>
          /\ devices # << >> /\ stage = "find" /\ stage' = "mount"
      BY <2>3 DEF FindGpt, FindMbr, FindRaw, Found
    <3>2. Names(part, found') /\ part \in {"gpt", "mbr", "raw"}
      <4>1. CASE FindGpt
        BY <4>1, ChosenNamed DEF BootInv, FindGpt, Found
      <4>2. CASE FindMbr
        BY <4>2, ChosenNamed DEF BootInv, FindMbr, Found
      <4>3. CASE FindRaw
        BY <4>3 DEF FindRaw, Found, Names
      <4> QED
        BY <2>3, <4>1, <4>2, <4>3
    <3>3. (Named(found))'
      BY <3>1, <3>2 DEF BootInv, Selected, Named, Names, Exhausted
    <3> QED
      BY <3>1, <3>3 DEF BootInv, Selected, Known, Exhausted
  <2>4. CASE NotFound
    <3>1. /\ UNCHANGED <<devices, contents, mounted>> /\ stage = "find" /\ stage' = "find"
          /\ part # "none" /\ part' = NextTable /\ misread \subseteq misread'
          /\ Linux(part) => part \in misread'
      BY <2>4 DEF NotFound
    <3>2. Exhausted(part)'
      BY <3>1 DEF BootInv, Selected, Exhausted, NextTable, Linux, LinuxEntries, LinuxParts, InUse
    <3>3. part' \in {"gpt", "mbr", "raw", "none"}
      BY <3>1 DEF BootInv, Selected, NextTable
    <3> QED
      BY <3>1, <3>2, <3>3 DEF BootInv, Selected, Known
  <2>5. CASE Mount
    <3>1. /\ UNCHANGED <<devices, contents, part, misread>>
          /\ stage = "mount" /\ stage' = "enter"
          /\ \/ found \in contents.ext4 /\ mounted' = found
             \/ UNCHANGED mounted
      BY <2>5 DEF Mount
    <3>2. CASE UNCHANGED mounted
      BY <3>1, <3>2 DEF BootInv, Selected, Known, Exhausted
    <3>3. CASE found \in contents.ext4 /\ mounted' = found
      <4>1. Named(mounted)'
        BY <3>1, <3>3 DEF BootInv, Selected, Named, Names, Exhausted
      <4> QED
        BY <3>1, <3>3, <4>1 DEF BootInv, Selected, Known, Exhausted
    <3> QED
      BY <3>1, <3>2, <3>3
  <2> QED
    BY <2>1, <2>2, <2>3, <2>4, <2>5 DEF Kernel
<1> QED
  BY <1>2, <1>3 DEF BootInv

\* The invariant of the start is inductive.
LEMMA BootInvStep ==
  ASSUME BootInv, [BootNext]_bootVars
  PROVE  BootInv'
<1>1. CASE UNCHANGED bootVars
  BY <1>1 DEF bootVars, BootInv, Retries, Selected, Named, Names, Exhausted, InUse, Known,
              GivesUpForCause
<1> QED
  BY <1>1, LoaderStep, KernelStep DEF BootNext

\* The loader stops before the kernel only when the memory map has outgrown its
\* buffer or changed as often as the loader tries, for any number of tries.
THEOREM LoaderPersists == BootSpec => []GivesUpForCause
<1>1. BootInv => GivesUpForCause
  BY DEF BootInv
<1> QED
  BY <1>1, BootInvInit, BootInvStep, PTL DEF BootSpec

\* What is mounted has a superblock and is named by a table in use, whatever the
\* disks hold and whichever of the reads fail.
THEOREM RightPartition == BootSpec => []MountedNamed
<1>1. BootInv => MountedNamed
  BY SelectedNamed DEF BootInv
<1> QED
  BY <1>1, BootInvInit, BootInvStep, PTL DEF BootSpec
=============================================================================
