-------------------------------- MODULE Ahci --------------------------------
(***************************************************************************)
(* The disk driver, drivers/storage/ahci.c, and the controller it drives.  *)
(* Driver and controller run at the same time and share the registers of   *)
(* the port and the command table in memory, so each access of the driver  *)
(* to a register is a step of its own.  The driver uses command slot 0     *)
(* only and polls.                                                         *)
(*                                                                         *)
(* The controller is external; it does what the driver relies on and what  *)
(* the AHCI specification says of an error: the port stops, and slot 0     *)
(* stays issued, until software clears PxCMD.ST, which this driver never   *)
(* does again.                                                             *)
(***************************************************************************)
EXTENDS Naturals

CONSTANTS
  Lbas,      \* blocks of the disk
  Values,    \* what a block may hold
  Stale,     \* what is in a buffer before it is read into
  MaxCalls   \* bound on the calls of read and write

VARIABLES
  \* the controller
  disk,      \* disk[lba]
  hba,       \* "ready", "exec", "posted" (done, ci not yet clear) or "halted"
  running,   \* the command the controller fetched
  \* registers of the port
  cmd,       \* bits of PxCMD that are 1
  tfes, ci, busy,   \* PxIS.TFES, bit 0 of PxCI, PxTFD.BSY
  base,      \* whose memory PxCLB and PxFB point to
  foreign,   \* the running engines, of CR and FR, that work in the firmware's memory
  \* memory
  header, table,    \* what header 0 and the command table of slot 0 say
  buf,       \* the caller's buffer
  \* the driver
  pc, req, result, calls

port   == <<cmd, tfes, ci, busy, base, foreign>>
memory == <<header, table, buf>>
vars   == <<disk, hba, running, port, memory, pc, req, result, calls>>

Request == [w : {0, 1}, lba : Lbas, val : Values]

ASSUME AhciConstants == Stale \notin Values /\ Lbas # {} /\ Values # {}

Engines == {"CR", "FR"}

\* The firmware may have used the port, and left it running.
Init ==
  /\ disk \in [Lbas -> Values] /\ hba = "ready" /\ running = {}
  /\ cmd \in {{}, {"ST", "CR", "FRE", "FR"}}
  /\ tfes = 0 /\ ci = 0 /\ busy = 0 /\ base = "firmware" /\ foreign = cmd \cap Engines
  /\ header = 0 /\ table = {} /\ buf = Stale
  /\ pc = "stop" /\ req = {} /\ result = "none" /\ calls = 0

Step(from, to) == pc = from /\ pc' = to

-----------------------------------------------------------------------------
(* ahci_port_rebase: stop_cmd, the new bases, start_cmd.                   *)

StopCommands ==
  /\ Step("stop", "stopFis") /\ cmd' = cmd \ {"ST"}
  /\ UNCHANGED <<disk, hba, running, tfes, ci, busy, base, foreign, memory, req,
                 result, calls>>

StopFis ==
  /\ Step("stopFis", "stopping") /\ cmd' = cmd \ {"FRE"}
  /\ UNCHANGED <<disk, hba, running, tfes, ci, busy, base, foreign, memory, req,
                 result, calls>>

\* Mutant: only the command engine is waited for.
RebaseTooEarly ==
  /\ Step("stopping", "startFis") /\ "CR" \notin cmd
  /\ base' = "kernel"
  /\ UNCHANGED <<disk, hba, running, cmd, tfes, ci, busy, foreign, memory, req, result,
                calls>>

\* while (port->cmd & (FR | CR)) {}  and then clb and fb
Rebase ==
  /\ Step("stopping", "startFis") /\ cmd \cap {"FR", "CR"} = {}
  /\ base' = "kernel"
  /\ UNCHANGED <<disk, hba, running, cmd, tfes, ci, busy, foreign, memory, req, result,
                calls>>

\* while (port->cmd & CR) {}
StartFis ==
  /\ Step("startFis", "startCommands") /\ "CR" \notin cmd
  /\ cmd' = cmd \cup {"FRE"}
  /\ UNCHANGED <<disk, hba, running, tfes, ci, busy, base, foreign, memory, req,
                 result, calls>>

StartCommands ==
  /\ Step("startCommands", "idle") /\ cmd' = cmd \cup {"ST"}
  /\ UNCHANGED <<disk, hba, running, tfes, ci, busy, base, foreign, memory, req,
                 result, calls>>

-----------------------------------------------------------------------------
(* ahci_read and ahci_write, which differ in w and in the opcode.          *)

Begin(r) ==
  /\ Step("idle", "clear") /\ calls < MaxCalls
  /\ req' = {r} /\ buf' = Stale /\ result' = "none" /\ calls' = calls + 1
  /\ UNCHANGED <<disk, hba, running, port, header, table>>

\* port->is = -1 clears every bit that was set.
ClearStatus ==
  /\ Step("clear", "header") /\ tfes' = 0
  /\ UNCHANGED <<disk, hba, running, cmd, ci, busy, base, foreign, memory, req, result,
                 calls>>

\* Mutant: the command is issued before its table is written.
WriteHeaderOnly ==
  /\ Step("header", "wait")
  /\ \E r \in req : header' = r.w
  /\ UNCHANGED <<disk, hba, running, port, table, buf, req, result, calls>>

WriteHeader ==
  /\ Step("header", "table")
  /\ \E r \in req : header' = r.w
  /\ UNCHANGED <<disk, hba, running, port, table, buf, req, result, calls>>

WriteTable ==
  /\ Step("table", "wait") /\ table' = req
  /\ UNCHANGED <<disk, hba, running, port, header, buf, req, result, calls>>

\* while (port->tfd & (BSY | DRQ)) {}
WaitIdle ==
  /\ Step("wait", "issue") /\ busy = 0
  /\ UNCHANGED <<disk, hba, running, port, memory, req, result, calls>>

Issue ==
  /\ Step("issue", "pollCi") /\ ci' = 1
  /\ UNCHANGED <<disk, hba, running, cmd, tfes, busy, base, foreign, memory, req,
                 result, calls>>

Return(r) == pc' = "idle" /\ req' = {} /\ result' = r

PollCi ==
  /\ pc = "pollCi"
  /\ \/ ci = 0 /\ Return("ok")
     \/ ci = 1 /\ pc' = "pollIs" /\ UNCHANGED <<req, result>>
  /\ UNCHANGED <<disk, hba, running, port, memory, calls>>

\* Mutants: errors are not looked for; an error counts as the end.
PollIsBlind ==
  /\ pc = "pollIs" /\ pc' = "pollCi"
  /\ UNCHANGED <<disk, hba, running, port, memory, req, result, calls>>
PollIsAnyEnd ==
  /\ pc = "pollIs"
  /\ \/ tfes = 1 /\ Return("ok")
     \/ tfes = 0 /\ pc' = "pollCi" /\ UNCHANGED <<req, result>>
  /\ UNCHANGED <<disk, hba, running, port, memory, calls>>

PollIs ==
  /\ pc = "pollIs"
  /\ \/ tfes = 1 /\ Return("failed")
     \/ tfes = 0 /\ pc' = "pollCi" /\ UNCHANGED <<req, result>>
  /\ UNCHANGED <<disk, hba, running, port, memory, calls>>

-----------------------------------------------------------------------------
(* The controller.                                                         *)

\* CR follows ST and FR follows FRE.  An engine keeps the base that it found when
\* it began to run.
Starts(bit, of) ==
  /\ of \in cmd /\ bit \notin cmd /\ cmd' = cmd \cup {bit}
  /\ foreign' = IF base = "firmware" THEN foreign \cup {bit} ELSE foreign

Stops(bit, of) ==
  /\ of \notin cmd /\ bit \in cmd /\ cmd' = cmd \ {bit}
  /\ foreign' = foreign \ {bit}

EngineFollows ==
  /\ \/ Starts("CR", "ST") \/ Stops("CR", "ST")
     \/ Starts("FR", "FRE") \/ Stops("FR", "FRE")
  /\ UNCHANGED <<disk, hba, running, tfes, ci, busy, base, memory, pc, req, result, calls>>

\* The direction comes from the header, the rest from the table.
Fetch ==
  /\ hba = "ready" /\ ci = 1 /\ {"ST", "CR"} \subseteq cmd
  /\ hba' = "exec" /\ busy' = 1
  /\ running' = {[r EXCEPT !.w = header] : r \in table}
  /\ UNCHANGED <<disk, cmd, tfes, ci, base, foreign, memory, pc, req, result, calls>>

Move(r) ==
  \/ r.w = 1 /\ disk' = [disk EXCEPT ![r.lba] = r.val] /\ UNCHANGED buf
  \/ r.w = 0 /\ buf' = disk[r.lba] /\ UNCHANGED disk

Complete ==
  /\ hba = "exec" /\ hba' = "posted" /\ busy' = 0
  /\ \E r \in running : Move(r)
  /\ UNCHANGED <<running, cmd, tfes, ci, base, foreign, header, table, pc, req, result,
                 calls>>

Post ==
  /\ hba = "posted" /\ hba' = "ready" /\ ci' = 0
  /\ UNCHANGED <<disk, running, cmd, tfes, busy, base, foreign, memory, pc, req,
                 result, calls>>

Error ==
  /\ hba = "exec" /\ hba' = "halted" /\ busy' = 0 /\ tfes' = 1
  /\ \/ \E r \in running : Move(r)
     \/ UNCHANGED <<disk, buf>>
  /\ UNCHANGED <<running, cmd, ci, base, foreign, header, table, pc, req, result, calls>>

Driver     == \/ StopCommands \/ StopFis \/ Rebase \/ StartFis \/ StartCommands
              \/ ClearStatus \/ WriteHeader \/ WriteTable \/ WaitIdle \/ Issue
              \/ PollCi \/ PollIs
Controller == EngineFollows \/ Fetch \/ Complete \/ Post \/ Error

Next == Driver \/ Controller \/ \E r \in Request : Begin(r)

Spec == Init /\ [][Next]_vars

\* The kernel runs nothing but the driver meanwhile; the controller works
\* off what is issued and lets its engines follow the command bits.
Fairness == /\ WF_vars(Driver)
            /\ WF_vars(EngineFollows) /\ WF_vars(Fetch) /\ WF_vars(Post)
            /\ WF_vars(Complete \/ Error)

FairSpec == Spec /\ Fairness

-----------------------------------------------------------------------------
TypeOK ==
  /\ disk \in [Lbas -> Values] /\ buf \in Values \cup {Stale}
  /\ hba \in {"ready", "exec", "posted", "halted"}
  /\ cmd \subseteq {"ST", "CR", "FRE", "FR"}
  /\ {tfes, ci, busy, header} \subseteq {0, 1}
  /\ base \in {"firmware", "kernel"} /\ foreign \subseteq Engines
  /\ \A s \in {running, table, req} : s = {} \/ \E r \in Request : s = {r}
  /\ pc \in {"stop", "stopFis", "stopping", "startFis", "startCommands", "idle",
             "clear", "header", "table", "wait", "issue", "pollCi", "pollIs"}
  /\ result \in {"none", "ok", "failed"}

Polling == pc \in {"pollCi", "pollIs"}
Calling == Polling \/ pc \in {"clear", "header", "table", "wait", "issue"}

\* What the controller executes is the whole of what the caller asked for,
\* never a mixture of two commands, and only while the driver waits for it.
ExecutesRequest == hba \in {"exec", "posted"} => Polling /\ running = req

\* While a call is on its way no engine works in the firmware's memory, neither the
\* one that fetches commands nor the one that receives from the disk: both have
\* stopped, and found the new bases when they came up again (ahci.c:126).
EnginesRehomed == Calling => foreign = {}

\* Every call returns, as long as no command has failed before it.  (After
\* a failed one the port is halted: the next call clears TFES, its issue
\* has no effect, and it polls for ever.)
Wedged == hba = "halted" /\ tfes = 0
CallsReturn == pc # "idle" ~> pc = "idle" \/ Wedged

\* The driver is a BlockDevice: see there for what it promises.
Device == INSTANCE BlockDev
DeviceSpec == Device!Spec
=============================================================================
