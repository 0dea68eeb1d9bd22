------------------------------ MODULE BlockDev ------------------------------
(***************************************************************************)
(* What a BlockDevice promises to the file system above it (the read and   *)
(* write functions of drivers/storage/block.h): one call at a time; a call *)
(* that returns 1 has moved the block; one that returns 0 may have moved   *)
(* it or not, and has touched nothing else.  That a call returns at all is *)
(* not part of it.                                                         *)
(***************************************************************************)
CONSTANTS Lbas, Values

VARIABLES
  disk,     \* what each block holds
  buf,      \* the caller's buffer
  req,      \* the call in progress, a set of at most one request
  result    \* what the last call returned

vars == <<disk, buf, req, result>>

Request == [w : {0, 1}, lba : Lbas, val : Values]

Init == req = {} /\ result = "none"

Start(r) == /\ req = {} /\ req' = {r} /\ result' = "none"
            /\ UNCHANGED disk

Moved(r) == IF r.w = 1 THEN disk[r.lba] = r.val ELSE buf = disk[r.lba]

Move(r) ==
  /\ req = {r} /\ UNCHANGED <<req, result>>
  /\ \/ r.w = 1 /\ disk' = [disk EXCEPT ![r.lba] = r.val] /\ UNCHANGED buf
     \/ r.w = 0 /\ buf' = disk[r.lba] /\ UNCHANGED disk

Return(r) ==
  /\ req = {r} /\ req' = {} /\ UNCHANGED <<disk, buf>>
  /\ \/ Moved(r) /\ result' = "ok"
     \/ result' = "failed"

Next == \E r \in Request : Start(r) \/ Move(r) \/ Return(r)

Spec == Init /\ [][Next]_vars
=============================================================================
