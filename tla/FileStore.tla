------------------------------ MODULE FileStore ------------------------------
(***************************************************************************)
(* What ext4_write_file promises to the one that calls it, with no word of *)
(* inodes, bitmaps or blocks on a disk.                                    *)
(*                                                                         *)
(*   - Only the file that a call names can change while the call runs.     *)
(*   - A call that returns 1 leaves that file holding exactly what was     *)
(*     written.                                                            *)
(*   - A call that needs more room than the file has is atomic: until it   *)
(*     is over, also if it fails or the machine stops in the middle, the   *)
(*     file holds what it held (a new file: it is there and empty).        *)
(*   - Only a call that fits in the room the file already has can leave a  *)
(*     mixture of old and new behind when it is cut short.                 *)
(***************************************************************************)
EXTENDS Naturals

CONSTANTS
  Paths,      \* names of files
  Contents,   \* what can be written
  Need,       \* Need[c]: the room content c takes
  Whole,      \* Whole[c]: what a file reads as that holds exactly c
  Absent,     \* what a file reads as that does not exist
  Empty       \* what a file reads as that exists and holds nothing

VARIABLES
  file,       \* what each file reads as
  room,       \* how much can be written to it in place
  busy,       \* the call in progress, <<path, content>>, or <<>>
  result      \* what the last call returned; "crash": it did not return

vars == <<file, room, busy, result>>

Init == busy = <<>> /\ result = "none"

Over(r) == busy' = <<>> /\ result' = r
Others(p) == \A q \in Paths \ {p} : file'[q] = file[q] /\ room'[q] = room[q]

Begin(p, c) ==
  /\ busy = <<>> /\ busy' = <<p, c>> /\ result' = "none"
  /\ UNCHANGED <<file, room>>

\* The call goes on, or it fails because the device said so.
OnOrFailed == UNCHANGED <<busy, result>> \/ Over("failed")

Create(p, c) ==
  /\ busy = <<p, c>> /\ file[p] = Absent
  /\ file'[p] = Empty /\ Others(p)
  /\ OnOrFailed

Overwrite(p, c) ==
  /\ busy = <<p, c>> /\ Need[c] <= room[p]
  /\ file'[p] # Absent /\ room'[p] = room[p] /\ Others(p)
  /\ OnOrFailed

Commit(p, c) ==
  /\ busy = <<p, c>> /\ file[p] # Absent
  /\ file'[p] = Whole[c] /\ room'[p] >= Need[c] /\ Others(p)
  /\ Over("ok") \/ Over("failed")

GiveUp(p, c) ==
  /\ busy = <<p, c>>
  /\ Over("failed") \/ Over("crash")
  /\ UNCHANGED <<file, room>>

Next == \E p \in Paths, c \in Contents :
          \/ Begin(p, c) \/ Create(p, c) \/ Overwrite(p, c)
          \/ Commit(p, c) \/ GiveUp(p, c)

Spec == Init /\ [][Next]_vars
=============================================================================
