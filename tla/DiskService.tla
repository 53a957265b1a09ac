---------------------------- MODULE DiskService ----------------------------
(***************************************************************************)
(* What a set of disk drives promises: each drive holds a disk or none,    *)
(* and a sector asked of a drive is read or written on the disk in that    *)
(* drive, at the place where that disk keeps it.                           *)
(***************************************************************************)
CONSTANTS
  Drive, Disk, NoDisk, Sector,
  Place(_, _)     \* Place(k, s): where disk k keeps sector s

VARIABLES
  inserted,       \* Drive -> the disk in it, or NoDisk
  served          \* the access made by the last step, if any

vars == <<inserted, served>>

Init == inserted = [d \in Drive |-> NoDisk] /\ served = {}

\* The user changes disks.
Change ==
  /\ inserted' \in [Drive -> Disk \cup {NoDisk}]
  /\ served' = {}

\* A request that touches no disk: a status, or one that fails.
NoTouch == served' = {} /\ UNCHANGED inserted

Serve(d, s) ==
  /\ inserted[d] # NoDisk
  /\ served' = {[drive |-> d, disk |-> inserted[d], sector |-> s,
                 place |-> Place(inserted[d], s)]}
  /\ UNCHANGED inserted

Next == Change \/ NoTouch \/ \E d \in Drive, s \in Sector : Serve(d, s)

Spec == Init /\ [][Next]_vars
=============================================================================
