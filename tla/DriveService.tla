---------------------------- MODULE DriveService ----------------------------
(***************************************************************************)
(* The drive emulator used with care implements DiskService.  With care:   *)
(*   - the user opens the menu only while no command is under way, and     *)
(*     changes disks only in the drive in use, or while the last drive     *)
(*     used is empty, or by the menu's exchange with drive 1 while that is *)
(*     the drive in use ("Fire: Put this disk in ...");                    *)
(*   - the Atari does not write to a disk that is reported protected.      *)
(* Without the first, the globals describe another disk than the one       *)
(* served (run drive_stale); without the second, headers are overwritten   *)
(* (run drive_protect).                                                    *)
(***************************************************************************)
EXTENDS DriveEmulator, FiniteSets

\* Nothing that is in use is described by the globals.
OpenDriveEmpty == \A d \in Drive : opendrive = d => drives[d] = NoFile

CarefulMenu(d) == pc = "idle" /\ (OpenDriveEmpty \/ opendrive = d)
CarefulSwap(d) ==
  pc = "idle" /\ (OpenDriveEmpty \/ opendrive = 0 \/ (opendrive = d /\ drives[0] = NoFile))

CarefulActions ==
  \/ \E d \in Drive :
       \/ CarefulMenu(d) /\ \E i \in Image \cup {NoImage} : MenuSelect(d, i)
       \/ CarefulMenu(d) /\ MenuRemove(d)
       \/ CarefulSwap(d) /\ MenuSwap(d)
  \/ pc = "idle" /\ (PullCard \/ CardRemoved \/ CardInserted)
  \/ pc \notin {"hung", "lost"} /\ Hang

CarefulHandle ==
  \/ HandleGetStatus(cmd.drive)
  \/ HandleReadPercomBlock(cmd.drive)
  \/ HandleFormat(cmd.drive)
  \/ \E s \in Sector : \/ HandleSpeed(cmd.drive, s)
                       \/ HandleRead(cmd.drive, s)
                       \/ ~Opened(cmd.drive).geom.wp /\ HandleWrite(cmd.drive, s)

CarefulNext == CarefulActions \/ ProcessCommand \/ CarefulHandle \/ Transfer

CarefulSpec == Init /\ [][CarefulNext]_vars

-----------------------------------------------------------------------------
(* The mapping to DiskService.                                              *)

\* Where image i keeps sector s: after the sectors before it, of which the
\* first three have 128 bytes, clipped to the file.  What a loader makes up is
\* in no file, and an ATX is located by its track table.
SectorBytes(i, s) == IF s <= 3 THEN 128 ELSE Home(i).secSize

Starts(i, s) ==
  Home(i).offset + 128 * Cardinality({t \in 1 .. s - 1 : t <= 3})
                 + Home(i).secSize * Cardinality({t \in 1 .. s - 1 : t > 3})

HomePlace(i, s) ==
  CASE Home(i).loader = 0 -> <<Seek(i, Starts(i, s)), SectorBytes(i, s), NoImage>>
    [] Home(i).loader = 1 -> <<Seek(i, 125 * (s - 369)), 125, NoImage>>
    [] OTHER              -> <<0, 0, i>>

Disks == [d \in Drive |-> IF drives[d] = NoFile THEN NoImage ELSE content[drives[d]]]

Accesses ==
  IF io.op \in {"read", "write", "loader", "atx"} /\ io.image # NoImage
  THEN {[drive |-> io.drive, disk |-> io.image, sector |-> io.sector,
         place |-> <<io.loc, io.len, io.via>>]}
  ELSE {}

Service == INSTANCE DiskService
  WITH Disk <- Image, NoDisk <- NoImage, Place <- HomePlace,
       inserted <- Disks, served <- Accesses

\* Used with care, the emulator serves every read and write from the disk in
\* the addressed drive, at the place where that disk has the sector.
ServesDisks == Service!Spec

\* Used with care, the one set of geometry globals always fits the open drive.
AlwaysFits == FitsOpenDrive

\* Used with care, nothing the handlers put through atari_sector_buffer is
\* longer than the buffer: the sector size comes from the image's header.
TransferFitsBuffer == io.bytes <= 256 /\ rx.len <= 256

\* A header that claims no more than the file has, of a kind that can be formatted.
Truthful(i) == Home(i).offset + 16 * Home(i).pars <= Size[i]

\* Used with care, a format of an image leaves its header alone, and writes no
\* byte behind the end of the file, unless the header claims more paragraphs
\* than the file has: then it does, for it never looks at the file's size.
FormatStaysInside ==
  io.op = "format" /\ io.image # NoImage =>
    /\ io.loc >= Home(io.image).offset
    /\ Truthful(io.image) => io.loc + io.len <= Size[io.image]

\* Used with care, no handler ever runs without a file.
NeverNullFile == ~io.null

\* Used with care, and with images whose sectors have two bytes or more, a
\* format comes to an end: its last loop counts up to the sector size it finds
\* in the globals.
NeverRunsAway == (\A i \in Image : Home(i).secSize >= 2) => pc # "lost"
=============================================================================
