----------------------------- MODULE FileLayer -----------------------------
(***************************************************************************)
(* The file layer of the firmware: simplefile on top of Petit FatFs        *)
(* (fat/pff_file.c, fat/pff.c) on top of a cache of one sector             *)
(* (sd_direct/diskio_mmc.c) on top of the card (sd_direct/mmc2.c).         *)
(*                                                                         *)
(* The cache holds the one sector that was read last; a write changes it   *)
(* and remembers, in write_pending, the number of that sector within the   *)
(* file.  Whatever reads another sector in between takes the buffer away.  *)
(*                                                                         *)
(* A file's clusters are numbered along its chain, and a sector of the     *)
(* card is <<file, sector in the file>> or one of Boot, Dir and Fat.  The  *)
(* loops of pf_read and file_write take one step per sector, so that the   *)
(* power may fail, or the card go, between two sectors.                    *)
(***************************************************************************)
EXTENDS Integers, FiniteSets

CONSTANTS
  Handle,       \* the SimpleFile structs
  File,         \* the files on the card
  NoFile,       \* a handle whose path is empty; no file, no handle
  Bytes,        \* File -> its size
  ReadOnlyFile, \* File -> the read-only attribute of the directory entry
  Byte,         \* the values of a byte that are written
  OldByte,      \* what the sectors of the files hold at first
  MetaByte,     \* what the sectors of the file system hold
  SecSize,      \* bytes in a sector: 512
  csize,        \* sectors in a cluster
  Offset,       \* the offsets callers seek
  Count,        \* how many bytes they read or write at once
  MaxWritten    \* bound: no write starts with more bytes of the files changed

ASSUME FileAssumption ==
  /\ NoFile \notin Handle /\ NoFile \notin File
  /\ SecSize \in Nat \ {0, 1} /\ csize \in Nat \ {0}
  /\ Offset \subseteq Nat /\ Count \subseteq Nat \ {0} /\ MaxWritten \in Nat
  /\ Bytes \in [File -> Nat \ {0}]
  /\ ReadOnlyFile \in [File -> BOOLEAN]
  /\ File \cap {"Fat", "Dir", "Boot"} = {}
  /\ MetaByte \notin Byte \cup {OldByte}

FA_OPENED == 1
NotMounted == -1      \* FatFs is 0: no card was mounted since the power came

Fat  == <<"Fat", 0>>
Dir  == <<"Dir", 0>>
Boot == <<"Boot", 0>>
Meta == {Boot, Dir, Fat}

Sectors(f) == 0 .. (Bytes[f] - 1) \div SecSize
DataLba    == UNION {{f} \X Sectors(f) : f \in File}
Lba        == DataLba \cup Meta
Data       == [0 .. SecSize - 1 -> Byte \cup {OldByte, MetaByte}]
Cluster    == [file : File \cup {NoFile}, index : Int]
DataSector == ((File \cup {NoFile}) \X Int) \cup Meta
FatFs      == [flag : {NotMounted, 0, FA_OPENED}, file : File \cup {NoFile}, fptr : Nat,
               curr_clust : Cluster, dsect : DataSector]

VARIABLES
  \* the card and its slot
  card,          \* sector -> its bytes
  slot,          \* "ready", "out", or "cold": back in, but not initialised
  sd_present,    \* what actions() knows of the slot
  \* diskio_mmc.c
  cache,         \* [lba, data, hung]: n_actual_mmc_sector, mmc_sector_buffer
                 \* and whether mmcReadCached spins for ever
  \* pff_file.c
  path,          \* Handle -> the file its path names; NoFile: empty, read-only
  openfile,      \* the handle pf_open was called for last
  write_pending, \* the sector of the file that waits in the cache, or -1
  \* pff.c
  fatfs,         \* [flag, file, fptr, curr_clust, dsect]
  \* the call in progress
  call,          \* [op, rem, byte]: "idle", "read" or "write", bytes left
  got            \* [file, pos, bytes]: the bytes the last step gave a reader

diskVars == <<card, slot, sd_present>>
vars == <<card, slot, sd_present, cache, path, openfile, write_pending, fatfs, call, got>>

Idle    == [op |-> "idle", rem |-> 0, byte |-> MetaByte]
Nothing == [file |-> NoFile, pos |-> 0, bytes |-> <<>>]

\* The power is on and dir_init has mounted the card.
Mounted == [lba |-> Boot, data |-> [i \in 0 .. SecSize - 1 |-> MetaByte], hung |-> FALSE]
Closed  == [flag |-> 0, file |-> NoFile, fptr |-> 0,
            curr_clust |-> [file |-> NoFile, index |-> 0], dsect |-> Boot]

Init ==
  /\ card = [l \in Lba |->
               [i \in 0 .. SecSize - 1 |-> IF l \in DataLba THEN OldByte ELSE MetaByte]]
  /\ slot = "ready" /\ sd_present = TRUE
  /\ cache = Mounted
  /\ path = [h \in Handle |-> NoFile]
  /\ openfile = NoFile
  /\ write_pending = -1
  /\ fatfs = Closed
  /\ call = Idle
  /\ got = Nothing
-----------------------------------------------------------------------------
(* The cache.                                                              *)

\* mmcReadCached on a card that holds crd.  A card that does not answer is
\* asked 256 times, and then the loop never ends.
Cached(c, crd, l) ==
  IF c.hung \/ c.lba = l THEN c
  ELSE IF slot = "ready" THEN [lba |-> l, data |-> crd[l], hung |-> FALSE]
  ELSE [c EXCEPT !.hung = TRUE]

\* file_write_flush: mmcWrite reports success even if no card takes the data.
FlushedMutant == card
Flushed == IF write_pending >= 0 /\ slot = "ready"
           THEN [card EXCEPT ![cache.lba] = cache.data] ELSE card

\* disk_writep
Patched(data, pos, n, b) == [i \in DOMAIN data |-> IF i \in pos .. pos + n - 1 THEN b ELSE data[i]]
-----------------------------------------------------------------------------
(* Petit FatFs.  A state of the library is a record [fs, cache].           *)

SectorAt(p)  == p \div SecSize
ClusterAt(p) == SectorAt(p) \div csize        \* p / bcs
SectorIn(c, p) == <<c.file, c.index * csize + (SectorAt(p) % csize)>>
Lesser(a, b) == IF a <= b THEN a ELSE b

\* pf_open on the root directory; an empty path is a directory, and leaves no
\* file open.  No handle names a file before a card was mounted.
Opened(fs, c, crd, f) ==
  IF f = NoFile THEN [fs |-> [fs EXCEPT !.flag = Lesser(@, 0)], cache |-> c]
  ELSE [fs |-> [fs EXCEPT !.flag = FA_OPENED, !.file = f, !.fptr = 0], cache |-> Cached(c, crd, Dir)]

\* pf_lseek: to the same or a following cluster from the current one, or else
\* from the first.
Onward(fs, ofs) == fs.fptr > 0 /\ ClusterAt(ofs - 1) >= ClusterAt(fs.fptr - 1)

FirstCluster(fs) == [file |-> fs.file, index |-> 0]

Sought(fs, c, crd, o) ==
  LET ofs   == Lesser(o, Bytes[fs.file])
      start == IF Onward(fs, ofs) THEN fs.curr_clust ELSE FirstCluster(fs)
      links == ClusterAt(ofs - 1) - (IF Onward(fs, ofs) THEN ClusterAt(fs.fptr - 1) ELSE 0)
      clst  == [start EXCEPT !.index = @ + links]
  IN IF fs.flag # FA_OPENED THEN [fs |-> fs, cache |-> c]
     ELSE IF ofs = 0 THEN [fs |-> [fs EXCEPT !.fptr = 0], cache |-> c]
     ELSE [fs    |-> [fs EXCEPT !.fptr = ofs, !.curr_clust = clst, !.dsect = SectorIn(clst, ofs)],
           cache |-> IF links > 0 THEN Cached(c, crd, Fat) ELSE c]

Crossing(p) == p % SecSize = 0 /\ SectorAt(p) % csize = 0

ClusterToReadMutant(fs) ==
  IF fs.fptr = 0 THEN FirstCluster(fs)
  ELSE [fs.curr_clust EXCEPT !.index = @ + 1]

ClusterToRead(fs) ==
  IF ~Crossing(fs.fptr) THEN fs.curr_clust
  ELSE IF fs.fptr = 0 THEN FirstCluster(fs)
  ELSE [fs.curr_clust EXCEPT !.index = @ + 1]

\* One turn of pf_read's loop: n bytes that lie in one sector.
ReadOn(fs, c, crd, n) ==
  LET clst == ClusterToRead(fs)
      sect == IF fs.fptr % SecSize = 0 THEN SectorIn(clst, fs.fptr) ELSE fs.dsect
      link == IF Crossing(fs.fptr) /\ fs.fptr # 0 THEN Cached(c, crd, Fat) ELSE c
  IN [fs    |-> [fs EXCEPT !.fptr = @ + n, !.curr_clust = clst, !.dsect = sect],
      cache |-> Cached(link, crd, sect)]
-----------------------------------------------------------------------------
(* pff_file.c.                                                             *)

\* The outcome r of a call into the library; if the cache is stuck, nothing
\* after it runs.
Ends(r) == /\ cache' = r.cache
           /\ fatfs' = IF r.cache.hung THEN fatfs ELSE r.fs

\* file_check_open after file_write_flush, or the flush it makes itself
Ready(h) == IF openfile = h THEN [fs |-> fatfs, cache |-> cache]
            ELSE Opened(fatfs, cache, Flushed, path[h])

Alive == ~cache.hung
Free  == Alive /\ call.op = "idle"

\* file_open_dir, for the entry of f that the menu has listed
file_open_dir(h, f) ==
  /\ Free /\ sd_present
  /\ card' = Flushed /\ write_pending' = -1
  /\ LET r == Opened(fatfs, cache, Flushed, f) IN
       /\ Ends(r)
       /\ openfile' = IF r.cache.hung THEN openfile ELSE h
  /\ path' = [path EXCEPT ![h] = f]
  /\ got' = Nothing
  /\ UNCHANGED <<slot, sd_present, call>>

\* file_init: a disk or cartridge is removed in the menu
file_init(h) ==
  /\ Free
  /\ path' = [path EXCEPT ![h] = NoFile]
  /\ got' = Nothing
  /\ UNCHANGED <<diskVars, cache, openfile, write_pending, fatfs, call>>

\* dir_entries_filtered and pf_opendir read the directory, if a card was ever
\* mounted: load_roms calls them without a look at sd_present.
dir_entriesMutant ==
  /\ Free
  /\ cache' = IF fatfs.flag = NotMounted THEN cache ELSE Cached(cache, card, Dir)
  /\ got' = Nothing
  /\ UNCHANGED <<diskVars, path, openfile, write_pending, fatfs, call>>

dir_entries ==
  /\ Free
  /\ card' = Flushed /\ write_pending' = -1
  /\ cache' = IF fatfs.flag = NotMounted THEN cache ELSE Cached(cache, Flushed, Dir)
  /\ got' = Nothing
  /\ UNCHANGED <<slot, sd_present, path, openfile, fatfs, call>>

\* The number of the sector that waits is compared with an offset in bytes, so
\* that the flush is skipped if they happen to be equal; file_check_open makes
\* up for it if the handle is another.
KeepsMutant(h, o) == openfile = h
Keeps(h, o) == openfile = h /\ (write_pending < 0 \/ write_pending = o)

file_seek(h, o) ==
  LET crd  == IF Keeps(h, o) THEN card ELSE Flushed
      open == Ready(h)
      r    == Sought(open.fs, open.cache, crd, o)
  IN /\ Free
     /\ card' = crd
     /\ write_pending' = IF Keeps(h, o) THEN write_pending ELSE -1
     /\ Ends(r)
     /\ openfile' = IF r.cache.hung THEN openfile ELSE h
     /\ got' = Nothing
     /\ UNCHANGED <<slot, sd_present, path, call>>

\* file_read up to the loop of pf_read.  No caller reads at a position that a
\* write has left beyond the end.
file_read(h, n) ==
  LET r    == Ready(h)
      left == IF r.fs.flag = FA_OPENED THEN Lesser(n, Bytes[r.fs.file] - r.fs.fptr) ELSE 0
  IN /\ Free
     /\ left >= 0
     /\ card' = Flushed /\ write_pending' = -1
     /\ Ends(r)
     /\ openfile' = IF r.cache.hung THEN openfile ELSE h
     /\ call' = IF left > 0 THEN [op |-> "read", rem |-> left, byte |-> MetaByte] ELSE call
     /\ got' = Nothing
     /\ UNCHANGED <<slot, sd_present, path>>

PieceMutant == SecSize - (fatfs.fptr % SecSize)

\* the bytes of a transfer of rem that still fit in the sector of fptr
Piece == Lesser(call.rem, SecSize - (fatfs.fptr % SecSize))

After(n) == IF call.rem = n THEN Idle ELSE [call EXCEPT !.rem = @ - n]

pf_read ==
  /\ Alive /\ call.op = "read"
  /\ LET r == ReadOn(fatfs, cache, card, Piece) IN
       /\ Ends(r)
       /\ got' = IF r.cache.hung THEN Nothing
                 ELSE [file |-> fatfs.file, pos |-> fatfs.fptr,
                       bytes |-> [i \in 1 .. Piece |-> r.cache.data[(fatfs.fptr % SecSize) + i - 1]]]
  /\ call' = After(Piece)
  /\ UNCHANGED <<diskVars, path, openfile, write_pending>>

Written == {x \in DataLba \X (0 .. SecSize - 1) : card[x[1]][x[2]] \in Byte}

\* file_write up to its loop; a read-only handle fails before that.
file_write(h, n, b) ==
  /\ Free
  /\ Cardinality(Written) <= MaxWritten
  /\ path[h] # NoFile /\ ~ReadOnlyFile[path[h]]
  /\ card' = IF openfile = h THEN card ELSE Flushed
  /\ write_pending' = IF openfile = h THEN write_pending ELSE -1
  /\ Ends(Ready(h))
  /\ openfile' = IF Ready(h).cache.hung THEN openfile ELSE h
  /\ call' = [op |-> "write", rem |-> n, byte |-> b]
  /\ got' = Nothing
  /\ UNCHANGED <<slot, sd_present, path>>

\* The sector of fptr is brought into the cache by reading a byte of it.  At
\* or after the end of the file there is no byte to read.
Fetched(crd) ==
  LET r == Sought(fatfs, cache, crd, fatfs.fptr - (fatfs.fptr % SecSize))
      s == IF r.fs.flag = FA_OPENED /\ r.fs.fptr < Bytes[r.fs.file] THEN ReadOn(r.fs, r.cache, crd, 1) ELSE r
  IN [s EXCEPT !.fs.fptr = r.fs.fptr + (fatfs.fptr % SecSize)]

\* One turn of file_write's loop.
file_write_sector ==
  LET sector == SectorAt(fatfs.fptr)
      same   == sector = write_pending
      crd    == IF same THEN card ELSE Flushed
      r      == IF same THEN [fs |-> fatfs, cache |-> cache] ELSE Fetched(crd)
      pos    == fatfs.fptr % SecSize
  IN /\ Alive /\ call.op = "write"
     /\ card' = crd
     /\ cache' = IF r.cache.hung THEN r.cache
                 ELSE [r.cache EXCEPT !.data = Patched(@, pos, Piece, call.byte)]
     /\ fatfs' = IF r.cache.hung THEN fatfs ELSE [r.fs EXCEPT !.fptr = @ + Piece]
     /\ write_pending' = IF r.cache.hung THEN -1 ELSE sector
     /\ call' = After(Piece)
     /\ got' = Nothing
     /\ UNCHANGED <<slot, sd_present, path, openfile>>

\* file_write_flush, called at the end of a format
file_write_flush ==
  /\ Free
  /\ card' = Flushed /\ write_pending' = -1
  /\ got' = Nothing
  /\ UNCHANGED <<slot, sd_present, cache, path, openfile, fatfs, call>>
-----------------------------------------------------------------------------
(* The slot, and actions() of mainmenu.c that polls it.                    *)

Pull ==
  /\ slot # "out"
  /\ slot' = "out"
  /\ got' = Nothing
  /\ UNCHANGED <<card, sd_present, cache, path, openfile, write_pending, fatfs, call>>

Insert ==
  /\ slot = "out"
  /\ slot' = "cold"
  /\ got' = Nothing
  /\ UNCHANGED <<card, sd_present, cache, path, openfile, write_pending, fatfs, call>>

\* The card is seen to be gone: all files are initialised, and that is all.
NoticeRemovalMutant ==
  /\ Free
  /\ sd_present /\ slot = "out"
  /\ sd_present' = FALSE
  /\ got' = Nothing
  /\ UNCHANGED <<card, slot, cache, path, openfile, write_pending, fatfs, call>>

NoticeRemoval ==
  /\ Free
  /\ sd_present /\ slot = "out"
  /\ sd_present' = FALSE
  /\ path' = [h \in Handle |-> NoFile]
  /\ got' = Nothing
  /\ UNCHANGED <<card, slot, cache, openfile, write_pending, fatfs, call>>

\* dir_init: a sector that still waits is forgotten; openfile stays.  What
\* else fatfs holds is not used before the next pf_open.
dir_init ==
  /\ Free
  /\ ~sd_present /\ slot = "cold"
  /\ slot' = "ready" /\ sd_present' = TRUE
  /\ write_pending' = -1
  /\ cache' = [Mounted EXCEPT !.data = card[Boot]]
  /\ fatfs' = Closed
  /\ got' = Nothing
  /\ UNCHANGED <<card, path, openfile, call>>

\* The power goes and comes back.  Without a card nothing is mounted, but
\* load_roms(0) lists a directory all the same, and the flush in that leaves no
\* sector waiting.
PowerCycle ==
  /\ slot' = IF slot = "out" THEN "out" ELSE "ready"
  /\ sd_present' = (slot # "out")
  /\ cache' = [Mounted EXCEPT !.data = card[Boot]]
  /\ path' = [h \in Handle |-> NoFile]
  /\ openfile' = NoFile
  /\ write_pending' = -1
  /\ fatfs' = IF slot = "out" THEN [Closed EXCEPT !.flag = NotMounted] ELSE Closed
  /\ call' = Idle
  /\ got' = Nothing
  /\ UNCHANGED card
-----------------------------------------------------------------------------
\* The file system is as it was; once it is not, what the firmware reads as
\* a chain or a directory is arbitrary, and the model stops.
Intact == \A m \in Meta : \A i \in 0 .. SecSize - 1 : card[m][i] = MetaByte

Next ==
  /\ Intact
  /\ \/ \E h \in Handle, f \in File : file_open_dir(h, f)
     \/ \E h \in Handle : file_init(h)
     \/ dir_entries
     \/ \E h \in Handle, o \in Offset : file_seek(h, o)
     \/ \E h \in Handle, n \in Count : file_read(h, n)
     \/ pf_read
     \/ \E h \in Handle, n \in Count, b \in Byte : file_write(h, n, b)
     \/ file_write_sector
     \/ file_write_flush
     \/ Pull
     \/ Insert
     \/ NoticeRemoval
     \/ dir_init
     \/ PowerCycle

Spec == Init /\ [][Next]_vars
-----------------------------------------------------------------------------
(* Properties.                                                             *)

TypeOK ==
  /\ card \in [Lba -> Data]
  /\ slot \in {"ready", "out", "cold"} /\ sd_present \in BOOLEAN
  /\ cache \in [lba : Lba, data : Data, hung : BOOLEAN]
  /\ path \in [Handle -> File \cup {NoFile}]
  /\ openfile \in Handle \cup {NoFile}
  /\ write_pending \in Nat \cup {-1}
  /\ fatfs \in FatFs
  /\ call \in [op : {"idle", "read", "write"}, rem : Nat, byte : Byte \cup {MetaByte}]
  /\ fatfs.flag = FA_OPENED => fatfs.file # NoFile

\* pff.c keeps its place in the chain along with the position, through every
\* seek and read and through the seek, read and addition that file_write makes
\* of them.
KnowsPlace(fs) ==
  fs.fptr \in 1 .. Bytes[fs.file] =>
    /\ fs.curr_clust = [file |-> fs.file, index |-> ClusterAt(fs.fptr - 1)]
    /\ fs.fptr % SecSize # 0 => fs.dsect = <<fs.file, SectorAt(fs.fptr)>>

PlaceKept == fatfs.flag = FA_OPENED => KnowsPlace(fatfs)

\* While a sector of the open file waits to be written, nothing that is read
\* takes its buffer away, except the FAT in a seek that forgot to flush.
WaitingSectorStays ==
  write_pending >= 0 =>
    /\ fatfs.flag = FA_OPENED /\ ~ReadOnlyFile[fatfs.file]
    /\ write_pending \in Sectors(fatfs.file) => cache.lba \in {<<fatfs.file, write_pending>>, Fat}

\* With nothing waiting, the cache holds what the card holds: mmcReadCached
\* answers from it whatever happened to the card, the slot or the handles.
CacheIsCard ==
  write_pending < 0 /\ slot = "ready" => cache.data = card[cache.lba]

\* file_check_open takes a handle it has seen last for open.  So it is, after
\* cards were pulled and mounted again: a write through a handle that names a
\* file never goes to a library that has no file open.
LastHandleIsOpen ==
  openfile # NoFile /\ path[openfile] # NoFile /\ Alive =>
    fatfs.flag = FA_OPENED /\ fatfs.file = path[openfile]
-----------------------------------------------------------------------------
(* What the proofs need besides.                                           *)

\* A loop in progress has bytes left and its file open; no sector waits while
\* a file is read.
CallInProgress ==
  Alive =>
    /\ call.op # "idle" => call.rem > 0
    /\ call.op = "read" =>
         /\ fatfs.flag = FA_OPENED /\ fatfs.fptr + call.rem <= Bytes[fatfs.file]
         /\ write_pending = -1
    /\ call.op = "write" =>
         openfile # NoFile /\ path[openfile] # NoFile /\ ~ReadOnlyFile[path[openfile]]

\* Beyond the end of the file the place in the chain is that of the end.
KnowsEnd(fs) ==
  LET end == ClusterAt(Bytes[fs.file] - 1) IN
    fs.fptr > Bytes[fs.file] /\ ClusterAt(fs.fptr - 1) = end =>
      fs.curr_clust = [file |-> fs.file, index |-> end]

PlaceBeyond == fatfs.flag = FA_OPENED => KnowsEnd(fatfs)

\* A write that goes on in the waiting sector finds it by the place kept.
PlaceOfWaiting ==
  fatfs.flag = FA_OPENED /\ write_pending \in Sectors(fatfs.file)
      /\ (write_pending = 0 \/ write_pending = SectorAt(fatfs.fptr)) =>
    /\ fatfs.curr_clust = [file |-> fatfs.file, index |-> write_pending \div csize]
    /\ fatfs.dsect = <<fatfs.file, write_pending>>

\* Without a card known no handle names a file.
NamesOnlyWithCard == ~sd_present => path = [h \in Handle |-> NoFile]

FileInv ==
  /\ TypeOK
  /\ PlaceKept
  /\ WaitingSectorStays
  /\ CacheIsCard
  /\ LastHandleIsOpen
  /\ CallInProgress
  /\ PlaceBeyond
  /\ PlaceOfWaiting
=============================================================================
