----------------------- MODULE FileRefinement_proofs ------------------------
(***************************************************************************)
(* FileLayer implements FileStore, for any handles and files, and any      *)
(* sizes of files, sectors and clusters.                                   *)
(*                                                                         *)
(* What is read is the card with the cache laid over it (View).  A step    *)
(* either leaves that view as it is, because the cache is filled from the  *)
(* very card that it is laid over (From), or patches the sector that the   *)
(* cache holds, or takes away the cache, when the power goes or when a     *)
(* seek that did not flush reads the FAT.                                  *)
(***************************************************************************)
EXTENDS FileRefinement, FileLayer_proofs

\* Two more facts of the loop that writes: its byte is one that is written,
\* and if it is about to go on in the waiting sector that is the sector in
\* the cache, and not the FAT.  (A seek that did not flush leaves only the
\* first sector where the loop can go on in it.)
LoopWaiting ==
  fatfs.flag = FA_OPENED /\ write_pending \in Sectors(fatfs.file)
      /\ (write_pending = 0 \/ write_pending = SectorAt(fatfs.fptr)) =>
    cache.lba = <<fatfs.file, write_pending>>

LoopInv == (call.op = "write" => call.byte \in Byte) /\ LoopWaiting

\* A cache that was filled from card crd, or is as it was, and does not answer
\* only if no card does.
From(c, crd) ==
  /\ c.hung => slot # "ready"
  /\ \/ c.lba = cache.lba /\ c.data = cache.data
     \/ slot = "ready" /\ c.data = crd[c.lba]

-----------------------------------------------------------------------------
(* Caches that are filled.                                                 *)

LEMMA CachedFrom ==
  ASSUME NEW c \in CacheT, NEW crd \in [Lba -> Data], NEW l \in Lba, From(c, crd)
  PROVE  From(Cached(c, crd, l), crd)
  BY DEF Cached, CacheT, From

LEMMA OpenedFrom ==
  ASSUME NEW fs, NEW c \in CacheT, NEW crd \in [Lba -> Data], NEW f, From(c, crd)
  PROVE  From(Opened(fs, c, crd, f).cache, crd)
<1>1. Dir \in Lba
  BY DEF Lba, Meta
<1> QED BY <1>1, CachedFrom DEF Opened

LEMMA SoughtFrom ==
  ASSUME NEW fs, NEW c \in CacheT, NEW crd \in [Lba -> Data], NEW o, From(c, crd)
  PROVE  From(Sought(fs, c, crd, o).cache, crd)
<1>1. Fat \in Lba
  BY DEF Lba, Meta
<1>2. Sought(fs, c, crd, o).cache \in {c, Cached(c, crd, Fat)}
  BY DEF Sought
<1> QED BY <1>1, <1>2, CachedFrom

LEMMA SectorOnCard ==
  ASSUME NEW f \in File, NEW s \in Sectors(f)
  PROVE  <<f, s>> \in Lba
<1>1. <<f, s>> \in {f} \X Sectors(f)
  OBVIOUS
<1>2. <<f, s>> \in DataLba
  BY <1>1 DEF DataLba
<1> QED BY <1>2 DEF Lba

LEMMA PositionOnCard ==
  ASSUME NEW f \in File, NEW p \in Nat, p < Bytes[f]
  PROVE  SectorAt(p) \in Sectors(f) /\ <<f, SectorAt(p)>> \in Lba
<1>1. p % SecSize \in Nat /\ Bytes[f] \in Nat
  <2>1. p % SecSize \in 0 .. SecSize - 1 /\ SecSize \in Nat
    BY SectorParts, FileAssumption
  <2>2. Bytes[f] \in Nat
    BY FileAssumption
  <2> QED BY <2>1, <2>2
<1>2. p - (p % SecSize) < Bytes[f]
  BY <1>1
<1> QED BY <1>2, SectorsOf, SectorOnCard

LEMMA ReadOnFrom ==
  ASSUME NEW fs, Sound(fs), fs.flag = FA_OPENED, NEW c \in CacheT, NEW crd \in [Lba -> Data],
         NEW n \in Nat \ {0}, (fs.fptr % SecSize) + n <= SecSize,
         fs.fptr < Bytes[fs.file], From(c, crd)
  PROVE  From(ReadOn(fs, c, crd, n).cache, crd)
<1> DEFINE link == IF Crossing(fs.fptr) /\ fs.fptr # 0 THEN Cached(c, crd, Fat) ELSE c
           sect == IF fs.fptr % SecSize = 0 THEN SectorIn(ClusterToRead(fs), fs.fptr) ELSE fs.dsect
           r == ReadOn(fs, c, crd, n)
<1>1. Fat \in Lba
  BY DEF Lba, Meta
<1>2. From(link, crd) /\ link \in CacheT
  BY <1>1, CachedFrom, CachedType
<1>3. r.cache = Cached(link, crd, sect)
  BY DEF ReadOn
<1>4. r.fs.dsect = sect
  BY DEF ReadOn, Sound, FatFs
<1>5. r.fs.dsect = <<fs.file, SectorAt(fs.fptr)>>
  BY ReadOnSound
<1>6. fs.file \in File /\ fs.fptr \in Nat
  BY DEF Sound, FatFs
<1>7. sect \in Lba
  <2>1. <<fs.file, SectorAt(fs.fptr)>> \in Lba
    BY <1>6, PositionOnCard
  <2> HIDE DEF sect, r
  <2> QED BY <2>1, <1>4, <1>5
<1> HIDE DEF link, sect
<1> QED BY <1>2, <1>3, <1>7, CachedFrom

LEMMA CacheFrom ==
  ASSUME FileInv, Alive, NEW crd
  PROVE  cache \in CacheT /\ From(cache, crd)
  BY DEF FileInv, TypeOK, CacheT, From, Alive

LEMMA ReadyFrom ==
  ASSUME FileInv, Alive, NEW h \in Handle
  PROVE  From(Ready(h).cache, Flushed)
  BY CacheFrom, FlushedClean, OpenedFrom DEF Ready

-----------------------------------------------------------------------------
(* What is read.                                                           *)

LEMMA ViewType ==
  ASSUME NEW crd \in [Lba -> Data], NEW c \in CacheT
  PROVE  View(crd, c) \in [Lba -> Data] /\ View(crd, c)[c.lba] = c.data
  BY DEF View, CacheT

\* Filling the cache and flushing it leave the view as it was.
LEMMA SettledView ==
  ASSUME FileInv, NEW c \in CacheT, From(c, Flushed)
  PROVE  View(Flushed, c) = View(card, cache)
<1>1. /\ card \in [Lba -> Data] /\ cache.lba \in Lba /\ cache.data \in Data
      /\ write_pending \in Nat \cup {-1} /\ c.lba \in Lba /\ Flushed \in [Lba -> Data]
  BY FlushedClean DEF FileInv, TypeOK, CacheT
<1>2. CASE write_pending >= 0 /\ slot = "ready"
  <2>1. Flushed = View(card, cache)
    BY <1>2 DEF Flushed, View
  <2>2. Flushed[cache.lba] = cache.data
    BY <1>1, <2>1 DEF View
  <2>3. Flushed[c.lba] = c.data
    BY <2>2 DEF From
  <2>4. View(Flushed, c) = Flushed
    BY <1>1, <2>3 DEF View
  <2> QED BY <2>1, <2>4
<1>3. CASE ~(write_pending >= 0 /\ slot = "ready")
  <2>1. Flushed = card
    BY <1>3 DEF Flushed
  <2>2. CASE c.lba = cache.lba /\ c.data = cache.data
    BY <2>1, <2>2 DEF View
  <2>3. CASE slot = "ready" /\ c.data = card[c.lba]
    <3>1. write_pending < 0 /\ cache.data = card[cache.lba]
      BY <1>1, <1>3, <2>3 DEF FileInv, CacheIsCard
    <3>2. View(card, cache) = card /\ View(card, c) = card
      BY <1>1, <2>3, <3>1 DEF View
    <3> QED BY <2>1, <3>2
  <2> QED BY <2>1, <2>2, <2>3 DEF From
<1> QED BY <1>2, <1>3

LEMMA FlushSettles ==
  ASSUME FileInv
  PROVE  /\ Contents(Flushed) = Durable \/ (CardReady /\ Contents(Flushed) = Now)
         /\ ~CardReady => Contents(Flushed) = Durable
  BY DEF Flushed, View, Now, Durable, CardReady

\* A step that flushes and fills the cache.
LEMMA SettleStep ==
  ASSUME FileInv, card' = Flushed, cache' \in CacheT, From(cache', Flushed)
  PROVE  Now' = Now /\ Store!Settle /\ (~CardReady => Durable' = Durable)
<1>1. Now' = Now
  BY SettledView DEF Now
<1>2. Durable' = Contents(Flushed)
  BY DEF Durable
<1> QED BY <1>1, <1>2, FlushSettles DEF Store!Settle

\* A step that changes neither card nor cache, but for hanging.
LEMMA SameStep ==
  ASSUME card' = card, cache'.lba = cache.lba, cache'.data = cache.data
  PROVE  Now' = Now /\ Durable' = Durable /\ Store!Settle
  BY DEF Now, Durable, View, Store!Settle

LEMMA HungSame ==
  ASSUME FileInv, NEW c \in CacheT, NEW crd, From(c, crd), c.hung
  PROVE  ~CardReady /\ c.lba = cache.lba /\ c.data = cache.data /\ Flushed = card
  BY DEF From, CardReady, Flushed

-----------------------------------------------------------------------------
(* What is written.                                                        *)

\* The bytes p, ..., p + n - 1 of a file, if they lie in one sector.
LEMMA PieceBytes ==
  ASSUME NEW p \in Nat, NEW n \in Nat \ {0}, (p % SecSize) + n <= SecSize, NEW i \in Nat
  PROVE  i \in p .. p + n - 1
           <=> SectorAt(i) = SectorAt(p) /\ i % SecSize \in (p % SecSize) .. (p % SecSize) + n - 1
<1> DEFINE a == SectorAt(p)
           b == p % SecSize
           c == SectorAt(i)
           d == i % SecSize
<1>1. /\ a \in Nat /\ b \in 0 .. SecSize - 1 /\ p = SecSize * a + b
      /\ c \in Nat /\ d \in 0 .. SecSize - 1 /\ i = SecSize * c + d
      /\ SecSize \in Nat \ {0, 1}
  BY SectorParts, FileAssumption
<1> HIDE DEF a, b, c, d
<1>2. ASSUME i \in p .. p + n - 1 PROVE c = a
  <2>1. SecSize * c + d >= SecSize * a /\ SecSize * c + d < SecSize * a + SecSize
    BY <1>1, <1>2 DEF b
  <2>2. SecSize * (a + 1) = SecSize * a + SecSize /\ SecSize * (c + 1) = SecSize * c + SecSize
    BY <1>1
  <2>3. SecSize * c < SecSize * (a + 1) /\ SecSize * a < SecSize * (c + 1)
    BY <1>1, <2>1, <2>2
  <2>4. \A x \in Nat, y \in Nat, z \in Nat \ {0} : z * x < z * y => x < y
    OBVIOUS
  <2>5. c < a + 1 /\ a < c + 1
    BY <1>1, <2>3, <2>4
  <2> QED BY <1>1, <2>5
<1>3. ASSUME c = a PROVE i \in p .. p + n - 1 <=> d \in b .. b + n - 1
  <2>1. i - p = d - b /\ p \in Nat /\ n \in Nat
    BY <1>1, <1>3
  <2> QED BY <1>1, <2>1
<1> QED BY <1>2, <1>3 DEF a, b, c, d

PatchedAt(view, l, pos, n, b) == [view EXCEPT ![l] = Patched(view[l], pos, n, b)]
FilledAt(c, f, p, n, b) == [c EXCEPT ![f] = Store!Filled(@, p, n, b)]

\* A patched sector of a file is a file that is filled.
LEMMA WriteView ==
  ASSUME NEW view \in [Lba -> Data], NEW f \in File, NEW p \in Nat, NEW n \in Nat \ {0}, NEW b,
         (p % SecSize) + n <= SecSize, SectorAt(p) \in Sectors(f)
  PROVE  Contents(PatchedAt(view, <<f, SectorAt(p)>>, p % SecSize, n, b))
           = FilledAt(Contents(view), f, p, n, b)
<1> DEFINE l == <<f, SectorAt(p)>>
           patched == [view EXCEPT ![l] = Patched(view[l], p % SecSize, n, b)]
           filled == [Contents(view) EXCEPT ![f] = Store!Filled(Contents(view)[f], p, n, b)]
<1>1. l \in Lba
  BY SectorOnCard
<1>2. ASSUME NEW g \in File PROVE Contents(patched)[g] = filled[g]
  <2> DEFINE byte(crd, i) == crd[<<g, i \div SecSize>>][i % SecSize]
  <2>1. Contents(patched)[g] = [i \in 0 .. Bytes[g] - 1 |-> byte(patched, i)]
    BY DEF Contents
  <2>2. Contents(view)[g] = [i \in 0 .. Bytes[g] - 1 |-> byte(view, i)]
    BY DEF Contents
  <2>3. ASSUME NEW i \in 0 .. Bytes[g] - 1
        PROVE  byte(patched, i) = IF g = f /\ i \in p .. p + n - 1 THEN b ELSE byte(view, i)
    <3>0. i \in Nat /\ i < Bytes[g]
      <4>1. Bytes[g] \in Nat
        BY FileAssumption
      <4> QED BY <4>1
    <3>1. <<g, i \div SecSize>> \in Lba /\ i % SecSize \in 0 .. SecSize - 1
      BY <3>0, PositionOnCard, SectorParts DEF SectorAt
    <3>2. CASE <<g, i \div SecSize>> = l
      <4>1. g = f /\ SectorAt(i) = SectorAt(p)
        BY <3>2 DEF SectorAt
      <4>2. i \in p .. p + n - 1 <=> i % SecSize \in (p % SecSize) .. (p % SecSize) + n - 1
        BY <3>0, <4>1, PieceBytes
      <4>3. patched[l] = Patched(view[l], p % SecSize, n, b)
        BY <1>1
      <4>4. i % SecSize \in DOMAIN view[l]
        BY <1>1, <3>1 DEF Data
      <4>5. byte(patched, i) = IF i % SecSize \in (p % SecSize) .. (p % SecSize) + n - 1
                               THEN b ELSE view[l][i % SecSize]
        <5> HIDE DEF l, patched
        <5> QED BY <3>2, <4>3, <4>4 DEF Patched
      <4> HIDE DEF l, patched
      <4> QED BY <3>2, <4>1, <4>2, <4>5
    <3>3. CASE <<g, i \div SecSize>> # l
      <4>1. byte(patched, i) = byte(view, i)
        <5> HIDE DEF l
        <5> QED BY <3>1, <3>3
      <4>2. ~(g = f /\ i \in p .. p + n - 1)
        <5>1. g = f => SectorAt(i) # SectorAt(p)
          BY <3>3 DEF SectorAt
        <5> QED BY <3>0, <5>1, PieceBytes
      <4> QED BY <4>1, <4>2
    <3> QED BY <3>2, <3>3
  <2> HIDE DEF byte, patched
  <2>4. filled[g] = IF g = f THEN Store!Filled(Contents(view)[f], p, n, b) ELSE Contents(view)[g]
    BY DEF Contents
  <2>5. CASE g = f
    <3>1. filled[g] = [i \in 0 .. Bytes[g] - 1 |-> IF i \in p .. p + n - 1 THEN b ELSE byte(view, i)]
      BY <2>2, <2>4, <2>5 DEF Store!Filled
    <3> QED BY <2>1, <2>3, <2>5, <3>1
  <2>6. CASE g # f
    BY <2>1, <2>2, <2>3, <2>4, <2>6
  <2> QED BY <2>5, <2>6
<1> HIDE DEF patched
<1>3. Contents(patched) = filled
  BY <1>2 DEF Contents
<1> QED BY <1>3 DEF patched, PatchedAt, FilledAt

\* Any other sector that is patched is one sector of some file, or of none.
LEMMA OverrunView ==
  ASSUME NEW view \in [Lba -> Data], NEW l \in Lba, NEW d, File # {}
  PROVE  Store!SameButOneSector(Contents(view), Contents([view EXCEPT ![l] = d]))
<1> DEFINE patched == [view EXCEPT ![l] = d]
           before == Contents(view)
           after == Contents(patched)
<1>1. ASSUME NEW f \in File, NEW s \in 0 .. Bytes[f] \div SecSize,
             \A g \in File : \A t \in Int : (g # f \/ t # s) => <<g, t>> # l
      PROVE  Store!SameButOneSector(before, after)
  <2>1. ASSUME NEW g \in File, NEW i \in DOMAIN before[g], g # f \/ i \div SecSize # s
        PROVE  after[g][i] = before[g][i]
    <3>1. i \in 0 .. Bytes[g] - 1
      BY DEF Contents
    <3>2. i \in Nat /\ i < Bytes[g]
      <4>1. Bytes[g] \in Nat
        BY FileAssumption
      <4> QED BY <3>1, <4>1
    <3>3. <<g, i \div SecSize>> \in Lba /\ i \div SecSize \in Int
      BY <3>2, PositionOnCard, SectorParts DEF SectorAt
    <3>4. <<g, i \div SecSize>> # l
      BY <1>1, <2>1, <3>3
    <3>5. patched[<<g, i \div SecSize>>] = view[<<g, i \div SecSize>>]
      BY <3>3, <3>4
    <3> HIDE DEF patched
    <3> QED BY <3>1, <3>5 DEF Contents
  <2> HIDE DEF before, after
  <2> QED BY <2>1 DEF Store!SameButOneSector
<1>2. ASSUME l \in DataLba PROVE Store!SameButOneSector(before, after)
  <2>1. PICK f \in File : l \in {f} \X Sectors(f)
    BY <1>2 DEF DataLba
  <2>2. PICK s \in Sectors(f) : l = <<f, s>>
    BY <2>1
  <2>3. s \in 0 .. Bytes[f] \div SecSize
    <3>1. Bytes[f] - 1 \in Nat /\ Bytes[f] \in Nat /\ Bytes[f] - 1 <= Bytes[f]
      BY FileAssumption
    <3>2. (Bytes[f] - 1) \div SecSize <= Bytes[f] \div SecSize /\ Bytes[f] \div SecSize \in Nat
          /\ (Bytes[f] - 1) \div SecSize \in Nat
      BY <3>1, DivMono, FileAssumption
    <3> QED BY <3>2 DEF Sectors
  <2>4. \A g \in File : \A t \in Int : (g # f \/ t # s) => <<g, t>> # l
    BY <2>2
  <2> HIDE DEF before, after
  <2> QED BY <1>1, <2>3, <2>4
<1>3. ASSUME l \in Meta PROVE Store!SameButOneSector(before, after)
  <2>1. PICK f \in File : TRUE
    OBVIOUS
  <2>2. \A g \in File : \A t \in Int : <<g, t>> # l
    BY <1>3, FileAssumption DEF Meta, Fat, Dir, Boot
  <2>3. 0 \in 0 .. Bytes[f] \div SecSize
    <3>1. Bytes[f] \in Nat /\ SecSize \in Nat \ {0}
      BY FileAssumption
    <3>2. Bytes[f] \div SecSize \in Nat
      BY <3>1, DivMono
    <3> QED BY <3>2
  <2> HIDE DEF before, after
  <2> QED BY <1>1, <2>2, <2>3
<1> QED BY <1>2, <1>3 DEF Lba

-----------------------------------------------------------------------------
(* The loop that writes.                                                   *)

LEMMA CallStep ==
  ASSUME LoopInv, [Next]_vars
  PROVE  call'.op = "write" => call'.byte \in Byte
<1>1. ASSUME NEW h \in Handle, NEW n \in Count, NEW b \in Byte, file_write(h, n, b)
      PROVE  call'.byte \in Byte
  BY <1>1 DEF file_write
<1>2. ASSUME NEW h \in Handle, NEW n \in Count, file_read(h, n)
      PROVE  call' = call \/ call'.op = "read"
  BY <1>2 DEF file_read
<1>3. CASE pf_read \/ file_write_sector
  <2>1. call' = After(Piece)
    BY <1>3 DEF pf_read, file_write_sector
  <2>2. call' = Idle \/ call' = [call EXCEPT !.rem = @ - Piece]
    BY <2>1 DEF After
  <2>3. CASE call' = Idle
    BY <2>3 DEF Idle
  <2>4. CASE call' = [call EXCEPT !.rem = @ - Piece]
    BY <2>4 DEF LoopInv
  <2> QED BY <2>2, <2>3, <2>4
<1>4. CASE PowerCycle
  BY <1>4 DEF PowerCycle, Idle
<1>5. ASSUME NEW h \in Handle, \/ \E f \in File : file_open_dir(h, f)
                               \/ file_init(h)
                               \/ \E o \in Offset : file_seek(h, o)
      PROVE  call' = call
  BY <1>5 DEF file_open_dir, file_init, file_seek
<1>6. CASE \/ dir_entries \/ file_write_flush \/ Pull \/ Insert \/ NoticeRemoval \/ dir_init
           \/ UNCHANGED vars
  BY <1>6 DEF dir_entries, file_write_flush, Pull, Insert, NoticeRemoval, dir_init, vars, LoopInv
<1> QED BY <1>1, <1>2, <1>3, <1>4, <1>5, <1>6 DEF Next, LoopInv

\* If nothing waits, or nothing of interest changes.
LEMMA WaitingSame ==
  ASSUME LoopInv, \/ write_pending' = -1
                  \/ write_pending' = write_pending /\ fatfs' = fatfs /\ cache'.lba = cache.lba
  PROVE  LoopWaiting'
<1>1. CASE write_pending' = -1
  BY <1>1 DEF LoopWaiting, Sectors
<1>2. CASE write_pending' = write_pending /\ fatfs' = fatfs /\ cache'.lba = cache.lba
  BY <1>2 DEF LoopInv, LoopWaiting, Sectors, SectorAt
<1> QED BY <1>1, <1>2

LEMMA SeekWaiting ==
  ASSUME FileInv, LoopInv, NEW h \in Handle, NEW o \in Offset, file_seek(h, o)
  PROVE  LoopWaiting'
<1> DEFINE crd  == IF Keeps(h, o) THEN card ELSE Flushed
           r    == Sought(Ready(h).fs, Ready(h).cache, crd, o)
<1>1. Free /\ write_pending' = (IF Keeps(h, o) THEN write_pending ELSE -1)
      /\ cache' = r.cache /\ fatfs' = (IF r.cache.hung THEN fatfs ELSE r.fs)
  BY DEF file_seek, Ends
<1>2. Alive /\ o \in Nat /\ write_pending \in Nat \cup {-1} /\ Sound(fatfs)
  BY <1>1, FileAssumption, FreeNow DEF Free
<1>3. CASE ~Keeps(h, o) \/ write_pending = -1
  BY <1>1, <1>3, WaitingSame
<1>4. CASE Keeps(h, o) /\ write_pending # -1
  <2>1. openfile = h /\ write_pending = o /\ write_pending' = o
    BY <1>1, <1>2, <1>4 DEF Keeps
  <2>2. r = Sought(fatfs, cache, card, o)
    BY <1>4, <2>1 DEF Ready
  <2>3. fatfs.flag = FA_OPENED /\ fatfs.file \in File
    BY <1>2, <2>1 DEF FileInv, WaitingSectorStays, Sound
  <2> HIDE DEF r, crd
  <2>4. CASE r.cache.hung
    <3>1. From(r.cache, card)
      BY <1>2, <2>2, CacheFrom, SoughtFrom DEF FileInv, TypeOK
    <3>2. CASE r.cache.lba = cache.lba
      BY <1>1, <2>1, <2>4, <3>2, WaitingSame
    <3>3. CASE slot = "ready"
      BY <2>4, <3>1, <3>3 DEF From
    <3> QED BY <3>1, <3>2, <3>3 DEF From
  <2>5. CASE ~r.cache.hung
    <3>1. /\ r.fs.file = fatfs.file /\ r.fs.fptr = Lesser(o, Bytes[fatfs.file])
          /\ o = 0 => r.cache = cache
      <4>1. cache \in CacheT /\ card \in [Lba -> Data]
        BY <1>1, FreeNow
      <4> QED BY <1>2, <2>2, <2>3, <4>1, SoughtSound
    <3>2. CASE o = 0
      BY <1>1, <2>1, <2>3, <2>5, <3>1, <3>2 DEF LoopInv, LoopWaiting, Sectors
    <3>3. CASE o # 0
      <4>1. Bytes[fatfs.file] \in Nat
        BY <2>3, FileAssumption
      <4>2. fatfs'.fptr \in Nat /\ fatfs'.fptr <= o
        BY <1>1, <1>2, <2>5, <3>1, <4>1 DEF Lesser
      <4>3. SectorAt(fatfs'.fptr) <= SectorAt(o)
        BY <4>2, <1>2, SectorMono
      <4>4. SectorAt(o) \in Nat /\ SectorAt(o) < o
        BY <3>3, <1>2, FileAssumption DEF SectorAt
      <4>5. SectorAt(fatfs'.fptr) \in Nat
        BY <4>2, SectorParts
      <4>6. write_pending' # 0 /\ write_pending' # SectorAt(fatfs'.fptr)
        BY <4>3, <4>4, <4>5, <3>3, <2>1
      <4> QED BY <4>6 DEF LoopWaiting, SectorAt
    <3> QED BY <3>2, <3>3
  <2> QED BY <2>4, <2>5
<1> QED BY <1>3, <1>4

LEMMA WriteSectorWaiting ==
  ASSUME FileInv, LoopInv, file_write_sector
  PROVE  LoopWaiting'
<1> DEFINE f == fatfs.file
           p == fatfs.fptr
           same == SectorAt(p) = write_pending
           r    == IF same THEN [fs |-> fatfs, cache |-> cache] ELSE Fetched(Flushed)
<1>1. /\ Alive /\ call.op = "write"
      /\ cache' = (IF r.cache.hung THEN r.cache
                   ELSE [r.cache EXCEPT !.data = Patched(@, p % SecSize, Piece, call.byte)])
      /\ fatfs' = (IF r.cache.hung THEN fatfs ELSE [r.fs EXCEPT !.fptr = @ + Piece])
      /\ write_pending' = (IF r.cache.hung THEN -1 ELSE SectorAt(p))
  BY DEF file_write_sector
<1>2. fatfs.flag = FA_OPENED /\ Sound(fatfs)
  BY <1>1, SoundNow DEF FileInv, CallInProgress, LastHandleIsOpen
<1>3. CASE r.cache.hung
  BY <1>1, <1>3, WaitingSame
<1>4. CASE ~r.cache.hung
  <2>1. /\ r.cache \in CacheT /\ r.fs \in FatFs /\ r.fs.file = f
        /\ SectorAt(p) \in Sectors(f) => r.cache.lba = <<f, SectorAt(p)>>
    <3>1. CASE same
      <4>1. r.fs = fatfs /\ r.cache = cache
        BY <3>1
      <4> HIDE DEF r
      <4> QED BY <3>1, <4>1, <1>2 DEF FileInv, TypeOK, CacheT, LoopInv, LoopWaiting
    <3>2. CASE ~same
      <4>1. r = Fetched(Flushed)
        BY <3>2
      <4> HIDE DEF r
      <4> QED BY <1>1, <1>2, <1>4, <4>1, FetchedSound, FlushedClean
    <3> QED BY <3>1, <3>2
  <2> HIDE DEF r, f
  <2>2. cache'.lba = r.cache.lba /\ fatfs'.file = f
    BY <1>1, <1>4, <2>1 DEF CacheT, FatFs
  <2>3. write_pending' = SectorAt(p)
    BY <1>1, <1>4
  <2> QED BY <2>1, <2>2, <2>3 DEF LoopWaiting
<1> QED BY <1>3, <1>4

LEMMA LoopStep ==
  ASSUME FileInv, LoopInv, [Next]_vars
  PROVE  LoopInv'
<1>0. SUFFICES LoopWaiting'
  BY CallStep DEF LoopInv
<1>1. ASSUME NEW h \in Handle, NEW o \in Offset, file_seek(h, o) PROVE LoopWaiting'
  BY <1>1, SeekWaiting
<1>2. CASE file_write_sector
  BY <1>2, WriteSectorWaiting
<1>3. ASSUME NEW h \in Handle, NEW n \in Count, NEW b \in Byte, file_write(h, n, b)
      PROVE  LoopWaiting'
  <2>1. CASE openfile = h
    <3>1. write_pending' = write_pending /\ fatfs' = fatfs /\ cache' = cache
      BY <1>3, <2>1 DEF file_write, Ends, Ready
    <3> QED BY <3>1, WaitingSame
  <2>2. CASE openfile # h
    BY <1>3, <2>2, WaitingSame DEF file_write
  <2> QED BY <2>1, <2>2
<1>4. CASE pf_read
  <2>1. write_pending' = -1
    BY <1>4 DEF pf_read, FileInv, CallInProgress
  <2> QED BY <2>1, WaitingSame
<1>5. ASSUME NEW h \in Handle, \/ \E f \in File : file_open_dir(h, f)
                               \/ file_init(h)
                               \/ \E n \in Count : file_read(h, n)
      PROVE  LoopWaiting'
  BY <1>5, WaitingSame DEF file_open_dir, file_init, file_read
<1>6. CASE \/ dir_entries \/ file_write_flush \/ Pull \/ Insert \/ NoticeRemoval \/ dir_init
           \/ PowerCycle \/ UNCHANGED vars
  BY <1>6, WaitingSame
     DEF dir_entries, file_write_flush, Pull, Insert, NoticeRemoval, dir_init, PowerCycle, vars
<1> QED BY <1>1, <1>2, <1>3, <1>4, <1>5, <1>6 DEF Next

LEMMA FetchedFrom ==
  ASSUME FileInv, Alive, fatfs.flag = FA_OPENED
  PROVE  From(Fetched(Flushed).cache, Flushed)
<1> DEFINE o == fatfs.fptr - (fatfs.fptr % SecSize)
           r == Sought(fatfs, cache, Flushed, o)
           s == IF r.fs.flag = FA_OPENED /\ r.fs.fptr < Bytes[r.fs.file]
                THEN ReadOn(r.fs, r.cache, Flushed, 1) ELSE r
<1>1. /\ cache \in CacheT /\ Flushed \in [Lba -> Data] /\ From(cache, Flushed)
      /\ Sound(fatfs) /\ fatfs.fptr \in Nat
  BY SoundNow, CacheFrom, FlushedClean DEF Sound, FatFs
<1>2. o \in Nat
  BY <1>1, SectorStart
<1>3. /\ Sound(r.fs) /\ r.cache \in CacheT /\ From(r.cache, Flushed)
  <2> HIDE DEF o
  <2> QED BY <1>1, <1>2, SoughtSound, SoughtFrom
<1> HIDE DEF o, r
<1>4. ASSUME r.fs.flag = FA_OPENED, r.fs.fptr < Bytes[r.fs.file]
      PROVE  From(ReadOn(r.fs, r.cache, Flushed, 1).cache, Flushed)
  <2>1. r.fs.fptr \in Nat
    BY <1>3 DEF Sound, FatFs
  <2>2. (r.fs.fptr % SecSize) + 1 <= SecSize
    <3>1. r.fs.fptr % SecSize \in 0 .. SecSize - 1 /\ SecSize \in Nat
      BY <2>1, SectorParts, FileAssumption
    <3> QED BY <3>1
  <2> QED BY <1>1, <1>3, <1>4, <2>2, ReadOnFrom
<1>5. From(s.cache, Flushed)
  BY <1>3, <1>4
<1>6. Fetched(Flushed) = [s EXCEPT !.fs.fptr = r.fs.fptr + (fatfs.fptr % SecSize)]
  BY DEF Fetched, r, o
<1>7. Fetched(Flushed).cache = s.cache
  <2> HIDE DEF s
  <2>1. ASSUME NEW x, NEW y PROVE [x EXCEPT !.fs = y].cache = x.cache
    OBVIOUS
  <2> QED BY <1>6, <2>1
<1> QED BY <1>5, <1>7

-----------------------------------------------------------------------------
(* The place.                                                              *)

PlaceOf(h, fs) == [who  |-> h,
                   file |-> IF fs.flag = FA_OPENED THEN fs.file ELSE NoFile,
                   pos  |-> IF fs.flag = FA_OPENED THEN fs.fptr ELSE 0]

LEMMA PlaceNow ==
  Place = PlaceOf(openfile, fatfs) /\ Place' = PlaceOf(openfile', fatfs')
  BY DEF Place, PlaceOf

LEMMA OpenedPlace ==
  ASSUME NEW h, NEW fs \in FatFs, NEW c, NEW crd, NEW f \in File \cup {NoFile}
  PROVE  PlaceOf(h, Opened(fs, c, crd, f).fs) = [who |-> h, file |-> f, pos |-> 0]
<1>1. CASE f = NoFile
  BY <1>1 DEF Opened, PlaceOf, FatFs, FA_OPENED, NotMounted, Lesser
<1>2. CASE f # NoFile
  BY <1>2 DEF Opened, PlaceOf, FatFs, FA_OPENED
<1> QED BY <1>1, <1>2

LEMMA ReadyPlace ==
  ASSUME FileInv, NEW h \in Handle
  PROVE  PlaceOf(h, Ready(h).fs) = Store!Here(h)
<1>1. fatfs \in FatFs /\ path[h] \in File \cup {NoFile}
  BY DEF FileInv, TypeOK
<1>2. CASE openfile = h
  BY <1>2, PlaceNow DEF Ready, Store!Here, Place
<1>3. CASE openfile # h
  BY <1>1, <1>3, OpenedPlace DEF Ready, Store!Here, Place
<1> QED BY <1>2, <1>3

LEMMA SoughtPlace ==
  ASSUME NEW h, NEW fs, Sound(fs), NEW c \in CacheT, NEW crd \in [Lba -> Data], NEW o \in Nat,
         NEW at, at = PlaceOf(h, fs)
  PROVE  PlaceOf(h, Sought(fs, c, crd, o).fs) = [at EXCEPT !.pos = Store!Clip(at.file, o)]
<1> DEFINE r == Sought(fs, c, crd, o)
<1>1. CASE fs.flag = FA_OPENED
  <2>1. r.fs.flag = FA_OPENED /\ r.fs.file = fs.file /\ r.fs.fptr = Lesser(o, Bytes[fs.file])
    BY <1>1, SoughtSound
  <2>2. fs.file \in File /\ NoFile \notin File /\ Bytes[fs.file] \in Nat
    BY <1>1, FileAssumption DEF Sound
  <2> HIDE DEF r
  <2>3. Store!Clip(fs.file, o) = Lesser(o, Bytes[fs.file])
    BY <2>2 DEF Store!Clip, Lesser
  <2> QED BY <1>1, <2>1, <2>3 DEF PlaceOf, r
<1>2. CASE fs.flag # FA_OPENED
  <2>1. r.fs = fs
    BY <1>2 DEF Sought
  <2> QED BY <1>2, <2>1 DEF PlaceOf, Store!Clip
<1> QED BY <1>1, <1>2

-----------------------------------------------------------------------------
(* The steps.                                                              *)

LEMMA StallStep ==
  ASSUME ~CardReady, slot' = slot, card' = card, cache'.lba = cache.lba, cache'.data = cache.data,
         openfile' = openfile, fatfs' = fatfs, got' = Nothing,
         path' = path \/ \E h \in Handle, f \in File : path' = [path EXCEPT ![h] = f]
  PROVE  Store!StoreNext
<1>1. Now' = Now /\ Durable' = Durable
  BY SameStep
<1>2. Place' = Place /\ CardReady' = CardReady
  BY DEF Place, CardReady
<1>3. Store!Stall
  BY <1>1, <1>2 DEF Store!Stall, Store!Nothing, Nothing
<1> QED BY <1>3 DEF Store!StoreNext

LEMMA OpenDirStore ==
  ASSUME FileInv, NEW h \in Handle, NEW f \in File, file_open_dir(h, f)
  PROVE  Store!StoreNext
<1> DEFINE r == Opened(fatfs, cache, Flushed, f)
<1>1. /\ Free /\ card' = Flushed /\ cache' = r.cache
      /\ fatfs' = (IF r.cache.hung THEN fatfs ELSE r.fs)
      /\ openfile' = (IF r.cache.hung THEN openfile ELSE h)
      /\ path' = [path EXCEPT ![h] = f]
      /\ got' = Nothing /\ slot' = slot
  BY DEF file_open_dir, Ends
<1>2. cache \in CacheT /\ From(cache, Flushed) /\ Flushed \in [Lba -> Data]
      /\ Sound(fatfs) /\ Clean(cache, Flushed)
  BY <1>1, CacheFrom, FlushedClean, SoundNow DEF Free
<1>3. r.cache \in CacheT /\ From(r.cache, Flushed)
  BY <1>2, OpenedFrom, OpenedSound
<1>4. PlaceOf(h, r.fs) = [who |-> h, file |-> f, pos |-> 0]
  BY <1>2, OpenedPlace DEF Sound
<1> HIDE DEF r
<1>5. CASE r.cache.hung
  BY <1>1, <1>2, <1>3, <1>5, HungSame, StallStep
<1>6. CASE ~r.cache.hung
  <2>1. Now' = Now /\ Store!Settle
    BY <1>1, <1>3, SettleStep
  <2>2. Place' = [who |-> h, file |-> f, pos |-> 0]
    BY <1>1, <1>4, <1>6, PlaceNow
  <2>3. CardReady' = CardReady
    BY <1>1 DEF CardReady
  <2>4. Store!Open(h, f)
    BY <1>1, <2>1, <2>2, <2>3 DEF Store!Open, Store!Nothing, Nothing
  <2> QED BY <2>4 DEF Store!StoreNext
<1> QED BY <1>5, <1>6

LEMMA InitStore ==
  ASSUME FileInv, NEW h \in Handle, file_init(h)
  PROVE  Store!StoreNext
<1>1. Now' = Now /\ Durable' = Durable /\ CardReady' = CardReady /\ Place' = Place
  BY DEF file_init, diskVars, Now, Durable, CardReady, Place
<1>2. path' = [g \in Handle |-> IF g \in {h} THEN NoFile ELSE path[g]]
  <2>1. path \in [Handle -> File \cup {NoFile}] /\ path' = [path EXCEPT ![h] = NoFile]
    BY DEF file_init, FileInv, TypeOK
  <2> QED BY <2>1
<1>3. Store!Close({h})
  BY <1>1, <1>2 DEF Store!Close, Store!Nothing, Nothing, file_init
<1> QED BY <1>3 DEF Store!StoreNext

LEMMA SyncStore ==
  ASSUME FileInv, slot' = slot, card' = Flushed, cache' \in CacheT, From(cache', Flushed),
         openfile' = openfile, fatfs' = fatfs, got' = Nothing, path' = path
  PROVE  Store!StoreNext
<1>1. Now' = Now /\ Store!Settle
  BY SettleStep
<1>2. Place' = Place /\ CardReady' = CardReady
  BY DEF Place, CardReady
<1>3. Store!Sync
  BY <1>1, <1>2 DEF Store!Sync, Store!Nothing, Nothing
<1> QED BY <1>3 DEF Store!StoreNext

LEMMA DirEntriesStore ==
  ASSUME FileInv, dir_entries
  PROVE  Store!StoreNext
<1>1. cache \in CacheT /\ From(cache, Flushed) /\ Flushed \in [Lba -> Data]
  BY CacheFrom, FlushedClean DEF dir_entries, Free
<1>2. Dir \in Lba
  BY DEF Lba, Meta
<1>3. cache' \in CacheT /\ From(cache', Flushed)
  BY <1>1, <1>2, CachedFrom, CachedType DEF dir_entries
<1> QED BY <1>3, SyncStore DEF dir_entries

LEMMA FlushStore ==
  ASSUME FileInv, file_write_flush
  PROVE  Store!StoreNext
<1>1. cache \in CacheT /\ From(cache, Flushed)
  BY CacheFrom DEF file_write_flush, Free
<1> QED BY <1>1, SyncStore DEF file_write_flush

LEMMA SlotStore ==
  ASSUME FileInv, Pull \/ Insert
  PROVE  Store!StoreNext
<1>1. Now' = Now /\ Durable' = Durable /\ Place' = Place /\ ~CardReady' /\ path' = path
  BY DEF Pull, Insert, Now, Durable, CardReady, Place
<1>2. got' = Nothing
  BY DEF Pull, Insert
<1>3. Store!Slot
  BY <1>1, <1>2 DEF Store!Slot, Store!Nothing, Nothing
<1> QED BY <1>3 DEF Store!StoreNext

LEMMA RemovalStore ==
  ASSUME FileInv, NoticeRemoval
  PROVE  Store!StoreNext
<1>1. Now' = Now /\ Durable' = Durable /\ CardReady' = CardReady /\ Place' = Place
  BY DEF NoticeRemoval, Now, Durable, CardReady, Place
<1>2. path' = [g \in Handle |-> IF g \in Handle THEN NoFile ELSE path[g]]
  BY DEF NoticeRemoval
<1>3. Store!Close(Handle)
  BY <1>1, <1>2 DEF Store!Close, Store!Nothing, Nothing, NoticeRemoval
<1> QED BY <1>3 DEF Store!StoreNext

LEMMA RestartStore ==
  ASSUME FileInv, NamesOnlyWithCard, dir_init \/ PowerCycle
  PROVE  Store!StoreNext
<1> DEFINE m == [Mounted EXCEPT !.data = card[Boot]]
<1>1. /\ card' = card /\ cache' = m /\ got' = Nothing
      /\ fatfs' \in {Closed, [Closed EXCEPT !.flag = NotMounted]}
      /\ path' = [h \in Handle |-> NoFile]
  BY DEF dir_init, PowerCycle, NamesOnlyWithCard
<1>2. card \in [Lba -> Data]
  BY DEF FileInv, TypeOK
<1>3. m \in CacheT /\ m.data = card[m.lba]
  BY <1>2, MountedClean
<1> HIDE DEF m
<1>4. View(card, m) = card
  BY <1>2, <1>3 DEF View, CacheT
<1>5. Now' = Durable /\ Durable' = Durable
  BY <1>1, <1>4 DEF Now, Durable
<1>6. Place'.file = NoFile /\ Place'.pos = 0
  BY <1>1 DEF Place, Closed, FA_OPENED, NotMounted
<1>7. Store!Restart
  BY <1>1, <1>5, <1>6 DEF Store!Restart, Store!Nothing, Nothing
<1> QED BY <1>7 DEF Store!StoreNext

\* file_check_open before a transfer.
LEMMA TurnStore ==
  ASSUME FileInv, Alive, NEW h \in Handle,
         card' = Flushed \/ (openfile = h /\ card' = card), Ends(Ready(h)),
         openfile' = IF Ready(h).cache.hung THEN openfile ELSE h,
         got' = Nothing, slot' = slot, path' = path
  PROVE  Store!StoreNext
<1> DEFINE r == Ready(h)
<1>1. r.cache \in CacheT /\ From(r.cache, Flushed) /\ PlaceOf(h, r.fs) = Store!Here(h)
  BY ReadySound, ReadyFrom, ReadyPlace
<1>2. cache' = r.cache /\ fatfs' = (IF r.cache.hung THEN fatfs ELSE r.fs)
      /\ openfile' = (IF r.cache.hung THEN openfile ELSE h)
  BY DEF Ends
<1>3. openfile = h => r.cache = cache
  BY ReadySound
<1> HIDE DEF r
<1>4. CASE r.cache.hung
  BY <1>1, <1>2, <1>4, HungSame, StallStep
<1>5. CASE ~r.cache.hung
  <2>1. Now' = Now /\ Store!Settle
    <3>1. CASE card' = Flushed
      BY <1>1, <1>2, <3>1, SettleStep
    <3>2. CASE openfile = h /\ card' = card
      BY <1>2, <1>3, <3>2, SameStep
    <3> QED BY <3>1, <3>2
  <2>2. Place' = Store!Here(h)
    BY <1>1, <1>2, <1>5, PlaceNow
  <2>3. CardReady' = CardReady
    BY DEF CardReady
  <2>4. Store!Turn(h)
    BY <2>1, <2>2, <2>3 DEF Store!Turn, Store!Nothing, Nothing
  <2> QED BY <2>4 DEF Store!StoreNext
<1> QED BY <1>4, <1>5

LEMMA ReadStore ==
  ASSUME FileInv, NEW h \in Handle, NEW n \in Count, file_read(h, n)
  PROVE  Store!StoreNext
<1>1. /\ Alive /\ card' = Flushed /\ Ends(Ready(h))
      /\ openfile' = (IF Ready(h).cache.hung THEN openfile ELSE h)
      /\ got' = Nothing /\ slot' = slot /\ path' = path
  BY DEF file_read, Free
<1> QED BY <1>1, TurnStore

LEMMA WriteStore ==
  ASSUME FileInv, NEW h \in Handle, NEW n \in Count, NEW b \in Byte, file_write(h, n, b)
  PROVE  Store!StoreNext
<1>1. /\ Alive /\ (card' = Flushed \/ (openfile = h /\ card' = card)) /\ Ends(Ready(h))
      /\ openfile' = (IF Ready(h).cache.hung THEN openfile ELSE h)
      /\ got' = Nothing /\ slot' = slot /\ path' = path
  BY DEF file_write, Free
<1> QED BY <1>1, TurnStore

\* A seek that takes the sector that waits for the place sought, and reads the
\* FAT over it.
LEMMA SlipStore ==
  ASSUME FileInv, NEW o \in Offset, write_pending = o, card' = card, slot' = slot,
         slot = "ready", cache'.data = card[Fat], cache'.lba = Fat, path' = path, got' = Nothing,
         Place' = [Place EXCEPT !.pos = Store!Clip(Place.file, o)]
  PROVE  Store!StoreNext
<1> DEFINE view == View(card, cache)
           f == fatfs.file
<1>1. /\ card \in [Lba -> Data] /\ cache \in CacheT /\ o \in Nat /\ Fat \in Lba
      /\ fatfs.flag = FA_OPENED /\ f \in File /\ fatfs \in FatFs
      /\ o \in Sectors(f) => cache.lba \in {<<f, o>>, Fat}
  <2>1. o \in Nat
    BY FileAssumption
  <2>2. fatfs.flag = FA_OPENED /\ (o \in Sectors(f) => cache.lba \in {<<f, o>>, Fat})
    BY <2>1 DEF FileInv, WaitingSectorStays
  <2> QED BY <2>1, <2>2, SoundNow DEF FileInv, TypeOK, CacheT, Lba, Meta, Sound
<1>2. /\ view \in [Lba -> Data] /\ cache.lba \in Lba
      /\ \A l \in Lba : l # cache.lba => view[l] = card[l]
  BY <1>1, ViewType DEF View, CacheT
<1>3. View(card', cache') = card
  BY <1>1 DEF View
<1>4. Now' = Durable /\ Durable' = Durable /\ CardReady' = CardReady
  BY <1>3 DEF Now, Durable, CardReady
<1>5. Place.file = f /\ f # NoFile
  BY <1>1, FileAssumption DEF Place
<1>6. \/ \A g \in File : \A i \in DOMAIN Now[g] :
           Now[g][i] # Durable[g][i] => g = Place.file /\ i \div SecSize = o
      \/ Place.file # NoFile /\ o * SecSize >= Bytes[Place.file]
           /\ Store!SameButOneSector(Now, Durable)
  <2>1. CASE o \in Sectors(f)
    <3> SUFFICES ASSUME NEW g \in File, NEW i \in DOMAIN Now[g], ~(g = f /\ i \div SecSize = o)
                 PROVE  Now[g][i] = Durable[g][i]
      BY <1>5
    <3>1. i \in 0 .. Bytes[g] - 1
      BY DEF Now, Contents
    <3>2. i \in Nat /\ i < Bytes[g]
      <4>1. Bytes[g] \in Nat
        BY FileAssumption
      <4> QED BY <3>1, <4>1
    <3>3. <<g, i \div SecSize>> \in Lba
      BY <3>2, PositionOnCard DEF SectorAt
    <3>4. <<g, i \div SecSize>> # Fat
      BY FileAssumption DEF Fat
    <3>5. <<g, i \div SecSize>> # cache.lba
      <4>1. cache.lba = <<f, o>> \/ cache.lba = Fat
        BY <1>1, <2>1
      <4>2. ASSUME NEW s, ~(g = f /\ s = o) PROVE <<g, s>> # <<f, o>>
        BY <4>2
      <4> HIDE DEF f
      <4> QED BY <3>4, <4>1, <4>2
    <3>6. view[<<g, i \div SecSize>>] = card[<<g, i \div SecSize>>]
      BY <1>2, <3>3, <3>5
    <3> HIDE DEF view, f
    <3> QED BY <3>1, <3>6 DEF Now, Durable, Contents, view
  <2>2. CASE o \notin Sectors(f)
    <3>1. o * SecSize >= Bytes[f]
      <4> DEFINE p == SecSize * o
      <4>1. SecSize \in Nat \ {0} /\ Bytes[f] \in Nat
        BY <1>1, FileAssumption
      <4>2. p \in Nat /\ p % SecSize = 0 /\ SectorAt(p) = o
        BY <1>1, <4>1 DEF SectorAt
      <4>3. ~(p - (p % SecSize) < Bytes[f])
        <5> HIDE DEF p
        <5> QED BY <1>1, <2>2, <4>2, SectorsOf
      <4>4. p = o * SecSize
        BY <1>1, <4>1
      <4> HIDE DEF p
      <4> QED BY <4>1, <4>2, <4>3, <4>4
    <3>2. card = [view EXCEPT ![cache.lba] = card[cache.lba]]
      <4> HIDE DEF view
      <4> QED BY <1>1, <1>2
    <3>3. Store!SameButOneSector(Contents(view), Contents(card))
      <4> HIDE DEF view
      <4> QED BY <1>1, <1>2, <3>2, OverrunView
    <3> QED BY <1>5, <3>1, <3>3 DEF Now, Durable
  <2> QED BY <2>1, <2>2
<1>7. Store!Slip(o)
  BY <1>4, <1>6 DEF Store!Slip, Store!Nothing, Nothing
<1> QED BY <1>7 DEF Store!StoreNext

LEMMA SeekStore ==
  ASSUME FileInv, NEW h \in Handle, NEW o \in Offset, file_seek(h, o)
  PROVE  Store!StoreNext
<1> DEFINE crd  == IF Keeps(h, o) THEN card ELSE Flushed
           open == Ready(h)
           r    == Sought(open.fs, open.cache, crd, o)
<1>1. Alive /\ card' = crd
      /\ path' = path /\ slot' = slot /\ got' = Nothing
      /\ cache' = r.cache /\ fatfs' = (IF r.cache.hung THEN fatfs ELSE r.fs)
      /\ openfile' = (IF r.cache.hung THEN openfile ELSE h)
  BY DEF file_seek, Ends, Free
<1>2. /\ o \in Nat /\ card \in [Lba -> Data] /\ Flushed \in [Lba -> Data] /\ crd \in [Lba -> Data]
      /\ write_pending \in Nat \cup {-1}
  BY FileAssumption, FlushedClean DEF FileInv, TypeOK
<1>3. /\ Sound(open.fs) /\ open.cache \in CacheT /\ From(open.cache, Flushed)
      /\ openfile = h => open.fs = fatfs /\ open.cache = cache
      /\ PlaceOf(h, open.fs) = Store!Here(h)
  BY <1>1, ReadySound, ReadyFrom, ReadyPlace
<1>4. /\ r.cache \in CacheT
      /\ PlaceOf(h, r.fs) = [Store!Here(h) EXCEPT !.pos = Store!Clip(Store!Here(h).file, o)]
      /\ r.cache = open.cache \/ r.cache = Cached(open.cache, crd, Fat)
  <2>1. Fat \in Lba
    BY DEF Lba, Meta
  <2>2. r.cache = open.cache \/ r.cache = Cached(open.cache, crd, Fat)
    BY DEF Sought
  <2> HIDE DEF open, crd
  <2>3. r.cache \in CacheT
    <3>1. Cached(open.cache, crd, Fat) \in CacheT
      BY <1>2, <1>3, <2>1, CachedType
    <3> HIDE DEF r
    <3> QED BY <1>3, <2>2, <3>1
  <2>4. PlaceOf(h, r.fs) = [Store!Here(h) EXCEPT !.pos = Store!Clip(Store!Here(h).file, o)]
    BY <1>2, <1>3, SoughtPlace
  <2> QED BY <2>2, <2>3, <2>4
<1>5. Fat \in Lba /\ CardReady' = CardReady
  BY <1>1 DEF Lba, Meta, CardReady
<1>6. crd = Flushed \/ (openfile = h /\ write_pending = o /\ crd = card)
  BY <1>2 DEF Keeps, Flushed
<1> HIDE DEF r, open, crd
<1>7. CASE crd = Flushed
  <2>1. From(r.cache, Flushed)
    BY <1>2, <1>3, <1>4, <1>5, <1>7, CachedFrom
  <2>2. CASE r.cache.hung
    BY <1>1, <1>4, <1>7, <2>1, <2>2, HungSame, StallStep
  <2>3. CASE ~r.cache.hung
    <3>1. Now' = Now /\ Store!Settle
      BY <1>1, <1>4, <1>7, <2>1, SettleStep
    <3>2. Place' = [Store!Here(h) EXCEPT !.pos = Store!Clip(Store!Here(h).file, o)]
      BY <1>1, <1>4, <2>3, PlaceNow
    <3>3. Store!Seek(h, o)
      BY <1>1, <1>5, <3>1, <3>2 DEF Store!Seek, Store!Nothing, Nothing
    <3> QED BY <3>3 DEF Store!StoreNext
  <2> QED BY <2>2, <2>3
<1>8. CASE openfile = h /\ write_pending = o /\ crd = card
  <2>1. open.cache = cache /\ Store!Here(h) = Place
    BY <1>3, <1>8 DEF Store!Here, Place
  <2>2. cache \in CacheT /\ ~cache.hung
    BY <1>1, CacheFrom DEF Alive
  <2>3. CASE r.cache.hung
    <3>1. r.cache = [cache EXCEPT !.hung = TRUE] /\ slot # "ready"
      BY <1>4, <1>8, <2>1, <2>2, <2>3 DEF Cached
    <3>2. r.cache.lba = cache.lba /\ r.cache.data = cache.data
      BY <2>2, <3>1 DEF CacheT
    <3> QED BY <1>1, <1>8, <2>3, <3>1, <3>2, StallStep DEF CardReady
  <2>4. CASE ~r.cache.hung
    <3>1. Place' = [Place EXCEPT !.pos = Store!Clip(Place.file, o)]
      BY <1>1, <1>4, <2>1, <2>4, PlaceNow
    <3>2. CASE r.cache = cache
      <4>1. Now' = Now /\ Store!Settle
        BY <1>1, <1>8, <3>2, SameStep
      <4>2. Store!Seek(h, o)
        BY <1>1, <1>5, <2>1, <3>1, <4>1 DEF Store!Seek, Store!Nothing, Nothing
      <4> QED BY <4>2 DEF Store!StoreNext
    <3>3. CASE r.cache # cache
      <4>1. r.cache = [lba |-> Fat, data |-> card[Fat], hung |-> FALSE] /\ slot = "ready"
        <5>1. r.cache = Cached(cache, card, Fat)
          BY <1>4, <1>8, <2>1, <3>3
        <5>2. CASE slot = "ready"
          BY <2>2, <3>3, <5>1, <5>2 DEF Cached
        <5>3. CASE slot # "ready"
          <6>1. r.cache = [cache EXCEPT !.hung = TRUE]
            BY <2>2, <3>3, <5>1, <5>3 DEF Cached
          <6> QED BY <2>2, <2>4, <6>1 DEF CacheT
        <5> QED BY <5>2, <5>3
      <4> QED BY <1>1, <1>8, <3>1, <4>1, SlipStore
    <3> QED BY <3>2, <3>3
  <2> QED BY <2>3, <2>4
<1> QED BY <1>6, <1>7, <1>8

LEMMA PfReadStore ==
  ASSUME FileInv, pf_read
  PROVE  Store!StoreNext
<1> DEFINE f == fatfs.file
           p == fatfs.fptr
           n == Piece
           r == ReadOn(fatfs, cache, card, n)
<1>1. /\ Alive /\ call.op = "read" /\ card' = card /\ slot' = slot /\ path' = path
      /\ openfile' = openfile /\ cache' = r.cache
      /\ fatfs' = (IF r.cache.hung THEN fatfs ELSE r.fs)
      /\ got' = (IF r.cache.hung THEN Nothing
                 ELSE [file |-> f, pos |-> p,
                       bytes |-> [i \in 1 .. n |-> r.cache.data[(p % SecSize) + i - 1]]])
  BY DEF pf_read, Ends, diskVars
<1>2. /\ fatfs.flag = FA_OPENED /\ p + call.rem <= Bytes[f] /\ Flushed = card
      /\ Sound(fatfs) /\ f \in File /\ f # NoFile /\ p \in Nat /\ Bytes[f] \in Nat
      /\ card \in [Lba -> Data] /\ cache \in CacheT /\ From(cache, card) /\ call.rem \in Nat
  <2>1. fatfs.flag = FA_OPENED /\ p + call.rem <= Bytes[f] /\ Flushed = card
    BY <1>1 DEF FileInv, CallInProgress, Flushed
  <2>2. Sound(fatfs) /\ f \in File /\ p \in Nat
    BY <2>1, SoundNow DEF Sound, FatFs
  <2>3. card \in [Lba -> Data] /\ call.rem \in Nat
    BY DEF FileInv, TypeOK
  <2>4. cache \in CacheT /\ From(cache, card)
    BY <1>1, CacheFrom
  <2> QED BY <2>1, <2>2, <2>3, <2>4, FileAssumption
<1>3. /\ n \in Nat \ {0} /\ n <= call.rem /\ (p % SecSize) + n <= SecSize
  BY <1>1, PieceFacts
<1>4. p % SecSize \in Nat /\ SecSize \in Nat \ {0}
  <2>1. p % SecSize \in 0 .. SecSize - 1 /\ SecSize \in Nat \ {0}
    BY <1>2, SectorParts, FileAssumption
  <2> QED BY <2>1
<1>5. p < Bytes[f] /\ p + n <= Bytes[f] /\ n \in 1 .. SecSize
  <2> HIDE DEF n, p, f
  <2> QED BY <1>2, <1>3, <1>4
<1>6. /\ r.fs \in FatFs /\ r.fs.flag = FA_OPENED /\ r.fs.file = f /\ r.fs.fptr = p + n
      /\ r.cache \in CacheT /\ From(r.cache, card)
      /\ r.cache.hung \/ r.cache.lba = <<f, SectorAt(p)>>
  <2> HIDE DEF n
  <2>1. From(r.cache, card)
    BY <1>2, <1>3, <1>5, ReadOnFrom
  <2>2. r.fs \in FatFs /\ r.cache \in CacheT
    BY <1>2, <1>3, <1>5, ReadOnSound
  <2>3. r.cache.hung \/ r.cache.lba = <<f, SectorAt(p)>>
    BY <1>2, <1>3, <1>5, ReadOnSound
  <2>4. r.fs.flag = fatfs.flag /\ r.fs.file = f
    BY <1>2 DEF ReadOn, Sound, FatFs
  <2>5. r.fs.fptr = p + n
    BY <1>2, <1>3, <1>5, ReadOnSound
  <2> QED BY <1>2, <2>1, <2>2, <2>3, <2>4, <2>5
<1> HIDE DEF r, n, f, p
<1>7. CASE r.cache.hung
  BY <1>1, <1>2, <1>6, <1>7, HungSame, StallStep
<1>8. CASE ~r.cache.hung
  <2>1. Now' = Now /\ Durable' = Durable /\ CardReady' = CardReady
    <3>1. Now' = Now
      BY <1>1, <1>2, <1>6, SettleStep
    <3> QED BY <1>1, <3>1 DEF Durable, CardReady
  <2>2. Place = [who |-> openfile, file |-> f, pos |-> p]
    BY <1>2 DEF Place, f, p
  <2>3. Place' = [who |-> openfile, file |-> f, pos |-> p + n]
    BY <1>1, <1>6, <1>8 DEF Place
  <2>4. ASSUME NEW i \in 1 .. n
        PROVE  r.cache.data[(p % SecSize) + i - 1] = Now[f][p + i - 1]
    <3> DEFINE j == p + i - 1
    <3>1. j \in Nat /\ j \in p .. p + n - 1 /\ j < Bytes[f]
      BY <1>2, <1>3, <1>5
    <3>2. SectorAt(j) = SectorAt(p)
      <4> HIDE DEF j
      <4> QED BY <1>2, <1>3, <3>1, PieceBytes
    <3>3. j % SecSize = (p % SecSize) + i - 1
      <4>1. /\ j = SecSize * SectorAt(j) + (j % SecSize) /\ SectorAt(j) \in Nat
            /\ j % SecSize \in 0 .. SecSize - 1
            /\ p = SecSize * SectorAt(p) + (p % SecSize)
        <5> HIDE DEF j
        <5> QED BY <1>2, <3>1, SectorParts
      <4> DEFINE a == SecSize * SectorAt(p)
                 b == p % SecSize
                 c == j % SecSize
      <4>2. a \in Nat /\ b \in Nat /\ c \in Nat /\ p = a + b /\ j = a + c /\ i \in Nat
        BY <1>4, <3>2, <4>1
      <4>3. j = p + i - 1
        OBVIOUS
      <4> HIDE DEF a, b, c, j
      <4>4. c = b + i - 1
        BY <4>2, <4>3
      <4> QED BY <4>4 DEF b, c
    <3> HIDE DEF j
    <3>4. Now[f][j] = View(card, r.cache)[<<f, SectorAt(j)>>][j % SecSize]
      <4>1. Now = Contents(View(card, r.cache))
        BY <1>1, <2>1 DEF Now
      <4>2. j \in 0 .. Bytes[f] - 1
        BY <1>2, <3>1
      <4> QED BY <1>2, <4>1, <4>2 DEF Contents, SectorAt
    <3>5. View(card, r.cache)[<<f, SectorAt(p)>>] = r.cache.data
      BY <1>2, <1>6, <1>8, ViewType
    <3>6. Now[f][j] = r.cache.data[(p % SecSize) + i - 1]
      BY <3>2, <3>3, <3>4, <3>5
    <3> QED BY <3>6 DEF j
  <2>5. got' = [file |-> f, pos |-> p, bytes |-> [i \in 1 .. n |-> Now[f][p + i - 1]]]
    BY <1>1, <1>8, <2>4
  <2>6. Store!Read(n)
    <3>1. Place.file = f /\ Place.pos = p /\ Place' = [Place EXCEPT !.pos = @ + n]
      BY <2>2, <2>3
    <3>2. got' = [file |-> Place.file, pos |-> Place.pos,
                  bytes |-> [i \in 1 .. n |-> Now[Place.file][Place.pos + i - 1]]]
      BY <2>5, <3>1
    <3> QED BY <1>1, <1>2, <1>5, <2>1, <3>1, <3>2 DEF Store!Read
  <2> QED BY <1>5, <2>6 DEF Store!StoreNext
<1> QED BY <1>7, <1>8

LEMMA WriteSectorStore ==
  ASSUME FileInv, LoopInv, file_write_sector
  PROVE  Store!StoreNext
<1> DEFINE f == fatfs.file
           p == fatfs.fptr
           sector == SectorAt(p)
           same   == sector = write_pending
           crd    == IF same THEN card ELSE Flushed
           r      == IF same THEN [fs |-> fatfs, cache |-> cache] ELSE Fetched(crd)
           n      == Piece
           new    == Patched(r.cache.data, p % SecSize, n, call.byte)
           view   == View(card, cache)
<1>1. /\ Alive /\ call.op = "write" /\ card' = crd
      /\ cache' = (IF r.cache.hung THEN r.cache ELSE [r.cache EXCEPT !.data = new])
      /\ fatfs' = (IF r.cache.hung THEN fatfs ELSE [r.fs EXCEPT !.fptr = @ + n])
      /\ slot' = slot /\ path' = path /\ openfile' = openfile /\ got' = Nothing
  BY DEF file_write_sector
<1>2. /\ n \in Nat \ {0} /\ (p % SecSize) + n <= SecSize
  BY <1>1, PieceFacts
<1>3. /\ fatfs.flag = FA_OPENED /\ ~ReadOnlyFile[f] /\ call.byte \in Byte
  BY <1>1 DEF FileInv, CallInProgress, LastHandleIsOpen, LoopInv
<1>4. /\ Sound(fatfs) /\ fatfs \in FatFs /\ cache \in CacheT /\ ~cache.hung
      /\ f \in File /\ f # NoFile /\ p \in Nat /\ Bytes[f] \in Nat \ {0}
      /\ card \in [Lba -> Data] /\ Flushed \in [Lba -> Data] /\ Clean(cache, Flushed)
      /\ view \in [Lba -> Data]
  <2>1. /\ Sound(fatfs) /\ fatfs \in FatFs /\ cache \in CacheT /\ ~cache.hung
        /\ f \in File /\ p \in Nat /\ card \in [Lba -> Data]
    BY <1>1, <1>3, SoundNow DEF FileInv, TypeOK, CacheT, Sound, FatFs, Alive
  <2>2. view \in [Lba -> Data]
    BY <2>1, ViewType
  <2> QED BY <2>1, <2>2, FlushedClean, FileAssumption
<1>5. n \in 1 .. SecSize
  <2>1. p % SecSize \in 0 .. SecSize - 1 /\ SecSize \in Nat
    BY <1>4, SectorParts, FileAssumption
  <2> HIDE DEF n, p
  <2> QED BY <1>2, <2>1
<1>6. /\ r.cache \in CacheT /\ r.fs \in FatFs /\ r.fs.flag = FA_OPENED /\ r.fs.file = f
      /\ View(crd, r.cache) = view
      /\ r.cache.hung => ~CardReady /\ crd = card /\ r.cache.lba = cache.lba
                         /\ r.cache.data = cache.data
      /\ Contents(crd) = Durable \/ (CardReady /\ Contents(crd) = Now)
  <2>1. CASE same
    <3>1. r = [fs |-> fatfs, cache |-> cache] /\ crd = card
      BY <2>1
    <3> HIDE DEF r, crd, same
    <3> QED BY <1>3, <1>4, <3>1 DEF Durable
  <2>2. CASE ~same
    <3>1. r = Fetched(Flushed) /\ crd = Flushed
      BY <2>2
    <3> HIDE DEF r, crd, same
    <3>2. /\ r.cache \in CacheT /\ r.fs \in FatFs /\ r.fs.flag = FA_OPENED /\ r.fs.file = f
      BY <1>1, <1>3, <1>4, <3>1, FetchedSound
    <3>3. From(r.cache, Flushed)
      BY <1>1, <1>3, <3>1, FetchedFrom
    <3>4. View(crd, r.cache) = view
      BY <3>1, <3>2, <3>3, SettledView
    <3>5. r.cache.hung => ~CardReady /\ crd = card /\ r.cache.lba = cache.lba
                          /\ r.cache.data = cache.data
      BY <3>1, <3>2, <3>3, HungSame
    <3> QED BY <3>1, <3>2, <3>4, <3>5, FlushSettles
  <2> QED BY <2>1, <2>2
<1>7. CASE r.cache.hung
  <2> HIDE DEF r, crd, same, n, new
  <2> QED BY <1>1, <1>6, <1>7, StallStep
<1>8. CASE ~r.cache.hung
  <2>1. /\ sector \in Sectors(f) => r.cache.lba = <<f, sector>> /\ r.fs.fptr = p
        /\ sector \notin Sectors(f) => p >= Bytes[f] /\ r.fs.fptr >= Bytes[f]
    <3>1. ASSUME sector \notin Sectors(f) PROVE p >= Bytes[f]
      <4>1. ~(p - (p % SecSize) < Bytes[f])
        BY <1>4, <3>1, SectorsOf
      <4>2. p % SecSize \in 0 .. SecSize - 1 /\ SecSize \in Nat
        BY <1>4, SectorParts, FileAssumption
      <4> HIDE DEF p, f
      <4> QED BY <1>4, <4>1, <4>2
    <3>2. CASE same
      <4>1. r.fs = fatfs /\ r.cache = cache /\ write_pending = sector
        BY <3>2
      <4> HIDE DEF r, crd, same
      <4>2. sector \in Sectors(f) => cache.lba = <<f, sector>>
        BY <1>3, <4>1 DEF LoopInv, LoopWaiting
      <4> QED BY <3>1, <4>1, <4>2
    <3>3. CASE ~same
      <4>1. r = Fetched(Flushed)
        BY <3>3
      <4> HIDE DEF r, crd, same
      <4> QED BY <1>1, <1>3, <1>4, <1>8, <3>1, <4>1, FetchedSound
    <3> QED BY <3>2, <3>3
  <2>2. view[r.cache.lba] = r.cache.data /\ r.cache.lba \in Lba
    <3>1. crd \in [Lba -> Data]
      BY <1>4
    <3> HIDE DEF r, crd, view
    <3>2. View(crd, r.cache)[r.cache.lba] = r.cache.data
      BY <1>6, <3>1, ViewType
    <3> QED BY <1>6, <3>2 DEF CacheT
  <2>3. cache'.lba = r.cache.lba /\ cache'.data = new
    <3> HIDE DEF r, new
    <3> QED BY <1>1, <1>6, <1>8 DEF CacheT
  <2>4. View(card', cache') = [view EXCEPT ![r.cache.lba] = new]
    <3>1. crd \in [Lba -> Data] /\ card' = crd
      BY <1>1, <1>4
    <3>2. view = [crd EXCEPT ![r.cache.lba] = r.cache.data]
      <4> HIDE DEF r, crd, view
      <4> QED BY <1>6 DEF View
    <3>3. View(card', cache') = [crd EXCEPT ![r.cache.lba] = new]
      <4> HIDE DEF r, crd, view, new
      <4> QED BY <2>3, <3>1 DEF View
    <3> HIDE DEF r, crd, view, new
    <3> QED BY <2>2, <3>1, <3>2, <3>3
  <2>5. Now' = Contents([view EXCEPT ![r.cache.lba] = new]) /\ Now = Contents(view)
    BY <2>4 DEF Now
  <2>6. Store!Settle /\ CardReady' = CardReady
    <3>1. Durable' = Contents(crd)
      BY <1>1 DEF Durable
    <3> HIDE DEF crd, r
    <3> QED BY <1>1, <1>6, <3>1 DEF Store!Settle, CardReady
  <2>7. Place = [who |-> openfile, file |-> f, pos |-> p]
    BY <1>3 DEF Place
  <2>8. Place' = [who |-> openfile, file |-> f, pos |-> r.fs.fptr + n]
    <3> HIDE DEF r, f, n
    <3> QED BY <1>1, <1>6, <1>8 DEF Place, FatFs
  <2>9. r.fs.fptr \in Nat
    <3> HIDE DEF r
    <3> QED BY <1>6 DEF FatFs
  <2> HIDE DEF crd, r, n, same, view, f, p
  <2>10. CASE sector \in Sectors(f)
    <3>1. new = Patched(view[<<f, SectorAt(p)>>], p % SecSize, n, call.byte)
      BY <2>1, <2>2, <2>10
    <3>2. Now' = [Now EXCEPT ![f] = Store!Filled(@, p, n, call.byte)]
      <4>1. Contents(PatchedAt(view, <<f, SectorAt(p)>>, p % SecSize, n, call.byte))
              = FilledAt(Contents(view), f, p, n, call.byte)
        BY <1>2, <1>4, <2>10, WriteView
      <4> HIDE DEF new
      <4>2. Now' = Contents(PatchedAt(view, <<f, SectorAt(p)>>, p % SecSize, n, call.byte))
        BY <2>1, <2>5, <2>10, <3>1 DEF PatchedAt
      <4> QED BY <2>5, <4>1, <4>2 DEF FilledAt
    <3>3. Place' = [Place EXCEPT !.pos = @ + n] /\ Place.file = f /\ Place.pos = p
      BY <2>1, <2>7, <2>8, <2>10
    <3>4. Store!Write(n, call.byte)
      BY <1>1, <1>3, <1>4, <2>6, <3>2, <3>3 DEF Store!Write, Store!Nothing, Nothing, f
    <3> QED BY <1>3, <1>5, <3>4 DEF Store!StoreNext
  <2>11. CASE sector \notin Sectors(f)
    <3>1. Store!SameButOneSector(Now, Now')
      <4> HIDE DEF new
      <4> QED BY <1>4, <2>2, <2>5, OverrunView
    <3>2. /\ Place.file = f /\ Place.pos >= Bytes[f] /\ Place'.who = Place.who
          /\ Place'.file = f /\ Place'.pos >= Bytes[f]
      <4>1. r.fs.fptr + n >= Bytes[f]
        BY <1>2, <1>4, <2>1, <2>9, <2>11
      <4> QED BY <2>1, <2>7, <2>8, <2>11, <4>1
    <3>3. Store!Overrun
      BY <1>1, <1>3, <1>4, <2>6, <3>1, <3>2 DEF Store!Overrun, Store!Nothing, Nothing, f
    <3> QED BY <3>3 DEF Store!StoreNext
  <2> QED BY <2>10, <2>11
<1> QED BY <1>7, <1>8

-----------------------------------------------------------------------------
LEMMA NextStore ==
  ASSUME FileInv, LoopInv, NamesOnlyWithCard, [Next]_vars
  PROVE  [Store!StoreNext]_Store!storeVars
<1>1. ASSUME NEW h \in Handle, NEW f \in File, file_open_dir(h, f) PROVE Store!StoreNext
  BY <1>1, OpenDirStore
<1>2. ASSUME NEW h \in Handle, file_init(h) PROVE Store!StoreNext
  BY <1>2, InitStore
<1>3. ASSUME NEW h \in Handle, NEW o \in Offset, file_seek(h, o) PROVE Store!StoreNext
  BY <1>3, SeekStore
<1>4. ASSUME NEW h \in Handle, NEW n \in Count, file_read(h, n) PROVE Store!StoreNext
  BY <1>4, ReadStore
<1>5. ASSUME NEW h \in Handle, NEW n \in Count, NEW b \in Byte, file_write(h, n, b)
      PROVE  Store!StoreNext
  BY <1>5, WriteStore
<1>6. ASSUME dir_entries PROVE Store!StoreNext
  BY <1>6, DirEntriesStore
<1>7. ASSUME pf_read PROVE Store!StoreNext
  BY <1>7, PfReadStore
<1>8. ASSUME file_write_sector PROVE Store!StoreNext
  BY <1>8, WriteSectorStore
<1>9. ASSUME file_write_flush PROVE Store!StoreNext
  BY <1>9, FlushStore
<1>10. ASSUME Pull \/ Insert PROVE Store!StoreNext
  BY <1>10, SlotStore
<1>11. ASSUME NoticeRemoval PROVE Store!StoreNext
  BY <1>11, RemovalStore
<1>12. ASSUME dir_init \/ PowerCycle PROVE Store!StoreNext
  BY <1>12, RestartStore
<1>13. ASSUME UNCHANGED vars PROVE UNCHANGED Store!storeVars
  BY <1>13 DEF vars, Store!storeVars, Now, Durable, CardReady, Place
<1> QED BY <1>1, <1>2, <1>3, <1>4, <1>5, <1>6, <1>7, <1>8, <1>9, <1>10, <1>11, <1>12,
           <1>13 DEF Next

LEMMA InitStoreInit == Init => Store!StoreInit /\ LoopInv
<1> SUFFICES ASSUME Init PROVE Store!StoreInit /\ LoopInv
  OBVIOUS
<1>1. FileInv
  BY InitInv
<1>2. cache.data = card[cache.lba] /\ card \in [Lba -> Data] /\ cache \in CacheT
  <2>1. write_pending < 0 /\ slot = "ready"
    BY DEF Init
  <2> QED BY <1>1, <2>1 DEF FileInv, TypeOK, CacheIsCard, CacheT
<1>3. View(card, cache) = card
  BY <1>2 DEF View, CacheT
<1>4. Durable = Now
  BY <1>3 DEF Now, Durable
<1>5. \A f \in File : DOMAIN Now[f] = 0 .. Bytes[f] - 1
  BY DEF Now, Contents
<1>6. Place.file = NoFile /\ Place.pos = 0 /\ CardReady = TRUE
  BY DEF Init, Closed, FA_OPENED, Place, CardReady
<1>7. Store!StoreInit
  BY <1>4, <1>5, <1>6 DEF Store!StoreInit, Init, Store!Nothing, Nothing
<1>8. LoopInv
  BY DEF Init, LoopInv, LoopWaiting, Idle, Sectors
<1> QED BY <1>7, <1>8

\* simplefile.h is implemented by the layers below it: whatever handles are
\* opened, sought, read and written in whatever order, and whenever the card
\* or the power goes, a read gives the bytes written last, and what is lost or
\* hit instead is what FileStore says may be.
THEOREM StoreIsKept == Spec => StoreKept
<1>1. Init => Store!StoreInit /\ LoopInv
  BY InitStoreInit
<1>2. FileInv /\ LoopInv /\ [Next]_vars => LoopInv'
  BY LoopStep
<1>3. FileInv /\ LoopInv /\ NamesOnlyWithCard /\ [Next]_vars => [Store!StoreNext]_Store!storeVars
  BY NextStore
<1> QED BY <1>1, <1>2, <1>3, FileInvariant, PTL DEF Spec, StoreKept, Store!StoreSpec
=============================================================================
