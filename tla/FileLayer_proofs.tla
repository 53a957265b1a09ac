-------------------------- MODULE FileLayer_proofs --------------------------
(***************************************************************************)
(* FileInv is an invariant of FileLayer for files, sectors and clusters of *)
(* every size.  First the arithmetic of sectors and clusters, then what    *)
(* pf_open, pf_lseek and pf_read do to the library's place in a file, then *)
(* one step for each action.                                               *)
(***************************************************************************)
EXTENDS FileLayer, TLAPS

\* A position is a sector and a byte in it.
LEMMA SectorParts ==
  ASSUME NEW p \in Nat
  PROVE  /\ SectorAt(p) \in Nat
         /\ p % SecSize \in 0 .. SecSize - 1
         /\ p = SecSize * SectorAt(p) + (p % SecSize)
  BY FileAssumption DEF SectorAt

LEMMA SectorMono ==
  ASSUME NEW p \in Nat, NEW q \in Nat, p <= q
  PROVE  SectorAt(p) <= SectorAt(q)
  BY FileAssumption DEF SectorAt

LEMMA DivMono ==
  ASSUME NEW a \in Nat, NEW b \in Nat, a <= b, NEW c \in Nat \ {0}
  PROVE  a \div c \in Nat /\ a \div c <= b \div c
  OBVIOUS

LEMMA ClusterType ==
  ASSUME NEW p \in Nat
  PROVE  ClusterAt(p) \in Nat
<1>1. SectorAt(p) \in Nat
  BY SectorParts
<1> QED BY <1>1, DivMono, FileAssumption DEF ClusterAt

LEMMA ClusterMono ==
  ASSUME NEW p \in Nat, NEW q \in Nat, p <= q
  PROVE  ClusterAt(p) <= ClusterAt(q)
<1>1. SectorAt(p) \in Nat /\ SectorAt(q) \in Nat /\ SectorAt(p) <= SectorAt(q)
  BY SectorParts, SectorMono
<1> QED BY <1>1, DivMono, FileAssumption DEF ClusterAt

\* The byte before a place that is not the start of a sector, or is.
LEMMA SectorBefore ==
  ASSUME NEW p \in Nat \ {0}
  PROVE  /\ p % SecSize # 0 => SectorAt(p - 1) = SectorAt(p)
         /\ p % SecSize = 0 => SectorAt(p) \in Nat \ {0} /\ SectorAt(p - 1) = SectorAt(p) - 1
  BY FileAssumption DEF SectorAt

LEMMA DivBefore ==
  ASSUME NEW q \in Nat \ {0}, NEW c \in Nat \ {0}
  PROVE  /\ q % c # 0 => (q - 1) \div c = q \div c
         /\ q % c = 0 => (q - 1) \div c = (q \div c) - 1
  OBVIOUS

\* Bytes that lie in one sector.
LEMMA SectorPiece ==
  ASSUME NEW p \in Nat, NEW n \in Nat \ {0}, (p % SecSize) + n <= SecSize
  PROVE  /\ SectorAt(p + n - 1) = SectorAt(p)
         /\ (p + n) % SecSize # 0 => SectorAt(p + n) = SectorAt(p)
         /\ SectorAt(p + n) = SectorAt(p) \/ SectorAt(p + n) = SectorAt(p) + 1
  BY FileAssumption DEF SectorAt

LEMMA SectorStart ==
  ASSUME NEW p \in Nat
  PROVE  /\ p - (p % SecSize) \in Nat
         /\ p - (p % SecSize) = SecSize * SectorAt(p)
         /\ (p - (p % SecSize)) % SecSize = 0
         /\ SectorAt(p - (p % SecSize)) = SectorAt(p)
  BY FileAssumption DEF SectorAt

\* A sector of a file starts before its end, and only such a sector does.
LEMMA SectorsOf ==
  ASSUME NEW f \in File, NEW p \in Nat
  PROVE  SectorAt(p) \in Sectors(f) <=> p - (p % SecSize) < Bytes[f]
  BY FileAssumption, Bytes[f] \in Nat \ {0} DEF SectorAt, Sectors

\* clust2sect and the sector within the cluster make up the sector of the file.
LEMMA SectorInFile ==
  ASSUME NEW f \in File, NEW p \in Nat
  PROVE  SectorIn([file |-> f, index |-> ClusterAt(p)], p) = <<f, SectorAt(p)>>
<1>1. \A q \in Nat, c \in Nat \ {0} : (q \div c) * c + (q % c) = q
  OBVIOUS
<1>2. ClusterAt(p) * csize + (SectorAt(p) % csize) = SectorAt(p)
  BY <1>1, SectorParts, FileAssumption DEF ClusterAt
<1> QED BY <1>2 DEF SectorIn
-----------------------------------------------------------------------------
CacheT == [lba : Lba, data : Data, hung : BOOLEAN]

\* A library that has a file open and knows its place in it.
Sound(fs) ==
  /\ fs \in FatFs
  /\ fs.flag = FA_OPENED => fs.file \in File /\ KnowsPlace(fs) /\ KnowsEnd(fs)

\* The cache holds what the card crd holds, if that answers.
Clean(c, crd) == slot = "ready" => c.data = crd[c.lba]

LEMMA CachedType ==
  ASSUME NEW c \in CacheT, NEW crd \in [Lba -> Data], NEW l \in Lba
  PROVE  /\ Cached(c, crd, l) \in CacheT
         /\ ~Cached(c, crd, l).hung => Cached(c, crd, l).lba = l /\ ~c.hung
         /\ Clean(c, crd) => Clean(Cached(c, crd, l), crd)
         /\ Cached(c, crd, l).lba \in {c.lba, l}
  BY DEF Cached, CacheT, Clean

LEMMA OpenedSound ==
  ASSUME Sound(fatfs), NEW c \in CacheT, NEW crd \in [Lba -> Data],
         NEW f \in File \cup {NoFile}
  PROVE  LET r == Opened(fatfs, c, crd, f) IN
           /\ Sound(r.fs)
           /\ r.cache \in CacheT
           /\ Clean(c, crd) => Clean(r.cache, crd)
           /\ f # NoFile => r.fs.flag = FA_OPENED /\ r.fs.file = f
           /\ f = NoFile => r.fs.flag # FA_OPENED
<1> DEFINE r == Opened(fatfs, c, crd, f)
<1>1. CASE f = NoFile
  <2> DEFINE flag == Lesser(fatfs.flag, 0)
  <2>0. fatfs \in FatFs /\ flag \in {NotMounted, 0}
    BY DEF Sound, FatFs, Lesser, NotMounted, FA_OPENED
  <2>1. r.fs = [fatfs EXCEPT !.flag = flag] /\ r.cache = c
    BY <1>1 DEF Opened
  <2> HIDE DEF flag
  <2>2. r.fs \in FatFs /\ r.fs.flag # FA_OPENED
    BY <2>0, <2>1 DEF FatFs, FA_OPENED, NotMounted
  <2> QED BY <1>1, <2>1, <2>2 DEF Sound
<1>2. CASE f # NoFile
  <2>1. f \in File
    BY <1>2
  <2>2. /\ r.fs = [fatfs EXCEPT !.flag = FA_OPENED, !.file = f, !.fptr = 0]
        /\ r.cache = Cached(c, crd, Dir)
    BY <1>2 DEF Opened
  <2>3. /\ r.fs \in FatFs /\ r.fs.flag = FA_OPENED /\ r.fs.file = f /\ r.fs.fptr = 0
    <3> HIDE DEF r
    <3>1. fatfs \in FatFs
      BY DEF Sound
    <3>a. fatfs.curr_clust \in Cluster /\ fatfs.dsect \in DataSector
      BY <3>1 DEF FatFs
    <3>b. r.fs = [flag |-> FA_OPENED, file |-> f, fptr |-> 0,
                  curr_clust |-> fatfs.curr_clust, dsect |-> fatfs.dsect]
      BY <3>1, <2>2 DEF FatFs
    <3>2. r.fs \in FatFs
      BY <3>a, <3>b, <2>1 DEF FatFs
    <3>3. r.fs.flag = FA_OPENED
      BY <3>1, <2>2 DEF FatFs
    <3>4. r.fs.file = f /\ r.fs.fptr = 0
      BY <3>1, <2>2 DEF FatFs
    <3> QED BY <3>2, <3>3, <3>4
  <2>4. Bytes[f] \in Nat \ {0}
    BY <2>1, FileAssumption
  <2>5. KnowsPlace(r.fs) /\ KnowsEnd(r.fs)
    BY <2>3, <2>4 DEF KnowsPlace, KnowsEnd
  <2>6. Dir \in Lba
    BY DEF Lba, Meta
  <2> QED BY <1>2, <2>1, <2>2, <2>3, <2>5, <2>6, CachedType DEF Sound
<1> QED BY <1>1, <1>2

\* pf_lseek goes to the place sought, clipped to the file, and to its cluster.
LEMMA SoughtSound ==
  ASSUME NEW fs, Sound(fs), fs.flag = FA_OPENED, NEW c \in CacheT, NEW crd \in [Lba -> Data], NEW o \in Nat
  PROVE  LET r == Sought(fs, c, crd, o) IN
           /\ Sound(r.fs)
           /\ r.fs.flag = FA_OPENED /\ r.fs.file = fs.file
           /\ r.fs.fptr = Lesser(o, Bytes[fs.file])
           /\ r.cache \in CacheT
           /\ Clean(c, crd) => Clean(r.cache, crd)
           /\ r.cache.lba \in {c.lba, Fat}
           /\ o = 0 => r.fs.curr_clust = fs.curr_clust /\ r.fs.dsect = fs.dsect /\ r.cache = c
<1> DEFINE r == Sought(fs, c, crd, o)
           ofs  == Lesser(o, Bytes[fs.file])
           start == IF Onward(fs, ofs) THEN fs.curr_clust ELSE FirstCluster(fs)
           links == ClusterAt(ofs - 1) - (IF Onward(fs, ofs) THEN ClusterAt(fs.fptr - 1) ELSE 0)
           clst  == [start EXCEPT !.index = @ + links]
<1>1. /\ fs.file \in File /\ Bytes[fs.file] \in Nat \ {0} /\ fs.fptr \in Nat
      /\ fs \in FatFs /\ fs.curr_clust \in Cluster
  BY FileAssumption DEF Sound, FatFs, FA_OPENED
<1>2. ofs \in Nat /\ ofs <= Bytes[fs.file] /\ (o = 0 => ofs = 0)
  BY <1>1 DEF Lesser
<1>3. CASE ofs = 0
  <2>1. r.fs = [fs EXCEPT !.fptr = 0] /\ r.cache = c
    BY <1>3 DEF Sought
  <2>2. r.fs \in FatFs /\ r.fs.fptr = 0 /\ r.fs.file = fs.file /\ r.fs.flag = FA_OPENED
        /\ r.fs.curr_clust = fs.curr_clust /\ r.fs.dsect = fs.dsect
    BY <2>1, <1>1 DEF FatFs, FA_OPENED
  <2> QED BY <1>1, <1>3, <2>1, <2>2 DEF Sound, KnowsPlace, KnowsEnd
<1>4. CASE ofs # 0
  <2>1. /\ r.fs = [fs EXCEPT !.fptr = ofs, !.curr_clust = clst, !.dsect = SectorIn(clst, ofs)]
        /\ r.cache = IF links > 0 THEN Cached(c, crd, Fat) ELSE c
    BY <1>4 DEF Sought
  <2>2. ofs - 1 \in Nat /\ ClusterAt(ofs - 1) \in Nat
    BY <1>2, <1>4, ClusterType
  <2>3. clst = [file |-> fs.file, index |-> ClusterAt(ofs - 1)]
    <3>1. CASE ~Onward(fs, ofs)
      BY <3>1, <2>2 DEF FirstCluster
    <3>2. CASE Onward(fs, ofs)
      <4>1. fs.fptr - 1 \in Nat /\ ClusterAt(fs.fptr - 1) \in Nat /\ ClusterAt(ofs - 1) >= ClusterAt(fs.fptr - 1)
        BY <3>2, <1>1, ClusterType DEF Onward
      <4>2. fs.curr_clust = [file |-> fs.file, index |-> ClusterAt(fs.fptr - 1)]
        <5>1. CASE fs.fptr <= Bytes[fs.file]
          BY <5>1, <4>1, <1>1 DEF Sound, KnowsPlace
        <5>2. CASE fs.fptr > Bytes[fs.file]
          <6>1. Bytes[fs.file] - 1 \in Nat /\ ClusterAt(Bytes[fs.file] - 1) \in Nat
            BY <1>1, ClusterType
          <6>2. ClusterAt(ofs - 1) <= ClusterAt(Bytes[fs.file] - 1)
            BY <6>1, <2>2, <1>1, <1>2, ClusterMono
          <6>3. ClusterAt(Bytes[fs.file] - 1) <= ClusterAt(fs.fptr - 1)
            BY <6>1, <4>1, <1>1, <5>2, ClusterMono
          <6>4. ClusterAt(fs.fptr - 1) = ClusterAt(Bytes[fs.file] - 1)
            BY <6>1, <6>2, <6>3, <4>1, <2>2
          <6> QED BY <6>4, <5>2, <1>1 DEF Sound, KnowsEnd
        <5> QED BY <5>1, <5>2, <1>1
      <4> QED BY <4>1, <4>2, <3>2, <2>2
    <3> QED BY <3>1, <3>2
  <2>4. SectorIn(clst, ofs) \in DataSector
    BY <2>3, <2>2, <1>1, <1>2, SectorParts, FileAssumption DEF SectorIn, DataSector
  <2>5. r.fs \in FatFs /\ r.fs.flag = FA_OPENED /\ r.fs.file = fs.file /\ r.fs.fptr = ofs
        /\ r.fs.curr_clust = [file |-> fs.file, index |-> ClusterAt(ofs - 1)]
        /\ r.fs.dsect = SectorIn(clst, ofs)
    <3> HIDE DEF ofs, links, clst
    <3>1. clst \in Cluster
      BY <2>2, <2>3, <1>1 DEF Cluster
    <3> QED BY <2>1, <2>3, <2>4, <3>1, <1>1, <1>2 DEF FatFs, FA_OPENED
  <2>6. ofs % SecSize # 0 => SectorIn(clst, ofs) = <<fs.file, SectorAt(ofs)>>
    <3> SUFFICES ASSUME ofs % SecSize # 0 PROVE SectorIn(clst, ofs) = <<fs.file, SectorAt(ofs)>>
      OBVIOUS
    <3>1. ClusterAt(ofs - 1) = ClusterAt(ofs)
      BY <1>2, <1>4, SectorBefore DEF ClusterAt
    <3> QED BY <3>1, <2>3, <1>1, <1>2, SectorInFile
  <2>7. KnowsPlace(r.fs) /\ KnowsEnd(r.fs)
    BY <2>5, <2>6, <1>1, <1>2 DEF KnowsPlace, KnowsEnd
  <2>8. Fat \in Lba
    BY DEF Lba, Meta
  <2>9. /\ r.cache \in CacheT
        /\ Clean(c, crd) => Clean(r.cache, crd)
        /\ r.cache.lba \in {c.lba, Fat}
    BY <2>1, <2>8, CachedType
  <2> QED BY <2>5, <2>7, <2>9, <1>1, <1>2, <1>4 DEF Sound
<1> QED BY <1>3, <1>4
\* pf_read, with n bytes in a sector of the file, reads that sector.
LEMMA ReadOnSound ==
  ASSUME NEW fs, Sound(fs), fs.flag = FA_OPENED, NEW c \in CacheT, NEW crd \in [Lba -> Data],
         NEW n \in Nat \ {0}, (fs.fptr % SecSize) + n <= SecSize,
         fs.fptr < Bytes[fs.file]
  PROVE  LET r == ReadOn(fs, c, crd, n) IN
           /\ r.fs \in FatFs
           /\ r.fs.flag = FA_OPENED /\ r.fs.file = fs.file /\ r.fs.fptr = fs.fptr + n
           /\ r.fs.curr_clust = [file |-> fs.file, index |-> ClusterAt(fs.fptr)]
           /\ r.fs.dsect = <<fs.file, SectorAt(fs.fptr)>>
           /\ r.cache \in CacheT
           /\ r.cache.hung \/ r.cache.lba = <<fs.file, SectorAt(fs.fptr)>>
           /\ Clean(c, crd) => Clean(r.cache, crd)
<1> DEFINE r    == ReadOn(fs, c, crd, n)
           clst == ClusterToRead(fs)
           sect == IF fs.fptr % SecSize = 0 THEN SectorIn(clst, fs.fptr) ELSE fs.dsect
           link == IF Crossing(fs.fptr) /\ fs.fptr # 0 THEN Cached(c, crd, Fat) ELSE c
<1>1. /\ fs.file \in File /\ Bytes[fs.file] \in Nat \ {0} /\ fs.fptr \in Nat
      /\ fs \in FatFs /\ fs.curr_clust \in Cluster
  BY FileAssumption DEF Sound, FatFs
<1>2. clst = [file |-> fs.file, index |-> ClusterAt(fs.fptr)]
  <2>1. CASE fs.fptr = 0
    <3>1. SectorAt(0) = 0 /\ 0 % SecSize = 0
      BY FileAssumption DEF SectorAt
    <3>2. ClusterAt(0) = 0 /\ SectorAt(0) % csize = 0
      BY <3>1, FileAssumption DEF ClusterAt
    <3> QED BY <2>1, <3>1, <3>2 DEF ClusterToRead, Crossing, FirstCluster
  <2>2. CASE fs.fptr # 0
    <3>1. fs.curr_clust = [file |-> fs.file, index |-> ClusterAt(fs.fptr - 1)]
      BY <2>2, <1>1 DEF Sound, KnowsPlace
    <3>2. CASE Crossing(fs.fptr)
      <4>1. SectorAt(fs.fptr) \in Nat \ {0} /\ SectorAt(fs.fptr - 1) = SectorAt(fs.fptr) - 1
        BY <2>2, <3>2, <1>1, SectorBefore DEF Crossing
      <4>2. ClusterAt(fs.fptr - 1) = ClusterAt(fs.fptr) - 1
        <5>1. SectorAt(fs.fptr) % csize = 0
          BY <3>2 DEF Crossing
        <5>2. (SectorAt(fs.fptr) - 1) \div csize = (SectorAt(fs.fptr) \div csize) - 1
          BY <4>1, <5>1, DivBefore, FileAssumption
        <5> QED BY <4>1, <5>2 DEF ClusterAt
      <4>3. ClusterAt(fs.fptr) \in Nat
        BY <1>1, ClusterType
      <4> QED BY <2>2, <3>1, <3>2, <4>2, <4>3 DEF ClusterToRead
    <3>3. CASE ~Crossing(fs.fptr)
      <4>1. ClusterAt(fs.fptr - 1) = ClusterAt(fs.fptr)
        <5>1. CASE fs.fptr % SecSize # 0
          BY <5>1, <2>2, <1>1, SectorBefore DEF ClusterAt
        <5>2. CASE fs.fptr % SecSize = 0
          <6>1. SectorAt(fs.fptr) \in Nat \ {0} /\ SectorAt(fs.fptr - 1) = SectorAt(fs.fptr) - 1
            BY <2>2, <5>2, <1>1, SectorBefore
          <6>2. SectorAt(fs.fptr) % csize # 0
            BY <5>2, <3>3 DEF Crossing
          <6>3. (SectorAt(fs.fptr) - 1) \div csize = SectorAt(fs.fptr) \div csize
            BY <6>1, <6>2, DivBefore, FileAssumption
          <6> QED BY <6>1, <6>3 DEF ClusterAt
        <5> QED BY <5>1, <5>2
      <4> QED BY <3>1, <3>3, <4>1 DEF ClusterToRead
    <3> QED BY <3>2, <3>3
  <2> QED BY <2>1, <2>2
<1>3. sect = <<fs.file, SectorAt(fs.fptr)>>
  <2>1. CASE fs.fptr % SecSize = 0
    BY <2>1, <1>2, <1>1, SectorInFile
  <2>2. CASE fs.fptr % SecSize # 0
    <3>1. fs.fptr # 0
      BY <2>2, FileAssumption
    <3> QED BY <3>1, <2>2, <1>1 DEF Sound, KnowsPlace
  <2> QED BY <2>1, <2>2
<1>4. SectorAt(fs.fptr) \in Sectors(fs.file)
  <2>1. fs.fptr - (fs.fptr % SecSize) < Bytes[fs.file]
    BY <1>1, SectorParts
  <2> QED BY <2>1, <1>1, SectorsOf
<1>5. sect \in Lba /\ sect \in DataSector /\ Fat \in Lba
  <2> HIDE DEF sect
  <2>1. SectorAt(fs.fptr) \in Int
    BY <1>1, SectorParts
  <2>2. <<fs.file, SectorAt(fs.fptr)>> \in {fs.file} \X Sectors(fs.file)
    BY <1>4
  <2>3. <<fs.file, SectorAt(fs.fptr)>> \in DataLba
    BY <2>2, <1>1 DEF DataLba
  <2>4. <<fs.file, SectorAt(fs.fptr)>> \in (File \cup {NoFile}) \X Int
    BY <2>1, <1>1
  <2> QED BY <1>3, <2>3, <2>4 DEF Lba, DataSector, Meta
<1>6. link \in CacheT /\ (Clean(c, crd) => Clean(link, crd))
  BY <1>5, CachedType
<1>7. /\ r.fs = [fs EXCEPT !.fptr = @ + n, !.curr_clust = clst, !.dsect = sect]
      /\ r.cache = Cached(link, crd, sect)
  BY DEF ReadOn
<1>8. clst \in Cluster
  BY <1>1, <1>2, ClusterType DEF Cluster
<1>9. /\ r.fs \in FatFs
      /\ r.fs.flag = FA_OPENED /\ r.fs.file = fs.file /\ r.fs.fptr = fs.fptr + n
      /\ r.fs.curr_clust = clst /\ r.fs.dsect = sect
  <2> HIDE DEF clst, sect, r
  <2>1. fs.fptr + n \in Nat
    BY <1>1
  <2>2. r.fs = [fs EXCEPT !.fptr = fs.fptr + n, !.curr_clust = clst, !.dsect = sect]
    BY <1>7, <1>1 DEF FatFs
  <2> QED BY <1>1, <1>5, <1>8, <2>1, <2>2 DEF FatFs
<1>10. /\ r.cache \in CacheT
       /\ r.cache.hung \/ r.cache.lba = sect
       /\ Clean(c, crd) => Clean(r.cache, crd)
  <2> HIDE DEF link, sect, r
  <2> QED BY <1>5, <1>6, <1>7, CachedType
<1> QED BY <1>2, <1>3, <1>9, <1>10

\* A place after n bytes of the sector that it is in.
LEMMA PlaceAfter ==
  ASSUME NEW fs \in FatFs, fs.file \in File, NEW p \in Nat, NEW n \in Nat \ {0},
         (p % SecSize) + n <= SecSize,
         fs.fptr = p + n,
         fs.curr_clust = [file |-> fs.file, index |-> ClusterAt(p)],
         fs.dsect = <<fs.file, SectorAt(p)>>
  PROVE  KnowsPlace(fs) /\ KnowsEnd(fs)
<1>1. SectorAt(p + n - 1) = SectorAt(p) /\ ((p + n) % SecSize # 0 => SectorAt(p + n) = SectorAt(p))
  BY SectorPiece
<1>2. ClusterAt(p + n - 1) = ClusterAt(p)
  BY <1>1 DEF ClusterAt
<1> QED BY <1>1, <1>2 DEF KnowsPlace, KnowsEnd
-----------------------------------------------------------------------------
CallT == [op : {"idle", "read", "write"}, rem : Nat, byte : Byte \cup {MetaByte}]

LEMMA SoundNow ==
  ASSUME FileInv
  PROVE  Sound(fatfs)
  BY DEF FileInv, TypeOK, PlaceKept, PlaceBeyond, Sound, FatFs

LEMMA FlushedClean ==
  ASSUME FileInv
  PROVE  Flushed \in [Lba -> Data] /\ Clean(cache, Flushed)
<1>1. /\ card \in [Lba -> Data] /\ cache.lba \in Lba /\ cache.data \in Data
      /\ write_pending \in Nat \cup {-1}
  BY DEF FileInv, TypeOK
<1>2. write_pending < 0 => Clean(cache, card)
  BY DEF FileInv, CacheIsCard, Clean
<1> QED BY <1>1, <1>2 DEF Flushed, Clean

\* file_check_open, after the flush it makes itself or a flush before it.
LEMMA ReadySound ==
  ASSUME FileInv, Alive, NEW h \in Handle
  PROVE  /\ Sound(Ready(h).fs)
         /\ Ready(h).cache \in CacheT
         /\ Clean(Ready(h).cache, Flushed)
         /\ path[h] # NoFile => Ready(h).fs.flag = FA_OPENED /\ Ready(h).fs.file = path[h]
         /\ openfile = h => Ready(h).fs = fatfs /\ Ready(h).cache = cache
<1>1. /\ Sound(fatfs) /\ cache \in CacheT /\ path[h] \in File \cup {NoFile}
      /\ Flushed \in [Lba -> Data] /\ Clean(cache, Flushed)
  BY SoundNow, FlushedClean DEF FileInv, TypeOK, CacheT
<1>2. CASE openfile = h
  <2>1. Ready(h).fs = fatfs /\ Ready(h).cache = cache
    BY <1>2 DEF Ready
  <2>2. path[h] # NoFile => fatfs.flag = FA_OPENED /\ fatfs.file = path[h]
    BY <1>2, FileAssumption DEF FileInv, LastHandleIsOpen
  <2> QED BY <1>1, <2>1, <2>2
<1>3. CASE openfile # h
  <2>1. Ready(h) = Opened(fatfs, cache, Flushed, path[h])
    BY <1>3 DEF Ready
  <2> QED BY <1>1, <1>3, <2>1, OpenedSound
<1> QED BY <1>2, <1>3

\* What a step that leaves no sector waiting has to keep.
LEMMA InvNoneWaiting ==
  ASSUME card' \in [Lba -> Data], cache' \in CacheT, Sound(fatfs'),
         slot' \in {"ready", "out", "cold"}, sd_present' \in BOOLEAN,
         path' \in [Handle -> File \cup {NoFile}], openfile' \in Handle \cup {NoFile},
         call' \in CallT, write_pending' = -1,
         slot' = "ready" => cache'.data = card'[cache'.lba],
         LastHandleIsOpen', CallInProgress'
  PROVE  FileInv'
<1>1. TypeOK'
  BY FileAssumption DEF TypeOK, CacheT, CallT, Sound
<1>2. PlaceKept' /\ PlaceBeyond'
  BY DEF Sound, PlaceKept, PlaceBeyond
<1>3. WaitingSectorStays' /\ CacheIsCard' /\ PlaceOfWaiting'
  BY DEF WaitingSectorStays, CacheIsCard, PlaceOfWaiting, Sectors
<1> QED BY <1>1, <1>2, <1>3 DEF FileInv
\* What every step of a free firmware starts from.
LEMMA FreeNow ==
  ASSUME FileInv, Free
  PROVE  /\ cache \in CacheT /\ ~cache.hung /\ Sound(fatfs)
         /\ card \in [Lba -> Data] /\ Flushed \in [Lba -> Data] /\ Clean(cache, Flushed)
         /\ slot \in {"ready", "out", "cold"} /\ sd_present \in BOOLEAN
         /\ path \in [Handle -> File \cup {NoFile}] /\ openfile \in Handle \cup {NoFile}
         /\ call \in CallT /\ call.op = "idle"
         /\ write_pending \in Nat \cup {-1}
  BY SoundNow, FlushedClean DEF FileInv, TypeOK, CacheT, CallT, Free, Alive

LEMMA OpenDirStep ==
  ASSUME FileInv, NEW h \in Handle, NEW f \in File, file_open_dir(h, f)
  PROVE  FileInv'
<1> DEFINE r == Opened(fatfs, cache, Flushed, f)
<1>1. Free /\ card' = Flushed /\ write_pending' = -1 /\ path' = [path EXCEPT ![h] = f]
      /\ slot' = slot /\ sd_present' = sd_present /\ call' = call
      /\ cache' = r.cache /\ fatfs' = (IF r.cache.hung THEN fatfs ELSE r.fs)
      /\ openfile' = (IF r.cache.hung THEN openfile ELSE h)
  BY DEF file_open_dir, Ends
<1>2. Sound(r.fs) /\ r.cache \in CacheT /\ Clean(r.cache, Flushed)
      /\ r.fs.flag = FA_OPENED /\ r.fs.file = f
  BY <1>1, FreeNow, OpenedSound, FileAssumption
<1>3. Sound(fatfs') /\ (slot' = "ready" => cache'.data = card'[cache'.lba])
  BY <1>1, <1>2, FreeNow DEF Clean
<1>4. path' \in [Handle -> File \cup {NoFile}] /\ path'[h] = f
  BY <1>1, FreeNow
<1>5. LastHandleIsOpen'
  BY <1>1, <1>2, <1>4 DEF LastHandleIsOpen, Alive
<1>6. CallInProgress'
  BY <1>1, FreeNow DEF CallInProgress
<1> HIDE DEF r
<1> QED BY <1>1, <1>2, <1>3, <1>4, <1>5, <1>6, FreeNow, InvNoneWaiting

LEMMA DirEntriesStep ==
  ASSUME FileInv, dir_entries
  PROVE  FileInv'
<1>1. Free /\ card' = Flushed /\ write_pending' = -1 /\ path' = path
      /\ slot' = slot /\ sd_present' = sd_present /\ call' = call
      /\ cache' \in {cache, Cached(cache, Flushed, Dir)} /\ fatfs' = fatfs /\ openfile' = openfile
  BY DEF dir_entries
<1>2. Dir \in Lba
  BY DEF Lba, Meta
<1>3. cache' \in CacheT /\ (slot' = "ready" => cache'.data = card'[cache'.lba])
  <2>1. cache' \in CacheT /\ Clean(cache', Flushed)
    BY <1>1, <1>2, FreeNow, CachedType
  <2> QED BY <1>1, <2>1 DEF Clean
<1>4. Alive
  BY <1>1 DEF Free
<1>5. LastHandleIsOpen'
  BY <1>1, <1>4 DEF FileInv, LastHandleIsOpen
<1>6. CallInProgress'
  BY <1>1, FreeNow DEF CallInProgress
<1> QED BY <1>1, <1>3, <1>5, <1>6, FreeNow, InvNoneWaiting

LEMMA FlushStep ==
  ASSUME FileInv, file_write_flush
  PROVE  FileInv'
<1>1. Free /\ card' = Flushed /\ write_pending' = -1 /\ path' = path
      /\ slot' = slot /\ sd_present' = sd_present /\ call' = call
      /\ cache' = cache /\ fatfs' = fatfs /\ openfile' = openfile
  BY DEF file_write_flush
<1>2. slot' = "ready" => cache'.data = card'[cache'.lba]
  BY <1>1, FreeNow DEF Clean
<1>3. Alive
  BY <1>1 DEF Free
<1>5. LastHandleIsOpen'
  BY <1>1, <1>3 DEF FileInv, LastHandleIsOpen
<1>6. CallInProgress'
  BY <1>1, FreeNow DEF CallInProgress
<1> QED BY <1>1, <1>2, <1>5, <1>6, FreeNow, InvNoneWaiting

LEMMA ReadStep ==
  ASSUME FileInv, NEW h \in Handle, NEW n \in Count, file_read(h, n)
  PROVE  FileInv'
<1> DEFINE r == Ready(h)
           left == IF r.fs.flag = FA_OPENED THEN Lesser(n, Bytes[r.fs.file] - r.fs.fptr) ELSE 0
<1>1. Free /\ card' = Flushed /\ write_pending' = -1 /\ path' = path
      /\ slot' = slot /\ sd_present' = sd_present /\ left >= 0
      /\ call' = (IF left > 0 THEN [op |-> "read", rem |-> left, byte |-> MetaByte] ELSE call)
      /\ cache' = r.cache /\ fatfs' = (IF r.cache.hung THEN fatfs ELSE r.fs)
      /\ openfile' = (IF r.cache.hung THEN openfile ELSE h)
  BY DEF file_read, Ends
<1>2. Alive
  BY <1>1 DEF Free
<1>3. Sound(r.fs) /\ r.cache \in CacheT /\ Clean(r.cache, Flushed)
      /\ (path[h] # NoFile => r.fs.flag = FA_OPENED /\ r.fs.file = path[h])
  BY <1>2, ReadySound
<1>4. Sound(fatfs') /\ (slot' = "ready" => cache'.data = card'[cache'.lba])
  BY <1>1, <1>3, FreeNow DEF Clean
<1>5. LastHandleIsOpen'
  BY <1>1, <1>3 DEF LastHandleIsOpen, Alive
<1>6. left \in Nat
  <2>1. CASE r.fs.flag = FA_OPENED
    <3>1. Bytes[r.fs.file] \in Nat /\ r.fs.fptr \in Nat
      BY <2>1, <1>3, FileAssumption DEF Sound, FatFs
    <3>2. n \in Nat
      BY FileAssumption
    <3> QED BY <3>1, <3>2, <1>1 DEF Lesser
  <2>2. CASE r.fs.flag # FA_OPENED
    BY <2>2
  <2> QED BY <2>1, <2>2
<1>7. call' \in CallT
  <2> HIDE DEF left
  <2> QED BY <1>1, <1>6, FreeNow DEF CallT
<1>8. CallInProgress'
  <2> SUFFICES ASSUME Alive', call'.op # "idle"
               PROVE  call'.op = "read" /\ call'.rem > 0 /\ fatfs'.flag = FA_OPENED
                      /\ fatfs'.fptr + call'.rem <= Bytes[fatfs'.file]
    BY <1>1 DEF CallInProgress
  <2>1. left > 0 /\ call' = [op |-> "read", rem |-> left, byte |-> MetaByte]
    BY <1>1, FreeNow
  <2>2. r.fs.flag = FA_OPENED /\ left <= Bytes[r.fs.file] - r.fs.fptr
    <3>1. r.fs.flag = FA_OPENED
      BY <2>1
    <3>2. Bytes[r.fs.file] \in Nat /\ r.fs.fptr \in Nat
      BY <3>1, <1>3, FileAssumption DEF Sound, FatFs
    <3>3. n \in Nat
      BY FileAssumption
    <3> QED BY <3>1, <3>2, <3>3 DEF Lesser
  <2>3. fatfs' = r.fs
    BY <1>1 DEF Alive
  <2>4. Bytes[r.fs.file] \in Nat /\ r.fs.fptr \in Nat
    BY <2>2, <1>3, FileAssumption DEF Sound, FatFs
  <2> HIDE DEF left, r
  <2> QED BY <2>1, <2>2, <2>3, <2>4, <1>6
<1> HIDE DEF left, r
<1> QED BY <1>1, <1>3, <1>4, <1>5, <1>7, <1>8, FreeNow, InvNoneWaiting

LEMMA InitStep ==
  ASSUME FileInv, NEW h \in Handle, file_init(h)
  PROVE  FileInv'
<1>1. Free /\ path' = [path EXCEPT ![h] = NoFile]
      /\ UNCHANGED <<card, slot, sd_present, cache, openfile, write_pending, fatfs, call>>
  BY DEF file_init, diskVars
<1>2. TypeOK'
  BY <1>1 DEF FileInv, TypeOK
<1>3. LastHandleIsOpen'
  BY <1>1, FreeNow DEF FileInv, LastHandleIsOpen, Alive
<1>4. CallInProgress'
  BY <1>1, FreeNow DEF CallInProgress
<1> QED BY <1>1, <1>2, <1>3, <1>4 DEF FileInv, PlaceKept, WaitingSectorStays, CacheIsCard,
                                      PlaceBeyond, PlaceOfWaiting

LEMMA SeekStep ==
  ASSUME FileInv, NEW h \in Handle, NEW o \in Offset, file_seek(h, o)
  PROVE  FileInv'
<1> DEFINE crd  == IF Keeps(h, o) THEN card ELSE Flushed
           open == Ready(h)
           r    == Sought(open.fs, open.cache, crd, o)
<1>1. Free /\ card' = crd /\ write_pending' = (IF Keeps(h, o) THEN write_pending ELSE -1)
      /\ path' = path /\ slot' = slot /\ sd_present' = sd_present /\ call' = call
      /\ cache' = r.cache /\ fatfs' = (IF r.cache.hung THEN fatfs ELSE r.fs)
      /\ openfile' = (IF r.cache.hung THEN openfile ELSE h)
  BY DEF file_seek, Ends
<1>2. Alive /\ o \in Nat
  BY <1>1, FileAssumption DEF Free
<1>3. /\ Sound(open.fs) /\ open.cache \in CacheT /\ Clean(open.cache, Flushed)
      /\ path[h] # NoFile => open.fs.flag = FA_OPENED /\ open.fs.file = path[h]
      /\ openfile = h => open.fs = fatfs /\ open.cache = cache
  BY <1>2, ReadySound
<1>4. crd \in [Lba -> Data]
  BY <1>1, FreeNow
<1>5. /\ Sound(r.fs) /\ r.cache \in CacheT
      /\ Clean(open.cache, crd) => Clean(r.cache, crd)
      /\ r.fs.flag = open.fs.flag /\ r.fs.file = open.fs.file
      /\ r.cache.lba \in {open.cache.lba, Fat}
      /\ open.fs.flag = FA_OPENED => r.fs.fptr = Lesser(o, Bytes[open.fs.file])
      /\ open.fs.flag = FA_OPENED /\ o = 0 =>
           r.fs.curr_clust = open.fs.curr_clust /\ r.fs.dsect = open.fs.dsect
  <2>1. CASE open.fs.flag = FA_OPENED
    <3> HIDE DEF open, crd, r
    <3>1. r = Sought(open.fs, open.cache, crd, o)
      BY DEF r
    <3> QED BY <2>1, <3>1, <1>2, <1>3, <1>4, SoughtSound
  <2>2. CASE open.fs.flag # FA_OPENED
    <3>1. r.fs = open.fs /\ r.cache = open.cache
      BY <2>2 DEF Sought
    <3> QED BY <2>2, <3>1, <1>3
  <2> QED BY <2>1, <2>2
<1>6. LastHandleIsOpen'
  BY <1>1, <1>3, <1>5 DEF LastHandleIsOpen, Alive
<1>7. CallInProgress'
  BY <1>1, FreeNow DEF CallInProgress
<1>8. Sound(fatfs')
  BY <1>1, <1>5, FreeNow
<1>9. openfile' \in Handle \cup {NoFile}
  BY <1>1, FreeNow
<1> HIDE DEF r, open
<1>10. CASE ~Keeps(h, o)
  <2>1. slot' = "ready" => cache'.data = card'[cache'.lba]
    BY <1>1, <1>3, <1>5, <1>10 DEF Clean
  <2> QED BY <2>1, <1>1, <1>4, <1>5, <1>6, <1>7, <1>8, <1>9, <1>10, FreeNow, InvNoneWaiting
<1>11. CASE Keeps(h, o) /\ write_pending < 0
  <2>1. write_pending' = -1 /\ card' = card /\ openfile = h
    BY <1>1, <1>11, FreeNow DEF Keeps
  <2>2. Clean(cache, card)
    BY <1>11 DEF FileInv, CacheIsCard, Clean
  <2>3. slot' = "ready" => cache'.data = card'[cache'.lba]
    BY <2>1, <2>2, <1>1, <1>3, <1>5 DEF Clean
  <2> QED BY <2>1, <2>3, <1>1, <1>4, <1>5, <1>6, <1>7, <1>8, <1>9, FreeNow, InvNoneWaiting
<1>12. CASE Keeps(h, o) /\ write_pending >= 0
  <2>1. write_pending = o /\ write_pending' = o /\ card' = card /\ openfile = h
        /\ open.fs = fatfs /\ open.cache = cache
    BY <1>1, <1>3, <1>12, FreeNow DEF Keeps
  <2>2. fatfs.flag = FA_OPENED /\ ~ReadOnlyFile[fatfs.file] /\ fatfs.file \in File
        /\ (o \in Sectors(fatfs.file) => cache.lba \in {<<fatfs.file, o>>, Fat})
    <3>1. WaitingSectorStays /\ Sound(fatfs) /\ write_pending >= 0
      BY <1>1, <1>12, FreeNow DEF FileInv
    <3> QED BY <3>1, <2>1 DEF WaitingSectorStays, Sound
  <2>3. fatfs'.flag = FA_OPENED /\ fatfs'.file = fatfs.file
    BY <2>1, <2>2, <1>1, <1>5
  <2>4. WaitingSectorStays'
    BY <2>1, <2>2, <2>3, <1>1, <1>5 DEF WaitingSectorStays, Sectors
  <2>5. CacheIsCard'
    BY <2>1, <1>2 DEF CacheIsCard
  <2>6. PlaceKept' /\ PlaceBeyond'
    BY <1>8 DEF Sound, PlaceKept, PlaceBeyond
  <2>7. PlaceOfWaiting'
    <3>1. CASE r.cache.hung
      BY <3>1, <2>1, <1>1 DEF FileInv, PlaceOfWaiting, Sectors
    <3>2. CASE ~r.cache.hung /\ o = 0
      <4>1. /\ fatfs'.curr_clust = fatfs.curr_clust /\ fatfs'.dsect = fatfs.dsect
            /\ fatfs'.file = fatfs.file
        BY <3>2, <2>1, <2>2, <2>3, <1>1, <1>5
      <4> QED BY <3>2, <4>1, <2>1, <2>2 DEF FileInv, PlaceOfWaiting, Sectors
    <3>3. CASE ~r.cache.hung /\ o # 0
      <4>1. fatfs'.fptr = Lesser(o, Bytes[fatfs.file])
        BY <3>3, <2>1, <2>2, <1>1, <1>5
      <4>2. Bytes[fatfs.file] \in Nat
        BY <2>2, FileAssumption
      <4>3. fatfs'.fptr \in Nat /\ fatfs'.fptr <= o
        BY <4>1, <4>2, <1>2 DEF Lesser
      <4>4. SectorAt(fatfs'.fptr) <= SectorAt(o)
        BY <4>3, <1>2, SectorMono
      <4>5. SectorAt(o) \in Nat /\ SectorAt(o) < o
        BY <3>3, <1>2, FileAssumption DEF SectorAt
      <4>6. SectorAt(fatfs'.fptr) \in Nat
        BY <4>3, SectorParts
      <4>7. write_pending' # 0 /\ write_pending' # SectorAt(fatfs'.fptr)
        BY <4>4, <4>5, <4>6, <3>3, <2>1
      <4> QED BY <4>7 DEF PlaceOfWaiting, SectorAt
    <3> QED BY <3>1, <3>2, <3>3
  <2>8. TypeOK'
    <3>1. fatfs' \in FatFs /\ fatfs'.file # NoFile
      BY <1>8, <2>2, <2>3, FileAssumption DEF Sound
    <3> QED BY <3>1, <2>1, <1>1, <1>2, <1>5, <1>9, FreeNow DEF TypeOK, CacheT, CallT
  <2> QED BY <2>4, <2>5, <2>6, <2>7, <2>8, <1>6, <1>7 DEF FileInv
<1>13. write_pending < 0 \/ write_pending >= 0
  BY <1>1, FreeNow
<1> QED BY <1>10, <1>11, <1>12, <1>13

\* The part of a transfer that lies in one sector.
LEMMA PieceFacts ==
  ASSUME FileInv, Alive, call.op # "idle"
  PROVE  /\ Piece \in Nat \ {0} /\ Piece <= call.rem
         /\ (fatfs.fptr % SecSize) + Piece <= SecSize
         /\ After(Piece) \in CallT
         /\ After(Piece).op # "idle" =>
              After(Piece).op = call.op /\ After(Piece).rem = call.rem - Piece /\ call.rem > Piece
<1>1. call \in CallT /\ call.rem \in Nat \ {0} /\ fatfs.fptr \in Nat
  BY DEF FileInv, TypeOK, CallInProgress, CallT, FatFs
<1>2. fatfs.fptr % SecSize \in 0 .. SecSize - 1
  BY <1>1, SectorParts
<1>3. Piece \in Nat \ {0} /\ Piece <= call.rem /\ (fatfs.fptr % SecSize) + Piece <= SecSize
  BY <1>1, <1>2, FileAssumption DEF Piece, Lesser
<1>4. CASE call.rem = Piece
  BY <1>3, <1>4 DEF After, Idle, CallT
<1>5. CASE call.rem # Piece
  <2> HIDE DEF Piece
  <2>1. After(Piece) = [call EXCEPT !.rem = call.rem - Piece] /\ call.rem - Piece \in Nat
    BY <1>1, <1>3, <1>5 DEF After, CallT
  <2> QED BY <2>1, <1>1, <1>3, <1>5 DEF CallT
<1> QED BY <1>3, <1>4, <1>5

LEMMA PfReadStep ==
  ASSUME FileInv, pf_read
  PROVE  FileInv'
<1> DEFINE r == ReadOn(fatfs, cache, card, Piece)
<1>1. Alive /\ call.op = "read" /\ call' = After(Piece)
      /\ cache' = r.cache /\ fatfs' = (IF r.cache.hung THEN fatfs ELSE r.fs)
      /\ card' = card /\ slot' = slot /\ sd_present' = sd_present /\ path' = path
      /\ openfile' = openfile /\ write_pending' = write_pending
  BY DEF pf_read, Ends, diskVars
<1>2. fatfs.flag = FA_OPENED /\ fatfs.fptr + call.rem <= Bytes[fatfs.file] /\ write_pending = -1
  BY <1>1 DEF FileInv, CallInProgress
<1>3. /\ Piece \in Nat \ {0} /\ Piece <= call.rem /\ (fatfs.fptr % SecSize) + Piece <= SecSize
      /\ After(Piece) \in CallT
      /\ After(Piece).op # "idle" =>
           After(Piece).op = call.op /\ After(Piece).rem = call.rem - Piece /\ call.rem > Piece
  BY <1>1, PieceFacts
<1>4. /\ Sound(fatfs) /\ cache \in CacheT /\ card \in [Lba -> Data]
      /\ fatfs.file \in File /\ fatfs.fptr \in Nat /\ Bytes[fatfs.file] \in Nat
      /\ call.rem \in Nat
  BY <1>2, SoundNow, FileAssumption DEF FileInv, TypeOK, CacheT, Sound, FatFs
<1>5. fatfs.fptr < Bytes[fatfs.file]
  BY <1>2, <1>3, <1>4
<1>6. Clean(cache, card)
  BY <1>2 DEF FileInv, CacheIsCard, Clean
<1>7. /\ r.fs \in FatFs
      /\ r.fs.flag = FA_OPENED /\ r.fs.file = fatfs.file /\ r.fs.fptr = fatfs.fptr + Piece
      /\ r.fs.curr_clust = [file |-> fatfs.file, index |-> ClusterAt(fatfs.fptr)]
      /\ r.fs.dsect = <<fatfs.file, SectorAt(fatfs.fptr)>>
      /\ r.cache \in CacheT /\ Clean(r.cache, card)
  <2> HIDE DEF Piece
  <2> QED BY <1>2, <1>3, <1>4, <1>5, <1>6, ReadOnSound
<1> HIDE DEF r, Piece
<1>8. Sound(r.fs)
  <2>1. KnowsPlace(r.fs) /\ KnowsEnd(r.fs)
    BY <1>3, <1>4, <1>7, PlaceAfter
  <2> QED BY <2>1, <1>4, <1>7 DEF Sound
<1>9. LastHandleIsOpen'
  BY <1>1, <1>7 DEF FileInv, LastHandleIsOpen
<1>10. CallInProgress'
  <2> SUFFICES ASSUME Alive', call'.op # "idle"
               PROVE  call'.op = "read" /\ call'.rem > 0 /\ fatfs'.flag = FA_OPENED
                      /\ fatfs'.fptr + call'.rem <= Bytes[fatfs'.file] /\ write_pending' = -1
    BY DEF CallInProgress
  <2>1. fatfs' = r.fs
    BY <1>1 DEF Alive
  <2>2. call'.rem = call.rem - Piece /\ call'.rem > 0 /\ call'.op = "read"
    BY <1>1, <1>3, <1>4
  <2> QED BY <2>1, <2>2, <1>1, <1>2, <1>3, <1>4, <1>7
<1>11. /\ slot' \in {"ready", "out", "cold"} /\ sd_present' \in BOOLEAN
       /\ path' \in [Handle -> File \cup {NoFile}] /\ openfile' \in Handle \cup {NoFile}
  BY <1>1 DEF FileInv, TypeOK
<1>12. Sound(fatfs') /\ (slot' = "ready" => cache'.data = card'[cache'.lba])
  BY <1>1, <1>4, <1>7, <1>8 DEF Clean
<1> QED BY <1>1, <1>2, <1>3, <1>4, <1>7, <1>9, <1>10, <1>11, <1>12, InvNoneWaiting

LEMMA WriteStep ==
  ASSUME FileInv, NEW h \in Handle, NEW n \in Count, NEW b \in Byte, file_write(h, n, b)
  PROVE  FileInv'
<1> DEFINE r == Ready(h)
<1>1. Free /\ path[h] # NoFile /\ ~ReadOnlyFile[path[h]]
      /\ card' = (IF openfile = h THEN card ELSE Flushed)
      /\ write_pending' = (IF openfile = h THEN write_pending ELSE -1)
      /\ cache' = r.cache /\ fatfs' = (IF r.cache.hung THEN fatfs ELSE r.fs)
      /\ openfile' = (IF r.cache.hung THEN openfile ELSE h)
      /\ call' = [op |-> "write", rem |-> n, byte |-> b]
      /\ path' = path /\ slot' = slot /\ sd_present' = sd_present
  BY DEF file_write, Ends
<1>2. Alive
  BY <1>1 DEF Free
<1>3. Sound(r.fs) /\ r.cache \in CacheT /\ Clean(r.cache, Flushed)
      /\ r.fs.flag = FA_OPENED /\ r.fs.file = path[h]
      /\ (openfile = h => r.fs = fatfs /\ r.cache = cache)
  BY <1>1, <1>2, ReadySound
<1>4. n \in Nat \ {0} /\ call' \in CallT
  BY <1>1, FileAssumption DEF CallT
<1>5. CallInProgress'
  <2>1. h # NoFile
    BY FileAssumption
  <2> HIDE DEF r
  <2>2. Alive' => openfile' = h
    BY <1>1 DEF Alive
  <2> QED BY <2>1, <2>2, <1>1, <1>4 DEF CallInProgress
<1>6. LastHandleIsOpen'
  BY <1>1, <1>3 DEF LastHandleIsOpen, Alive
<1> HIDE DEF r
<1>7. CASE openfile # h
  <2>1. slot' = "ready" => cache'.data = card'[cache'.lba]
    BY <1>1, <1>3, <1>7 DEF Clean
  <2> QED BY <2>1, <1>1, <1>3, <1>4, <1>5, <1>6, <1>7, FreeNow, InvNoneWaiting
<1>8. CASE openfile = h
  <2>1. UNCHANGED <<card, slot, sd_present, cache, path, openfile, write_pending, fatfs>>
    BY <1>1, <1>3, <1>8
  <2>2. TypeOK'
    BY <2>1, <1>4 DEF FileInv, TypeOK, CallT
  <2> QED BY <2>1, <2>2, <1>5, <1>6 DEF FileInv, PlaceKept, WaitingSectorStays, CacheIsCard,
                                      PlaceBeyond, PlaceOfWaiting
<1> QED BY <1>7, <1>8

LEMMA PatchedType ==
  ASSUME NEW data \in Data, NEW pos, NEW n, NEW b \in Byte \cup {MetaByte}
  PROVE  Patched(data, pos, n, b) \in Data
  BY DEF Patched, Data

\* file_write's loop fetches the sector of the position, or at or beyond the
\* end only finds the place of the end.
LEMMA FetchedSound ==
  ASSUME FileInv, Alive, fatfs.flag = FA_OPENED, NEW crd \in [Lba -> Data], Clean(cache, crd)
  PROVE  LET r == Fetched(crd)
             f == fatfs.file
             p == fatfs.fptr IN
           /\ r.cache \in CacheT /\ Clean(r.cache, crd)
           /\ r.fs \in FatFs /\ r.fs.flag = FA_OPENED /\ r.fs.file = f
           /\ SectorAt(p) \in Sectors(f) =>
                /\ r.cache.hung \/ r.cache.lba = <<f, SectorAt(p)>>
                /\ r.fs.fptr = p
                /\ r.fs.curr_clust = [file |-> f, index |-> ClusterAt(p)]
                /\ r.fs.dsect = <<f, SectorAt(p)>>
           /\ SectorAt(p) \notin Sectors(f) =>
                /\ r.fs.fptr >= Bytes[f]
                /\ r.fs.curr_clust = [file |-> f, index |-> ClusterAt(Bytes[f] - 1)]
<1> DEFINE r == Fetched(crd)
           f == fatfs.file
           p == fatfs.fptr
           o == p - (p % SecSize)
           t == Sought(fatfs, cache, crd, o)
           s == IF t.fs.flag = FA_OPENED /\ t.fs.fptr < Bytes[t.fs.file]
                THEN ReadOn(t.fs, t.cache, crd, 1) ELSE t
<1>1. /\ Sound(fatfs) /\ cache \in CacheT /\ f \in File /\ p \in Nat /\ Bytes[f] \in Nat \ {0}
  BY SoundNow, FileAssumption DEF FileInv, TypeOK, CacheT, Sound, FatFs
<1>2. /\ o \in Nat /\ o % SecSize = 0 /\ SectorAt(o) = SectorAt(p) /\ p % SecSize \in 0 .. SecSize - 1
      /\ o + (p % SecSize) = p
  BY <1>1, SectorStart, SectorParts
<1>3. SectorAt(p) \in Sectors(f) <=> o < Bytes[f]
  BY <1>1, SectorsOf
<1>4. /\ Sound(t.fs) /\ t.fs.flag = FA_OPENED /\ t.fs.file = f
      /\ t.fs.fptr = Lesser(o, Bytes[f]) /\ t.cache \in CacheT /\ Clean(t.cache, crd)
  <2> HIDE DEF o
  <2> QED BY <1>1, <1>2, SoughtSound
<1>5. r = [s EXCEPT !.fs.fptr = t.fs.fptr + (p % SecSize)]
  BY DEF Fetched
<1> HIDE DEF r, t, o
<1>6. CASE o < Bytes[f]
  <2>1. t.fs.fptr = o
    BY <1>1, <1>2, <1>4, <1>6 DEF Lesser
  <2>2. s = ReadOn(t.fs, t.cache, crd, 1)
    BY <2>1, <1>4, <1>6
  <2>3. (t.fs.fptr % SecSize) + 1 <= SecSize
    BY <2>1, <1>2, FileAssumption
  <2> DEFINE u == ReadOn(t.fs, t.cache, crd, 1)
  <2>4. /\ u.fs \in FatFs
        /\ u.fs.flag = FA_OPENED /\ u.fs.file = f
        /\ u.fs.curr_clust = [file |-> f, index |-> ClusterAt(o)]
        /\ u.fs.dsect = <<f, SectorAt(o)>>
        /\ u.cache \in CacheT /\ Clean(u.cache, crd)
        /\ u.cache.hung \/ u.cache.lba = <<f, SectorAt(o)>>
    <3> HIDE DEF u
    <3>1. u = ReadOn(t.fs, t.cache, crd, 1)
      BY DEF u
    <3> QED BY <2>1, <2>3, <3>1, <1>4, <1>6, ReadOnSound
  <2>5. u = [fs |-> u.fs, cache |-> u.cache]
    BY DEF ReadOn
  <2>6. r = [fs |-> [u.fs EXCEPT !.fptr = p], cache |-> u.cache]
    <3> HIDE DEF u
    <3>1. r = [u EXCEPT !.fs.fptr = p]
      BY <2>1, <2>2, <1>2, <1>5 DEF u
    <3> QED BY <2>5, <3>1
  <2> HIDE DEF u
  <2>7. /\ r.fs \in FatFs /\ r.fs.flag = FA_OPENED /\ r.fs.file = f /\ r.fs.fptr = p
        /\ r.fs.curr_clust = u.fs.curr_clust /\ r.fs.dsect = u.fs.dsect
    <3>1. r.fs = [u.fs EXCEPT !.fptr = p]
      BY <2>6
    <3> QED BY <3>1, <2>4, <1>1 DEF FatFs
  <2>8. ClusterAt(o) = ClusterAt(p)
    BY <1>2 DEF ClusterAt
  <2>9. r.cache = u.cache
    BY <2>6
  <2> QED BY <2>4, <2>7, <2>8, <2>9, <1>2, <1>3, <1>6 DEF r
<1>7. CASE ~(o < Bytes[f])
  <2>1. t.fs.fptr = Bytes[f]
    BY <1>1, <1>2, <1>4, <1>7 DEF Lesser
  <2>2. s = t
    BY <2>1, <1>1, <1>4
  <2>3. t = [fs |-> t.fs, cache |-> t.cache]
    BY DEF t, Sought
  <2>4. r = [fs |-> [t.fs EXCEPT !.fptr = Bytes[f] + (p % SecSize)], cache |-> t.cache]
    <3>1. r = [t EXCEPT !.fs.fptr = Bytes[f] + (p % SecSize)]
      BY <2>1, <2>2, <1>5
    <3> QED BY <2>3, <3>1
  <2>5. /\ r.fs \in FatFs /\ r.fs.flag = FA_OPENED /\ r.fs.file = f
        /\ r.fs.fptr = Bytes[f] + (p % SecSize) /\ r.fs.curr_clust = t.fs.curr_clust
    <3>1. r.fs = [t.fs EXCEPT !.fptr = Bytes[f] + (p % SecSize)]
      BY <2>4
    <3>2. Bytes[f] + (p % SecSize) \in Nat
      BY <1>1, <1>2
    <3>3. t.fs \in FatFs
      BY <1>4 DEF Sound
    <3> QED BY <3>1, <3>2, <3>3, <1>4 DEF FatFs
  <2>6. t.fs.curr_clust = [file |-> f, index |-> ClusterAt(Bytes[f] - 1)]
    BY <2>1, <1>1, <1>4 DEF Sound, KnowsPlace
  <2>7. r.cache = t.cache
    BY <2>4
  <2>8. r.fs.fptr >= Bytes[f]
    BY <2>5, <1>1, <1>2
  <2> QED BY <2>5, <2>6, <2>7, <2>8, <1>3, <1>4, <1>7 DEF r
<1> QED BY <1>6, <1>7

LEMMA WriteSectorStep ==
  ASSUME FileInv, file_write_sector
  PROVE  FileInv'
<1> DEFINE f == fatfs.file
           p == fatfs.fptr
           sector == SectorAt(p)
           same   == sector = write_pending
           crd    == IF same THEN card ELSE Flushed
           r      == IF same THEN [fs |-> fatfs, cache |-> cache] ELSE Fetched(crd)
           n      == Piece
<1>1. /\ Alive /\ call.op = "write" /\ card' = crd
      /\ cache' = (IF r.cache.hung THEN r.cache
                   ELSE [r.cache EXCEPT !.data = Patched(@, p % SecSize, n, call.byte)])
      /\ fatfs' = (IF r.cache.hung THEN fatfs ELSE [r.fs EXCEPT !.fptr = @ + n])
      /\ write_pending' = (IF r.cache.hung THEN -1 ELSE sector)
      /\ call' = After(n)
      /\ slot' = slot /\ sd_present' = sd_present /\ path' = path /\ openfile' = openfile
  BY DEF file_write_sector
<1>2. /\ n \in Nat \ {0} /\ (p % SecSize) + n <= SecSize
      /\ call' \in CallT
      /\ call'.op # "idle" =>
           call'.op = call.op /\ call'.rem = call.rem - n /\ call.rem > n
  BY <1>1, PieceFacts
<1>3. /\ openfile # NoFile /\ path[openfile] # NoFile /\ ~ReadOnlyFile[path[openfile]]
      /\ fatfs.flag = FA_OPENED /\ f = path[openfile]
  BY <1>1 DEF FileInv, CallInProgress, LastHandleIsOpen
<1>4. /\ Sound(fatfs) /\ fatfs \in FatFs /\ cache \in CacheT /\ ~cache.hung
      /\ f \in File /\ p \in Nat /\ Bytes[f] \in Nat \ {0}
      /\ call \in CallT /\ call.rem \in Nat /\ card \in [Lba -> Data]
      /\ Flushed \in [Lba -> Data] /\ Clean(cache, Flushed)
      /\ sector \in Nat
  <2>1. /\ Sound(fatfs) /\ fatfs \in FatFs /\ cache \in CacheT /\ ~cache.hung
        /\ f \in File /\ p \in Nat /\ card \in [Lba -> Data]
    BY <1>1, <1>3, SoundNow DEF FileInv, TypeOK, CacheT, Sound, FatFs, Alive
  <2>2. call \in CallT /\ call.rem \in Nat
    BY DEF FileInv, TypeOK, CallT
  <2> QED BY <2>1, <2>2, FlushedClean, SectorParts, FileAssumption
<1>5. /\ slot' \in {"ready", "out", "cold"} /\ sd_present' \in BOOLEAN
      /\ path' \in [Handle -> File \cup {NoFile}] /\ openfile' \in Handle \cup {NoFile}
  BY <1>1 DEF FileInv, TypeOK
<1>6. CallInProgress'
  <2> HIDE DEF n
  <2> QED BY <1>1, <1>2, <1>3, <1>4 DEF CallInProgress
<1>7. crd \in [Lba -> Data]
  BY <1>4
<1>8. /\ r.cache \in CacheT /\ r.fs \in FatFs /\ r.fs.flag = FA_OPENED /\ r.fs.file = f
      /\ ~same => Clean(r.cache, crd)
  <2>1. CASE same
    BY <2>1, <1>3, <1>4
  <2>2. CASE ~same
    <3>1. r = Fetched(Flushed) /\ crd = Flushed
      BY <2>2
    <3> HIDE DEF r, crd, same
    <3> QED BY <2>2, <3>1, <1>1, <1>3, <1>4, FetchedSound
  <2> QED BY <2>1, <2>2
<1>9. CASE r.cache.hung
  <2>1. ~same
    BY <1>4, <1>9
  <2>2. slot' = "ready" => cache'.data = card'[cache'.lba]
    BY <2>1, <1>1, <1>8, <1>9 DEF Clean
  <2>3. fatfs' = fatfs /\ cache' = r.cache /\ write_pending' = -1
    BY <1>1, <1>9
  <2>4. LastHandleIsOpen'
    BY <2>3, <1>9 DEF LastHandleIsOpen, Alive
  <2> HIDE DEF r, crd, same, n
  <2> QED BY <2>2, <2>3, <2>4, <1>1, <1>2, <1>4, <1>5, <1>6, <1>7, <1>8, InvNoneWaiting
<1>10. CASE ~r.cache.hung
  <2>1. /\ cache' = [r.cache EXCEPT !.data = Patched(@, p % SecSize, n, call.byte)]
        /\ fatfs' = [r.fs EXCEPT !.fptr = @ + n] /\ write_pending' = sector
    BY <1>1, <1>10
  <2>2. /\ \/ sector \notin Sectors(f)
           \/ r.cache.lba \in {<<f, sector>>, Fat}
        /\ sector \in Sectors(f) =>
             /\ r.fs.fptr = p
             /\ r.fs.curr_clust = [file |-> f, index |-> ClusterAt(p)]
             /\ r.fs.dsect = <<f, sector>>
        /\ sector \notin Sectors(f) =>
             /\ r.fs.fptr >= Bytes[f]
             /\ ClusterAt(r.fs.fptr + n - 1) = ClusterAt(Bytes[f] - 1) =>
                  r.fs.curr_clust = [file |-> f, index |-> ClusterAt(Bytes[f] - 1)]
    <3>1. CASE ~same
      <4>1. r = Fetched(Flushed)
        BY <3>1
      <4> HIDE DEF r, crd, same, n
      <4> QED BY <4>1, <1>1, <1>3, <1>4, <1>10, FetchedSound
    <3>2. CASE same
      <4>1. r.fs = fatfs /\ r.cache = cache /\ write_pending = sector
        BY <3>2
      <4> HIDE DEF r, crd, same, n
      <4>2. CASE sector \in Sectors(f)
        <5>1. cache.lba \in {<<f, sector>>, Fat}
          BY <4>1, <4>2, <1>4 DEF FileInv, WaitingSectorStays
        <5>2. /\ fatfs.curr_clust = [file |-> f, index |-> ClusterAt(p)]
              /\ fatfs.dsect = <<f, sector>>
          BY <4>1, <4>2, <1>3 DEF FileInv, PlaceOfWaiting, ClusterAt
        <5> QED BY <4>1, <4>2, <5>1, <5>2
      <4>3. CASE sector \notin Sectors(f)
        <5>1. p >= Bytes[f]
          <6>1. ~(p - (p % SecSize) < Bytes[f])
            BY <4>3, <1>4, SectorsOf
          <6>2. p % SecSize \in 0 .. SecSize - 1
            BY <1>4, SectorParts
          <6> QED BY <6>1, <6>2, <1>4, FileAssumption
        <5>2. ASSUME ClusterAt(p + n - 1) = ClusterAt(Bytes[f] - 1)
              PROVE  fatfs.curr_clust = [file |-> f, index |-> ClusterAt(Bytes[f] - 1)]
          <6>1. CASE p = Bytes[f]
            BY <6>1, <1>3, <1>4 DEF Sound, KnowsPlace
          <6>2. CASE p > Bytes[f]
            <7>1. /\ Bytes[f] - 1 \in Nat /\ p - 1 \in Nat /\ p + n - 1 \in Nat
                  /\ Bytes[f] - 1 <= p - 1 /\ p - 1 <= p + n - 1
              BY <6>2, <1>2, <1>4
            <7>2. /\ ClusterAt(Bytes[f] - 1) \in Nat /\ ClusterAt(p - 1) \in Nat
                  /\ ClusterAt(Bytes[f] - 1) <= ClusterAt(p - 1)
                  /\ ClusterAt(p - 1) <= ClusterAt(p + n - 1)
              BY <7>1, ClusterType, ClusterMono
            <7>3. ClusterAt(p - 1) = ClusterAt(Bytes[f] - 1)
              BY <7>2, <5>2
            <7> QED BY <7>3, <6>2, <1>3, <1>4 DEF Sound, KnowsEnd
          <6> QED BY <6>1, <6>2, <5>1, <1>4
        <5> QED BY <4>1, <4>3, <5>1, <5>2
      <4> QED BY <4>2, <4>3
    <3> QED BY <3>1, <3>2
  <2> HIDE DEF r, crd, same, n
  <2>3. r.fs.fptr + n \in Nat
    BY <1>2, <1>8 DEF FatFs
  <2>4. /\ fatfs' \in FatFs /\ fatfs'.flag = FA_OPENED /\ fatfs'.file = f
        /\ fatfs'.fptr = r.fs.fptr + n
        /\ fatfs'.curr_clust = r.fs.curr_clust /\ fatfs'.dsect = r.fs.dsect
    BY <2>1, <2>3, <1>8 DEF FatFs
  <2>5. cache' \in CacheT /\ cache'.lba = r.cache.lba /\ ~cache'.hung
    <3>1. Patched(r.cache.data, p % SecSize, n, call.byte) \in Data
      BY <1>4, <1>8, PatchedType DEF CacheT, CallT
    <3> QED BY <3>1, <2>1, <1>8, <1>10 DEF CacheT
  <2>6. KnowsPlace(fatfs') /\ KnowsEnd(fatfs')
    <3>1. CASE sector \in Sectors(f)
      BY <3>1, <2>2, <2>4, <1>2, <1>4, PlaceAfter
    <3>2. CASE sector \notin Sectors(f)
      <4>1. fatfs'.fptr > Bytes[f]
        BY <3>2, <2>2, <2>3, <2>4, <1>2, <1>4, <1>8 DEF FatFs
      <4>2. fatfs'.file = f /\ Bytes[f] \in Nat /\ fatfs'.fptr \in Nat
        BY <2>4, <1>4 DEF FatFs
      <4>3. ClusterAt(fatfs'.fptr - 1) = ClusterAt(Bytes[f] - 1) =>
              fatfs'.curr_clust = [file |-> f, index |-> ClusterAt(Bytes[f] - 1)]
        <5>1. fatfs'.fptr - 1 = r.fs.fptr + n - 1
          BY <2>3, <2>4, <1>2, <1>8 DEF FatFs
        <5>2. fatfs'.curr_clust = r.fs.curr_clust
          BY <2>4
        <5> HIDE DEF f, sector
        <5> QED BY <5>1, <5>2, <3>2, <2>2
      <4> HIDE DEF f
      <4>4. KnowsPlace(fatfs')
        BY <4>1, <4>2 DEF KnowsPlace
      <4>5. KnowsEnd(fatfs')
        BY <4>2, <4>3 DEF KnowsEnd
      <4> QED BY <4>4, <4>5
    <3> QED BY <3>1, <3>2
  <2>7. TypeOK'
    <3>1. fatfs'.file # NoFile
      BY <2>4, <1>4, FileAssumption
    <3> QED BY <3>1, <2>1, <2>4, <2>5, <1>1, <1>2, <1>4, <1>5, <1>7 DEF TypeOK, CacheT, CallT
  <2>8. PlaceKept' /\ PlaceBeyond'
    BY <2>6 DEF PlaceKept, PlaceBeyond
  <2>9. WaitingSectorStays'
    <3>1. ~ReadOnlyFile[fatfs'.file]
      BY <2>4, <1>3
    <3> QED BY <3>1, <2>1, <2>2, <2>4, <2>5 DEF WaitingSectorStays
  <2>10. CacheIsCard'
    BY <2>1, <1>4 DEF CacheIsCard
  <2>11. LastHandleIsOpen'
    BY <2>4, <1>1, <1>3 DEF LastHandleIsOpen
  <2>12. PlaceOfWaiting'
    BY <2>1, <2>2, <2>4 DEF PlaceOfWaiting, ClusterAt
  <2> QED BY <2>7, <2>8, <2>9, <2>10, <2>11, <2>12, <1>6 DEF FileInv
<1> QED BY <1>9, <1>10

LEMMA SlotStep ==
  ASSUME FileInv, Pull \/ Insert
  PROVE  FileInv'
<1>1. /\ slot' \in {"out", "cold"}
      /\ UNCHANGED <<card, sd_present, cache, path, openfile, write_pending, fatfs, call>>
  BY DEF Pull, Insert
<1>2. TypeOK'
  BY <1>1 DEF FileInv, TypeOK
<1>3. CacheIsCard'
  BY <1>1 DEF CacheIsCard
<1>4. Alive' <=> Alive
  BY <1>1 DEF Alive
<1>5. LastHandleIsOpen' /\ CallInProgress'
  BY <1>1, <1>4 DEF FileInv, LastHandleIsOpen, CallInProgress
<1> QED BY <1>1, <1>2, <1>3, <1>5 DEF FileInv, PlaceKept, WaitingSectorStays,
                                      PlaceBeyond, PlaceOfWaiting

LEMMA NoticeRemovalStep ==
  ASSUME FileInv, NoticeRemoval
  PROVE  FileInv'
<1>1. Free /\ sd_present' = FALSE /\ path' = [h \in Handle |-> NoFile]
      /\ UNCHANGED <<card, slot, cache, openfile, write_pending, fatfs, call>>
  BY DEF NoticeRemoval
<1>2. TypeOK'
  BY <1>1 DEF FileInv, TypeOK
<1>3. LastHandleIsOpen'
  BY <1>1, FreeNow DEF LastHandleIsOpen
<1>4. CallInProgress'
  BY <1>1, FreeNow DEF CallInProgress
<1> QED BY <1>1, <1>2, <1>3, <1>4 DEF FileInv, PlaceKept, WaitingSectorStays, CacheIsCard,
                                      PlaceBeyond, PlaceOfWaiting

LEMMA ClosedSound ==
  Sound(Closed) /\ Sound([Closed EXCEPT !.flag = NotMounted])
<1>1. Closed \in FatFs
  BY DEF Closed, FatFs, Cluster, DataSector, Meta
<1> DEFINE c == [Closed EXCEPT !.flag = NotMounted]
<1>2. c \in FatFs /\ c.flag = NotMounted
  BY <1>1 DEF FatFs
<1>3. Sound(Closed)
  BY <1>1 DEF Closed, Sound, FA_OPENED
<1> HIDE DEF c
<1>4. Sound(c)
  BY <1>2 DEF Sound, FA_OPENED, NotMounted
<1> QED BY <1>3, <1>4 DEF c

LEMMA CacheExcept ==
  ASSUME NEW l, NEW d, NEW e, NEW g
  PROVE  [[lba |-> l, data |-> d, hung |-> g] EXCEPT !.data = e]
           = [lba |-> l, data |-> e, hung |-> g]
  OBVIOUS

LEMMA CacheRecord ==
  ASSUME NEW l \in Lba, NEW d \in Data, NEW m, m = [lba |-> l, data |-> d, hung |-> FALSE]
  PROVE  m \in CacheT /\ m.data = d /\ m.lba = l /\ ~m.hung
<1>1. m.data = d /\ m.lba = l
  BY SMT
<1>2. m.hung = FALSE
  BY Zenon
<1>3. m \in [lba : Lba, data : Data, hung : BOOLEAN]
  BY Zenon
<1> QED BY <1>1, <1>2, <1>3 DEF CacheT

LEMMA MountedClean ==
  ASSUME card \in [Lba -> Data], NEW m, m = [Mounted EXCEPT !.data = card[Boot]]
  PROVE  m \in CacheT /\ m.data = card[m.lba] /\ ~m.hung
<1>1. Boot \in Lba
  BY DEF Lba, Meta
<1>2. card[Boot] \in Data
  BY <1>1
<1>3. m = [lba |-> Boot, data |-> card[Boot], hung |-> FALSE]
  BY CacheExcept DEF Mounted
<1>4. m \in CacheT /\ m.data = card[Boot] /\ m.lba = Boot /\ ~m.hung
  BY <1>1, <1>2, <1>3, CacheRecord
<1> QED BY <1>4

\* What a step leaves of the calls that name a file.
LEMMA NamesStep ==
  ASSUME NamesOnlyWithCard, [Next]_vars
  PROVE  NamesOnlyWithCard'
<1> USE DEF NamesOnlyWithCard
<1>1. ASSUME NEW h \in Handle, NEW f \in File, file_open_dir(h, f) PROVE NamesOnlyWithCard'
  BY <1>1 DEF file_open_dir
<1>2. ASSUME NEW h \in Handle, file_init(h) PROVE NamesOnlyWithCard'
  BY <1>2 DEF file_init, diskVars
<1>3. CASE NoticeRemoval \/ dir_init \/ PowerCycle
  BY <1>3 DEF NoticeRemoval, dir_init, PowerCycle
<1>4. CASE UNCHANGED <<sd_present, path>>
  BY <1>4
<1>5. ASSUME NEW h \in Handle, NEW o \in Offset, file_seek(h, o) PROVE UNCHANGED <<sd_present, path>>
  BY <1>5 DEF file_seek
<1>6. ASSUME NEW h \in Handle, NEW n \in Count, file_read(h, n) PROVE UNCHANGED <<sd_present, path>>
  BY <1>6 DEF file_read
<1>7. ASSUME NEW h \in Handle, NEW n \in Count, NEW b \in Byte, file_write(h, n, b)
      PROVE  UNCHANGED <<sd_present, path>>
  BY <1>7 DEF file_write
<1>8. CASE dir_entries \/ pf_read \/ file_write_sector \/ file_write_flush \/ Pull \/ Insert
           \/ UNCHANGED vars
  BY <1>8 DEF dir_entries, pf_read, file_write_sector, file_write_flush, Pull, Insert, vars, diskVars
<1> HIDE DEF NamesOnlyWithCard
<1> QED BY <1>1, <1>2, <1>3, <1>4, <1>5, <1>6, <1>7, <1>8 DEF Next

LEMMA DirInitStep ==
  ASSUME FileInv, NamesOnlyWithCard, dir_init
  PROVE  FileInv'
<1>1. Free /\ ~sd_present /\ slot' = "ready" /\ sd_present' = TRUE /\ write_pending' = -1
      /\ cache' = [Mounted EXCEPT !.data = card[Boot]] /\ fatfs' = Closed
      /\ UNCHANGED <<card, path, openfile, call>>
  BY DEF dir_init
<1>2. LastHandleIsOpen'
  BY <1>1, FreeNow DEF LastHandleIsOpen, NamesOnlyWithCard
<1>3. CallInProgress'
  BY <1>1, FreeNow DEF CallInProgress
<1>4. cache' \in CacheT /\ cache'.data = card'[cache'.lba]
  BY <1>1, FreeNow, MountedClean
<1>5. Sound(fatfs')
  BY <1>1, ClosedSound
<1> QED BY <1>1, <1>2, <1>3, <1>4, <1>5, FreeNow, InvNoneWaiting

LEMMA PowerStep ==
  ASSUME FileInv, PowerCycle
  PROVE  FileInv'
<1>1. /\ slot' = (IF slot = "out" THEN "out" ELSE "ready") /\ sd_present' = (slot # "out")
      /\ cache' = [Mounted EXCEPT !.data = card[Boot]]
      /\ path' = [h \in Handle |-> NoFile] /\ openfile' = NoFile /\ write_pending' = -1
      /\ fatfs' \in {Closed, [Closed EXCEPT !.flag = NotMounted]} /\ call' = Idle /\ card' = card
  BY DEF PowerCycle
<1>2. /\ card' \in [Lba -> Data]
      /\ path' \in [Handle -> File \cup {NoFile}] /\ openfile' \in Handle \cup {NoFile}
      /\ slot' \in {"ready", "out", "cold"} /\ sd_present' \in BOOLEAN
  BY <1>1 DEF FileInv, TypeOK
<1>3. call' \in CallT /\ LastHandleIsOpen' /\ CallInProgress'
  BY <1>1 DEF Idle, CallT, LastHandleIsOpen, CallInProgress
<1>4. cache' \in CacheT /\ cache'.data = card'[cache'.lba]
  BY <1>1, <1>2, MountedClean
<1>5. Sound(fatfs')
  BY <1>1, ClosedSound
<1> QED BY <1>1, <1>2, <1>3, <1>4, <1>5, InvNoneWaiting

LEMMA InitInv == Init => FileInv /\ NamesOnlyWithCard
<1> SUFFICES ASSUME Init PROVE FileInv /\ NamesOnlyWithCard
  OBVIOUS
<1>1. /\ slot = "ready" /\ sd_present = TRUE /\ cache = Mounted
      /\ path = [h \in Handle |-> NoFile] /\ openfile = NoFile /\ write_pending = -1
      /\ fatfs = Closed /\ call = Idle
  BY DEF Init
<1>2. Boot \in Lba /\ Boot \notin DataLba
  <2>1. \A f \in File : Boot \notin {f} \X Sectors(f)
    BY FileAssumption DEF Boot
  <2> QED BY <2>1 DEF Lba, Meta, DataLba
<1>3. card \in [Lba -> Data]
  BY DEF Init, Data
<1>4. cache \in CacheT /\ cache.data = card[cache.lba] /\ ~cache.hung
  <2>1. [i \in 0 .. SecSize - 1 |-> MetaByte] \in Data
    BY DEF Data
  <2>2. card[Boot] = [i \in 0 .. SecSize - 1 |-> MetaByte]
    BY <1>2 DEF Init
  <2> QED BY <1>1, <1>2, <2>1, <2>2 DEF Mounted, CacheT
<1>5. TypeOK
  BY <1>1, <1>3, <1>4, ClosedSound DEF TypeOK, CacheT, Sound, Closed, Idle, FA_OPENED
<1>6. PlaceKept /\ PlaceBeyond /\ WaitingSectorStays /\ PlaceOfWaiting
  BY <1>1 DEF PlaceKept, PlaceBeyond, WaitingSectorStays, PlaceOfWaiting, Closed, FA_OPENED
<1>7. CacheIsCard /\ LastHandleIsOpen /\ CallInProgress /\ NamesOnlyWithCard
  BY <1>1, <1>4 DEF CacheIsCard, LastHandleIsOpen, CallInProgress, NamesOnlyWithCard, Idle
<1> QED BY <1>5, <1>6, <1>7 DEF FileInv

LEMMA NextInv ==
  ASSUME FileInv, NamesOnlyWithCard, [Next]_vars
  PROVE  FileInv'
<1>1. ASSUME NEW h \in Handle, NEW f \in File, file_open_dir(h, f) PROVE FileInv'
  BY <1>1, OpenDirStep
<1>2. ASSUME NEW h \in Handle, file_init(h) PROVE FileInv'
  BY <1>2, InitStep
<1>3. ASSUME NEW h \in Handle, NEW o \in Offset, file_seek(h, o) PROVE FileInv'
  BY <1>3, SeekStep
<1>4. ASSUME NEW h \in Handle, NEW n \in Count, file_read(h, n) PROVE FileInv'
  BY <1>4, ReadStep
<1>5. ASSUME NEW h \in Handle, NEW n \in Count, NEW b \in Byte, file_write(h, n, b) PROVE FileInv'
  BY <1>5, WriteStep
<1>6. CASE dir_entries
  BY <1>6, DirEntriesStep
<1>7. CASE pf_read
  BY <1>7, PfReadStep
<1>8. CASE file_write_sector
  BY <1>8, WriteSectorStep
<1>9. CASE file_write_flush
  BY <1>9, FlushStep
<1>10. CASE Pull \/ Insert
  BY <1>10, SlotStep
<1>11. CASE NoticeRemoval
  BY <1>11, NoticeRemovalStep
<1>12. CASE dir_init
  BY <1>12, DirInitStep
<1>13. CASE PowerCycle
  BY <1>13, PowerStep
<1>14. CASE UNCHANGED vars
  BY <1>14 DEF vars, FileInv, TypeOK, PlaceKept, WaitingSectorStays, CacheIsCard,
               LastHandleIsOpen, CallInProgress, Alive, PlaceBeyond, PlaceOfWaiting
<1> QED BY <1>1, <1>2, <1>3, <1>4, <1>5, <1>6, <1>7, <1>8, <1>9, <1>10, <1>11, <1>12,
           <1>13, <1>14 DEF Next
-----------------------------------------------------------------------------
\* The file layer never leaves the inductive invariant, whatever the sizes of
\* files, sectors and clusters and whenever power or card go.
THEOREM FileInvariant == Spec => [](FileInv /\ NamesOnlyWithCard)
<1>1. Init => FileInv /\ NamesOnlyWithCard
  BY InitInv
<1>2. FileInv /\ NamesOnlyWithCard /\ [Next]_vars => (FileInv /\ NamesOnlyWithCard)'
  BY NextInv, NamesStep
<1> QED BY <1>1, <1>2, PTL DEF Spec

\* Each variable of the layers keeps to its type.
THEOREM FileTypes == Spec => []TypeOK
<1>1. FileInv => TypeOK
  BY DEF FileInv
<1> QED BY <1>1, FileInvariant, PTL

\* pff.c knows its cluster and sector after any sequence of seeks, reads and
\* writes, writes beyond the end of the file included.
THEOREM PlaceIsKept == Spec => []PlaceKept
<1>1. FileInv => PlaceKept
  BY DEF FileInv
<1> QED BY <1>1, FileInvariant, PTL

\* A sector of the open file that waits in the cache is not displaced, but by
\* the FAT in a seek that forgot to flush.
THEOREM WaitingSectorIsSafe == Spec => []WaitingSectorStays
<1>1. FileInv => WaitingSectorStays
  BY DEF FileInv
<1> QED BY <1>1, FileInvariant, PTL

\* The cache is never out of date while nothing waits in it.
THEOREM CacheIsCoherent == Spec => []CacheIsCard
<1>1. FileInv => CacheIsCard
  BY DEF FileInv
<1> QED BY <1>1, FileInvariant, PTL

\* The handle that pff_file.c takes for open is the one that pff.c has open.
THEOREM OpenHandleIsOpen == Spec => []LastHandleIsOpen
<1>1. FileInv => LastHandleIsOpen
  BY DEF FileInv
<1> QED BY <1>1, FileInvariant, PTL
=============================================================================
