------------------------- MODULE DiskService_proofs -------------------------
(***************************************************************************)
(* Used with care, the drive emulator implements DiskService: every sector *)
(* is read or written on the disk in the drive addressed, and at the place *)
(* where that disk keeps it.                                               *)
(***************************************************************************)
EXTENDS DriveService_proofs, FiniteSetTheorems

-----------------------------------------------------------------------------
(* Where a disk keeps a sector.                                             *)

LEMMA HomeType ==
  ASSUME NEW i \in Image
  PROVE  Home(i) \in Geometry /\ Home(i).offset \in Int /\ Home(i).secSize \in Nat
<1>1. CardHeader[i] \in Header
  BY DriveAssumption
<1>2. Home(i) \in Geometry
  BY <1>1, LoadedType, NoGeometryType DEF Home
<1> QED BY <1>2 DEF Geometry

\* A sum over the sectors before one is what the handlers compute.
LEMMA StartsAtLocation ==
  ASSUME NEW i \in Image, NEW s \in Sector, s # 0
  PROVE  Starts(i, s) = Location(Home(i), s) /\ SectorBytes(i, s) = Length(Home(i), s)
<1> DEFINE short == {t \in 1 .. s - 1 : t <= 3}
           long  == {t \in 1 .. s - 1 : t > 3}
           o == Home(i).offset
           z == Home(i).secSize
<1>1. s \in Nat \ {0}
  BY DriveAssumption DEF Word
<1>2. o \in Int /\ z \in Nat
  BY HomeType
<1>3. Starts(i, s) = o + 128 * Cardinality(short) + z * Cardinality(long)
  BY DEF Starts
<1>4. SectorBytes(i, s) = Length(Home(i), s)
  BY <1>1 DEF SectorBytes, Length
<1>5. Location(Home(i), s) = IF s > 3 THEN o + 384 + (s - 4) * z ELSE o + 128 * (s - 1)
  BY DEF Location
<1>6. CASE s > 3
  <2>1. short = 1 .. 3 /\ long = 4 .. s - 1
    BY <1>1, <1>6
  <2>2. Cardinality(1 .. 3) = 3
    <3>1. 1 \in Int /\ 3 \in Int
      OBVIOUS
    <3>2. Cardinality(1 .. 3) = IF 1 > 3 THEN 0 ELSE 3 - 1 + 1
      BY <3>1, FS_Interval
    <3> QED BY <3>2
  <2>4. Cardinality(4 .. s - 1) = s - 4
    <3>1. 4 \in Int /\ s - 1 \in Int
      BY <1>1
    <3>2. Cardinality(4 .. s - 1) = IF 4 > s - 1 THEN 0 ELSE (s - 1) - 4 + 1
      BY <3>1, FS_Interval
    <3> QED BY <1>1, <1>6, <3>2
  <2>3. z * (s - 4) = (s - 4) * z
    BY <1>1, <1>2
  <2> HIDE DEF short, long, o, z
  <2> QED BY <1>1, <1>2, <1>3, <1>4, <1>5, <1>6, <2>1, <2>2, <2>3, <2>4
<1>7. CASE ~(s > 3)
  <2>1. short = 1 .. s - 1 /\ long = {}
    BY <1>1, <1>7
  <2>2. Cardinality(1 .. s - 1) = s - 1
    <3>1. 1 \in Int /\ s - 1 \in Int
      BY <1>1
    <3>2. Cardinality(1 .. s - 1) = IF 1 > s - 1 THEN 0 ELSE (s - 1) - 1 + 1
      BY <3>1, FS_Interval
    <3> QED BY <1>1, <1>7, <3>2
  <2>4. Cardinality({}) = 0
    BY FS_EmptySet
  <2>3. z * 0 = 0
    BY <1>2
  <2> HIDE DEF short, long, o, z
  <2> QED BY <1>1, <1>2, <1>3, <1>4, <1>5, <1>7, <2>1, <2>2, <2>3, <2>4
<1> QED BY <1>6, <1>7

\* The place a handler goes to by globals that fit.
LEMMA HomeOfSector ==
  ASSUME NEW i \in Image, NEW s \in Sector, s # 0, NEW g, SameLayout(g, Home(i)), g.loader = 0
  PROVE  HomePlace(i, s) = <<Seek(i, Location(g, s)), Length(g, s), NoImage>>
<1>1. Home(i).loader = 0 /\ Location(g, s) = Location(Home(i), s)
      /\ Length(g, s) = Length(Home(i), s)
  BY DEF SameLayout, Location, Length
<1>2. Starts(i, s) = Location(g, s) /\ SectorBytes(i, s) = Length(g, s)
  BY <1>1, StartsAtLocation
<1> QED BY <1>1, <1>2 DEF HomePlace

-----------------------------------------------------------------------------
(* The track table.  It is loaded along with the other globals, and belongs *)
(* to the disk in the open drive if that is an ATX.                         *)

TableFits ==
  \A d \in Drive : opendrive = d /\ drives[d] # NoFile /\ geom.loader = 2 =>
    table = content[drives[d]]

LEMMA SetDriveStatusTable ==
  ASSUME NEW st \in GlobalsType, NEW c \in ContentType, NEW d \in Drive,
         NEW f \in Slot \cup {NoFile}, NEW new, new = SetDriveStatus(st, c, d, f)
  PROVE  /\ new.drives[d] # NoFile /\ new.geom.loader = 2 => new.table = c[f]
         /\ f = NoFile => new.table = st.table /\ new.geom = st.geom
<1>1. CASE f = NoFile \/ Unreadable(c[f])
  <2>1. new.drives = [st.drives EXCEPT ![d] = NoFile]
    BY <1>1 DEF SetDriveStatus, GlobalsType
  <2>2. f = NoFile => new.table = st.table /\ new.geom = st.geom
    BY <1>1 DEF SetDriveStatus, GlobalsType
  <2> QED BY <2>1, <2>2 DEF GlobalsType
<1>2. CASE f # NoFile /\ ~Unreadable(c[f])
  <2>1. c[f] \in Image
    BY <1>2 DEF ContentType, Unreadable
  <2>2. /\ new.geom = Loaded(c[f], header[c[f]], st.geom)
        /\ new.table = IF Ext[c[f]] = "ATX" THEN c[f] ELSE st.table
    BY <1>2 DEF SetDriveStatus
  <2>3. Ext[c[f]] \in {"XFD", "ATX", "other"}
    BY <2>1, DriveAssumption
  <2>4. new.geom.loader = 2 => Ext[c[f]] = "ATX"
    BY <2>2, <2>3 DEF Loaded
  <2> QED BY <1>2, <2>2, <2>4
<1> QED BY <1>1, <1>2

LEMMA MenuSelectTable ==
  ASSUME Inv, TableFits, NEW d \in Drive, NEW i \in Image \cup {NoImage},
         CarefulMenu(d), MenuSelect(d, i)
  PROVE  TableFits'
<1> DEFINE st == SetDriveStatus(Globals, content', d, files[d])
<1>1. /\ content' = [content EXCEPT ![files[d]] = i]
      /\ drives' = st.drives /\ geom' = st.geom /\ table' = st.table
      /\ opendrive' = opendrive
  BY DEF MenuSelect, Become
<1>2. /\ files[d] \in Slot /\ content' \in ContentType /\ Globals \in GlobalsType
      /\ header \in [Image -> Header] /\ HeadersKnown
  BY <1>1, GlobalsOK DEF Inv, TypeOK, ContentType
<1> HIDE DEF st
<1>3. /\ \A e \in Drive : e # d => st.drives[e] = Globals.drives[e]
      /\ st.drives[d] \in {NoFile, files[d]}
      /\ st.drives[d] # NoFile /\ st.geom.loader = 2 => st.table = content'[files[d]]
  BY <1>2, SetDriveStatusHolds, SetDriveStatusTable DEF st
<1>4. ASSUME NEW o \in Drive, opendrive = o, drives'[o] # NoFile
      PROVE  o = d
  BY <1>1, <1>3, <1>4 DEF Globals, CarefulMenu, OpenDriveEmpty
<1> QED BY <1>1, <1>3, <1>4 DEF TableFits

LEMMA MenuRemoveTable ==
  ASSUME Inv, TableFits, NEW d \in Drive, CarefulMenu(d), MenuRemove(d)
  PROVE  TableFits'
<1>1. Globals \in GlobalsType
  BY GlobalsOK DEF Inv
<1>2. drives' = [drives EXCEPT ![d] = NoFile] /\ opendrive' = opendrive
  BY <1>1, SetDriveStatusNull DEF MenuRemove, Become, Globals
<1>3. ASSUME NEW o \in Drive, opendrive = o PROVE drives'[o] = NoFile
  BY <1>2, <1>3 DEF CarefulMenu, OpenDriveEmpty, Inv, TypeOK
<1> QED BY <1>2, <1>3 DEF TableFits

LEMMA MenuSwapTable ==
  ASSUME Inv, TableFits, NEW d \in Drive, CarefulSwap(d), MenuSwap(d)
  PROVE  TableFits'
<1> DEFINE st1 == SetDriveStatus(Globals, content, d, drives[0])
           st2 == SetDriveStatus(st1, content, 0, drives[d])
<1>1. /\ content' = content /\ opendrive' = opendrive
      /\ drives' = st2.drives /\ geom' = st2.geom /\ table' = st2.table
  BY DEF MenuSwap, Become
<1>2. /\ 0 \in Drive /\ content \in ContentType /\ Globals \in GlobalsType
      /\ drives[0] \in Slot \cup {NoFile} /\ drives[d] \in Slot \cup {NoFile}
      /\ header \in [Image -> Header] /\ HeadersKnown
  BY DriveAssumption, GlobalsOK DEF Inv, TypeOK, ContentType, Drive
<1>3. st1 \in GlobalsType
  BY <1>2, SetDriveStatusType
<1> HIDE DEF st1, st2
<1>4. /\ \A e \in Drive : e # d => st1.drives[e] = drives[e]
      /\ st1.drives[d] \in {NoFile, drives[0]}
      /\ st1.drives[d] # NoFile /\ st1.geom.loader = 2 => st1.table = content[drives[0]]
  BY <1>2, SetDriveStatusHolds, SetDriveStatusTable DEF st1, Globals
<1>5. /\ \A e \in Drive : e # 0 => st2.drives[e] = st1.drives[e]
      /\ st2.drives[0] \in {NoFile, drives[d]}
  BY <1>2, <1>3, SetDriveStatusHolds DEF st2
<1>6. /\ st2.drives[0] # NoFile /\ st2.geom.loader = 2 => st2.table = content[drives[d]]
      /\ drives[d] = NoFile => st2.table = st1.table /\ st2.geom = st1.geom
  BY <1>2, <1>3, SetDriveStatusTable DEF st2
<1>7. ASSUME NEW o \in Drive, opendrive = o, drives'[o] # NoFile, geom'.loader = 2
      PROVE  table' = content[drives'[o]]
  <2>1. CASE o = 0
    BY <1>1, <1>5, <1>6, <1>7, <2>1
  <2>2. CASE o # 0
    <3>1. drives'[o] = st1.drives[o]
      BY <1>1, <1>5, <2>2
    <3>2. OpenDriveEmpty \/ (o = d /\ drives[0] = NoFile)
      BY <1>7, <2>2 DEF CarefulSwap
    <3>3. o = d /\ drives[d] = NoFile
      BY <1>4, <1>7, <3>1, <3>2 DEF OpenDriveEmpty
    <3> QED BY <1>1, <1>4, <1>6, <1>7, <3>1, <3>3
  <2> QED BY <2>1, <2>2
<1> QED BY <1>1, <1>7 DEF TableFits

LEMMA HandledTable ==
  ASSUME Inv, TableFits, NEW d \in Drive, d = cmd.drive, Handled(d)
  PROVE  TableFits'
<1>1. Take
  BY HandledTakes
<1>2. /\ opendrive' = d /\ content' = content
      /\ drives' = Opened(d).drives /\ geom' = Opened(d).geom /\ table' = Opened(d).table
  BY <1>1 DEF Take, Become
<1>3. CASE d = opendrive
  <2>1. UNCHANGED <<drives, geom, table, content, opendrive>>
    BY <1>2, <1>3 DEF Opened, Globals
  <2> QED BY <2>1 DEF TableFits
<1>4. CASE d # opendrive
  <2> DEFINE st == SetDriveStatus(Globals, content, d, drives[d])
  <2>1. Opened(d) = st
    BY <1>4 DEF Opened
  <2>2. /\ content \in ContentType /\ Globals \in GlobalsType /\ drives[d] \in Slot \cup {NoFile}
        /\ header \in [Image -> Header] /\ HeadersKnown
    BY GlobalsOK DEF Inv, TypeOK, ContentType
  <2>3. /\ st.drives[d] \in {NoFile, drives[d]}
        /\ st.drives[d] # NoFile /\ st.geom.loader = 2 => st.table = content[drives[d]]
    BY <2>2, SetDriveStatusHolds, SetDriveStatusTable
  <2> HIDE DEF st
  <2> QED BY <1>2, <2>1, <2>3 DEF TableFits
<1> QED BY <1>3, <1>4

LEMMA NextTable ==
  ASSUME Inv, TableFits, [CarefulNext]_vars
  PROVE  TableFits'
<1>1. CASE CarefulActions
  <2>1. CASE \E d \in Drive :
               \/ CarefulMenu(d) /\ \E i \in Image \cup {NoImage} : MenuSelect(d, i)
               \/ CarefulMenu(d) /\ MenuRemove(d)
               \/ CarefulSwap(d) /\ MenuSwap(d)
    BY <2>1, MenuSelectTable, MenuRemoveTable, MenuSwapTable
  <2>2. CASE CardRemoved \/ CardInserted
    BY <2>2 DEF CardRemoved, CardInserted, Restart, TableFits
  <2>3. CASE PullCard \/ Hang
    BY <2>3 DEF PullCard, Hang, TableFits
  <2> QED BY <1>1, <2>1, <2>2, <2>3 DEF CarefulActions
<1>2. CASE CarefulHandle
  BY <1>2, CarefulCases, CarefulHandledIsHandled, HandledTable DEF Inv
<1>3. CASE ProcessCommand \/ Transfer \/ UNCHANGED vars
  <2>1. UNCHANGED <<drives, geom, table, content, opendrive>>
    BY <1>3 DEF ProcessCommand, Accept, Refuse, Transfer, Receive, ReceiveData,
         WriteNacked, FrameTaken, WriteDone, vars
  <2> QED BY <2>1 DEF TableFits
<1> QED BY <1>1, <1>2, <1>3 DEF CarefulNext

-----------------------------------------------------------------------------
(* The sector that is being received.                                       *)

PendingSector ==
  pc \in {"data", "store"} =>
    /\ rx.drive \in Drive /\ drives[rx.drive] = rx.file
    /\ rx.sector \in Sector /\ rx.sector # 0
    /\ Home(content[rx.file]).loader = 0
    /\ rx.loc = Location(Home(content[rx.file]), rx.sector)
    /\ rx.len = Length(Home(content[rx.file]), rx.sector)

ServiceInv == CareInv /\ TableFits /\ PendingSector

\* A handler changes drives[] in no way: the disk it loads again is accepted.
LEMMA HandlerKeepsDisks ==
  ASSUME CareInv, NEW d \in Drive, drives[d] # NoFile
  PROVE  Opened(d).drives = drives
<1>1. CASE d = opendrive
  BY <1>1 DEF Opened, Globals
<1>2. CASE d # opendrive
  <2> DEFINE st == SetDriveStatus(Globals, content, d, drives[d])
  <2>1. Opened(d) = st
    BY <1>2 DEF Opened
  <2>2. /\ content \in ContentType /\ Globals \in GlobalsType /\ drives[d] \in Slot \cup {NoFile}
        /\ header \in [Image -> Header] /\ HeadersKnown /\ Globals.drives = drives
    BY GlobalsOK DEF CareInv, Inv, TypeOK, ContentType, Globals
  <2>3. \A e \in Drive : e # d => st.drives[e] = drives[e]
    BY <2>2, SetDriveStatusHolds
  <2>4. st.drives[d] = drives[d]
    BY <2>1, OpenedFits DEF CareInv, FileOf
  <2>5. st \in GlobalsType
    BY <2>2, SetDriveStatusType
  <2> HIDE DEF st
  <2>6. st.drives \in [Drive -> Slot \cup {NoFile}] /\ drives \in [Drive -> Slot \cup {NoFile}]
    BY <2>5 DEF GlobalsType, CareInv, Inv, TypeOK
  <2> QED BY <2>1, <2>3, <2>4, <2>6
<1> QED BY <1>1, <1>2

LEMMA WriteStartPlace ==
  ASSUME ServiceInv, NEW d \in Drive, d = cmd.drive, NEW s \in Sector, NEW v \in BOOLEAN,
         ~Opened(d).geom.wp, WriteStart(d, s, v)
  PROVE  PendingSector'
<1> DEFINE g == Opened(d).geom
           i == content[drives[d]]
<1>1. drives[d] # NoFile /\ content' = content /\ drives' = Opened(d).drives /\ s # 0
  BY HandledHasDisk DEF WriteStart, Take, Become, ServiceInv
<1>2. FileOf(d) = drives[d] /\ SameLayout(g, Home(i)) /\ g.loader = 0
  BY <1>1, OpenedFits DEF ServiceInv, CareInv
<1>3. drives' = drives
  BY <1>1, HandlerKeepsDisks DEF ServiceInv
<1>4. /\ rx'.drive = d /\ rx'.file = FileOf(d) /\ rx'.sector = s
      /\ rx'.loc = Location(g, s) /\ rx'.len = Length(g, s)
  BY DEF WriteStart
<1>5. Home(i).loader = 0 /\ Location(g, s) = Location(Home(i), s)
      /\ Length(g, s) = Length(Home(i), s)
  BY <1>2 DEF SameLayout, Location, Length
<1>6. content'[rx'.file] = i
  BY <1>1, <1>2, <1>4
<1> HIDE DEF g, i
<1> QED BY <1>1, <1>2, <1>3, <1>4, <1>5, <1>6 DEF PendingSector, Home, Location, Length

LEMMA NextPendingSector ==
  ASSUME ServiceInv, [CarefulNext]_vars
  PROVE  PendingSector'
<1>1. CASE CarefulActions
  <2>1. pc' \in {"idle", "hung"}
    BY <1>1 DEF CarefulActions, CarefulMenu, CarefulSwap, MenuSelect, MenuRemove, MenuSwap,
                PullCard, CardRemoved, CardInserted, Hang
  <2> QED BY <2>1 DEF PendingSector
<1>2. ASSUME NEW d \in Drive, d = cmd.drive, NEW s \in Sector, HandleWrite(d, s),
             ~Opened(d).geom.wp
      PROVE  PendingSector'
  <2>1. CASE WriteRefused(d, s)
    BY <2>1 DEF WriteRefused, PendingSector
  <2>2. CASE \E v \in BOOLEAN : WriteStart(d, s, v)
    BY <1>2, <2>2, WriteStartPlace
  <2> QED BY <1>2, <2>1, <2>2 DEF HandleWrite
<1>3. CASE \/ ProcessCommand
           \/ \E d \in Drive :
                \/ HandleGetStatus(d)
                \/ HandleReadPercomBlock(d)
                \/ HandleFormat(d)
                \/ \E s \in Sector : HandleSpeed(d, s) \/ HandleRead(d, s)
  <2>1. pc' \notin {"data", "store"}
    BY <1>3 DEF ProcessCommand, Accept, Refuse, HandleGetStatus, HandleReadPercomBlock,
                HandleFormat, HandleSpeed, HandleRead
  <2> QED BY <2>1 DEF PendingSector
<1>4. CASE CarefulHandle
  BY <1>2, <1>3, <1>4, CarefulCases DEF CarefulHandled, ServiceInv, CareInv, Inv
<1>5. CASE \E good \in BOOLEAN : ReceiveData(good) \/ FrameTaken(good)
  <2>1. /\ content' = content /\ drives' = drives /\ pc = "data"
        /\ rx'.file = rx.file /\ rx'.loc = rx.loc /\ rx'.len = rx.len
        /\ rx'.drive = rx.drive /\ rx'.sector = rx.sector
    BY <1>5 DEF ReceiveData, FrameTaken, ServiceInv, CareInv, Inv, TypeOK, Rx
  <2> QED BY <2>1 DEF PendingSector, ServiceInv, Home, Location, Length
<1>6. CASE WriteDone \/ \E good \in BOOLEAN : WriteNacked(good)
  <2>1. pc' = "idle"
    BY <1>6 DEF WriteNacked, WriteDone
  <2> QED BY <2>1 DEF PendingSector
<1>7. CASE UNCHANGED vars
  BY <1>7 DEF vars, PendingSector, ServiceInv, Home, Location, Length
<1> QED BY <1>1, <1>3, <1>4, <1>5, <1>6, <1>7, TransferCases DEF CarefulNext

LEMMA NextServiceInv == ServiceInv /\ [CarefulNext]_vars => ServiceInv'
<1>1. ASSUME ServiceInv, [CarefulNext]_vars PROVE ServiceInv'
  <2>1. CareInv'
    BY <1>1, NextCareInv DEF ServiceInv
  <2>2. TableFits'
    BY <1>1, NextTable DEF ServiceInv, CareInv
  <2>3. PendingSector'
    BY <1>1, NextPendingSector
  <2> QED BY <2>1, <2>2, <2>3 DEF ServiceInv
<1> QED BY <1>1

LEMMA InitServiceInv == Init => ServiceInv
<1>1. ASSUME Init PROVE TableFits /\ PendingSector
  BY <1>1 DEF Init, TableFits, PendingSector
<1> QED BY <1>1, InitCareInv DEF ServiceInv

-----------------------------------------------------------------------------
(* Every step is one of DiskService.                                        *)

Touching == {"read", "write", "loader", "atx"}

LEMMA TouchNone ==
  ASSUME Disks' = Disks, io'.op \notin Touching \/ io'.image = NoImage
  PROVE  Service!Next
<1>1. Accesses' = {}
  BY DEF Accesses, Touching
<1>2. Service!NoTouch
  BY <1>1 DEF Service!NoTouch
<1> QED BY <1>2 DEF Service!Next

LEMMA ServeStep ==
  ASSUME Disks' = Disks, NEW d \in Drive, NEW s \in Sector, NEW i \in Image,
         Disks[d] = i, io'.drive = d, io'.sector = s, io'.image = i,
         io'.op \in Touching, <<io'.loc, io'.len, io'.via>> = HomePlace(i, s)
  PROVE  Service!Next
<1>1. i # NoImage
  BY DriveAssumption
<1>2. Accesses' = {[drive |-> d, disk |-> Disks[d], sector |-> s,
                    place |-> HomePlace(Disks[d], s)]}
  BY <1>1 DEF Accesses, Touching
<1>3. Service!Serve(d, s)
  BY <1>1, <1>2 DEF Service!Serve
<1> QED BY <1>3 DEF Service!Next

LEMMA DisksType ==
  ASSUME TypeOK
  PROVE  Disks \in [Drive -> Image \cup {NoImage}]
BY DEF TypeOK, Disks

\* The menu and the card slot change disks and serve nothing.
LEMMA ActionsServe ==
  ASSUME TypeOK', CarefulActions
  PROVE  Service!Next
<1>1. Disks' \in [Drive -> Image \cup {NoImage}]
  <2>1. drives' \in [Drive -> Slot \cup {NoFile}] /\ content' \in [Slot -> Image \cup {NoImage}]
    BY DEF TypeOK
  <2> QED BY <2>1 DEF Disks
<1>2. io' = NoIo
  BY DEF CarefulActions, MenuSelect, MenuRemove, MenuSwap, PullCard, CardRemoved, CardInserted,
         Hang
<1>3. Accesses' = {}
  BY <1>2 DEF Accesses, NoIo
<1>4. Service!Change
  BY <1>1, <1>3 DEF Service!Change
<1> QED BY <1>4 DEF Service!Next

LEMMA TakeKeepsDisks ==
  ASSUME CareInv, NEW d \in Drive, d = cmd.drive, Take
  PROVE  /\ Disks' = Disks
         /\ drives[d] # NoFile
         /\ ImageIn(d) \in Image
         /\ Disks[d] = ImageIn(d)
         /\ SameLayout(Opened(d).geom, Home(ImageIn(d)))
<1>1. drives[d] # NoFile /\ content' = content /\ drives' = Opened(d).drives
  BY HandledHasDisk DEF Take, Become
<1>2. drives' = drives
  BY <1>1, HandlerKeepsDisks
<1>3. /\ ImageIn(d) = content[drives[d]]
      /\ ImageIn(d) \in Image
      /\ SameLayout(Opened(d).geom, Home(ImageIn(d)))
  BY <1>1, OpenedFits DEF CareInv
<1> QED BY <1>1, <1>2, <1>3 DEF Disks

LEMMA ReadSectorServes ==
  ASSUME CareInv, NEW d \in Drive, d = cmd.drive, NEW s \in Sector, s # 0, Take,
         ReadSector(d, s)
  PROVE  Service!Next
<1> DEFINE g == Opened(d).geom
           i == ImageIn(d)
<1>1. /\ Disks' = Disks /\ i \in Image /\ Disks[d] = i /\ SameLayout(g, Home(i))
      /\ i # NoImage /\ g.loader = 0
  BY TakeKeepsDisks, DriveAssumption DEF ReadSector
<1>2. /\ io'.op = "read" /\ io'.drive = d /\ io'.sector = s /\ io'.image = i
      /\ io'.loc = Seek(i, Location(g, s)) /\ io'.len = Length(g, s) /\ io'.via = NoImage
  BY <1>1 DEF ReadSector, Access
<1>3. HomePlace(i, s) = <<Seek(i, Location(g, s)), Length(g, s), NoImage>>
  BY <1>1, HomeOfSector
<1> HIDE DEF g, i
<1> QED BY <1>1, <1>2, <1>3, ServeStep DEF Touching

LEMMA ReadLoaderServes ==
  ASSUME CareInv, NEW d \in Drive, d = cmd.drive, NEW s \in Sector, Take, ReadLoader(d, s)
  PROVE  Service!Next
<1> DEFINE i == ImageIn(d)
<1>1. /\ Disks' = Disks /\ i \in Image /\ Disks[d] = i
      /\ i # NoImage /\ Home(i).loader = 1
  BY TakeKeepsDisks, DriveAssumption DEF ReadLoader, SameLayout
<1>2. CASE s >= 369
  <2>1. /\ io'.op = "loader" /\ io'.drive = d /\ io'.sector = s /\ io'.image = i
        /\ io'.loc = Seek(i, 125 * (s - 369)) /\ io'.len = 125 /\ io'.via = NoImage
    BY <1>1, <1>2 DEF ReadLoader, Access
  <2>2. HomePlace(i, s) = <<Seek(i, 125 * (s - 369)), 125, NoImage>>
    BY <1>1 DEF HomePlace
  <2> HIDE DEF i
  <2> QED BY <1>1, <2>1, <2>2, ServeStep DEF Touching
<1>3. CASE ~(s >= 369)
  <2>1. io'.image = NoImage
    BY <1>3 DEF ReadLoader, Reply, Access
  <2> QED BY <1>1, <2>1, TouchNone
<1> QED BY <1>2, <1>3

LEMMA ReadAtxServes ==
  ASSUME ServiceInv, NEW d \in Drive, d = cmd.drive, NEW s \in Sector, HandleRead(d, s),
         ReadAtx(d, s)
  PROVE  Service!Next
<1> DEFINE i == ImageIn(d)
<1>1. Take
  BY DEF HandleRead
<1>2. /\ Disks' = Disks /\ drives[d] # NoFile /\ i \in Image /\ Disks[d] = i
      /\ i = content[drives[d]]
      /\ Home(i).loader = 2 /\ Opened(d).geom.loader = 2
  BY <1>1, TakeKeepsDisks DEF ReadAtx, SameLayout, ServiceInv, Disks
<1>3. Opened(d).table = i
  <2>1. TableFits'
    BY HandledTable DEF ServiceInv, CareInv, Handled
  <2>2. opendrive' = d /\ content' = content /\ drives' = drives
        /\ geom' = Opened(d).geom /\ table' = Opened(d).table
    BY <1>1, <1>2, HandlerKeepsDisks DEF Take, Become, ServiceInv
  <2> HIDE DEF i
  <2> QED BY <1>2, <2>1, <2>2 DEF TableFits
<1>4. /\ io'.op = "atx" /\ io'.drive = d /\ io'.sector = s /\ io'.image = i
      /\ io'.loc = 0 /\ io'.len = 0 /\ io'.via = Opened(d).table
  BY DEF ReadAtx, Access
<1>5. HomePlace(i, s) = <<0, 0, i>>
  BY <1>2 DEF HomePlace
<1> HIDE DEF i
<1> QED BY <1>2, <1>3, <1>4, <1>5, ServeStep DEF Touching

LEMMA HandledServes ==
  ASSUME ServiceInv, NEW d \in Drive, d = cmd.drive, CarefulHandled(d)
  PROVE  Service!Next
<1>1. Take
  BY HandledTakes, CarefulHandledIsHandled
<1>2. Disks' = Disks
  BY <1>1, TakeKeepsDisks DEF ServiceInv
<1>3. CASE \/ HandleGetStatus(d) \/ HandleReadPercomBlock(d) \/ HandleFormat(d)
           \/ \E s \in Sector : HandleSpeed(d, s)
  <2>1. io'.op \notin Touching
    BY <1>3 DEF HandleGetStatus, HandleReadPercomBlock, HandleFormat, HandleSpeed,
                Reply, Access, Touching
  <2> QED BY <1>2, <2>1, TouchNone
<1>4. ASSUME NEW s \in Sector, HandleRead(d, s)
      PROVE  Service!Next
  <2>1. s # 0
    BY <1>4 DEF HandleRead
  <2> QED BY <1>1, <1>4, <2>1, ReadSectorServes, ReadLoaderServes, ReadAtxServes
          DEF HandleRead, ServiceInv
<1>5. ASSUME NEW s \in Sector, HandleWrite(d, s)
      PROVE  Service!Next
  <2>1. io'.image = NoImage
    BY <1>5 DEF HandleWrite, WriteRefused, WriteStart, Reply, Access, NoIo
  <2> QED BY <1>2, <2>1, TouchNone
<1> QED BY <1>3, <1>4, <1>5 DEF CarefulHandled

\* A frame is written to the disk it was addressed to, or to none.
LEMMA WriteDoneServes ==
  ASSUME ServiceInv, WriteDone
  PROVE  Service!Next
<1> DEFINE i == content[rx.file]
           written == ~FileReadonly(rx.file)
<1>1. Disks' = Disks
  BY DEF WriteDone, Disks
<1>2. /\ pc = "store" /\ rx.file # NoFile /\ i \in Image /\ i # NoImage
      /\ rx.drive \in Drive /\ drives[rx.drive] = rx.file
      /\ rx.sector \in Sector /\ rx.sector # 0
  BY DriveAssumption DEF WriteDone, ServiceInv, CareInv, PendingFits, PendingSector,
                         Slot, Drive, NoFile
<1>3. CASE ~written
  <2>1. io'.image = NoImage
    BY <1>3 DEF WriteDone, WriteReply
  <2> QED BY <1>1, <2>1, TouchNone
<1>4. CASE written
  <2>1. /\ io'.op = "write" /\ io'.drive = rx.drive /\ io'.sector = rx.sector
        /\ io'.image = i /\ io'.loc = Seek(i, rx.loc) /\ io'.len = rx.len
        /\ io'.via = NoImage
    BY <1>2, <1>4 DEF WriteDone, WriteReply, WriteLocation
  <2>2. HomePlace(i, rx.sector) = <<Seek(i, rx.loc), rx.len, NoImage>>
    <3>1. /\ Home(i).loader = 0
          /\ rx.loc = Location(Home(i), rx.sector)
          /\ rx.len = Length(Home(i), rx.sector)
      BY <1>2 DEF ServiceInv, PendingSector
    <3>2. SameLayout(Home(i), Home(i))
      BY DEF SameLayout
    <3> HIDE DEF i
    <3> QED BY <1>2, <3>1, <3>2, HomeOfSector
  <2>3. Disks[rx.drive] = i
    BY <1>2 DEF Disks
  <2> HIDE DEF i
  <2> QED BY <1>1, <1>2, <2>1, <2>2, <2>3, ServeStep DEF Touching
<1> QED BY <1>3, <1>4

LEMMA TransferServes ==
  ASSUME ServiceInv, Transfer
  PROVE  Service!Next
<1>1. CASE \E good \in BOOLEAN : ReceiveData(good) \/ FrameTaken(good) \/ WriteNacked(good)
  <2>1. Disks' = Disks
    BY <1>1 DEF ReceiveData, FrameTaken, WriteNacked, Disks
  <2>2. io'.image = NoImage
    BY <1>1 DEF ReceiveData, FrameTaken, WriteNacked, WriteReply, NoIo
  <2> QED BY <2>1, <2>2, TouchNone
<1> QED BY <1>1, WriteDoneServes, TransferCases

LEMMA StepServes ==
  ASSUME ServiceInv, TypeOK', [CarefulNext]_vars
  PROVE  [Service!Next]_Service!vars
<1>1. CASE CarefulActions
  BY <1>1, ActionsServe
<1>2. CASE ProcessCommand
  <2>1. Disks' = Disks /\ io'.image = NoImage
    BY <1>2 DEF ProcessCommand, Accept, Refuse, Disks, NoIo
  <2> QED BY <2>1, TouchNone
<1>3. CASE CarefulHandle
  BY <1>3, CarefulCases, HandledServes DEF ServiceInv, CareInv, Inv
<1>4. CASE Transfer
  BY <1>4, TransferServes
<1>5. CASE UNCHANGED vars
  BY <1>5 DEF vars, Service!vars, Disks, Accesses
<1> QED BY <1>1, <1>2, <1>3, <1>4, <1>5 DEF CarefulNext

\* Used with care, the emulator implements DiskService: every sector is read
\* or written on the disk in the drive addressed, at the place where that disk
\* keeps it (processCommand, set_drive_status, handleRead and handleWrite share
\* one set of geometry globals).
THEOREM DisksAreServed == CarefulSpec => ServesDisks
<1>1. Init => Service!Init
  BY DEF Service!Init, Init, Disks, Accesses, NoIo
<1>2. ServiceInv /\ ServiceInv' /\ [CarefulNext]_vars => [Service!Next]_Service!vars
  BY StepServes DEF ServiceInv, CareInv, Inv
<1> QED BY <1>1, <1>2, InitServiceInv, NextServiceInv, PTL DEF CarefulSpec, ServesDisks, Service!Spec
=============================================================================
