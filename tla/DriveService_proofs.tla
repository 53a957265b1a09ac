------------------------ MODULE DriveService_proofs ------------------------
(***************************************************************************)
(* Proofs about the drive emulator used with care: the geometry globals    *)
(* always fit the drive in use, so nothing overruns the sector buffer and  *)
(* no image loses its header.                                              *)
(***************************************************************************)
EXTENDS DriveService, DriveEmulator_proofs

\* Care only leaves steps out.
LEMMA CarefulStep == ASSUME CarefulNext PROVE Next
<1>1. CASE CarefulActions
  <2>1. pc \notin {"hung", "lost"}
    BY <1>1 DEF CarefulActions, CarefulMenu, CarefulSwap
  <2>2. QED
    BY <1>1, <2>1, Zenon DEF CarefulActions, Actions, Next
<1>2. CASE CarefulHandle
  BY <1>2, Zenon DEF CarefulHandle, Handle, Next
<1>3. CASE ProcessCommand \/ Transfer
  BY <1>3, Zenon DEF Next
<1>4. QED
  BY <1>1, <1>2, <1>3 DEF CarefulNext

\* A command as the careful Atari gives it, for drive d.
CarefulHandled(d) ==
  \/ HandleGetStatus(d)
  \/ HandleReadPercomBlock(d)
  \/ HandleFormat(d)
  \/ \E s \in Sector : \/ HandleSpeed(d, s)
                       \/ HandleRead(d, s)
                       \/ ~Opened(d).geom.wp /\ HandleWrite(d, s)

LEMMA CarefulCases ==
  ASSUME TypeOK, CarefulHandle
  PROVE  \E d \in Drive : d = cmd.drive /\ CarefulHandled(d)
BY DEF CarefulHandle, CarefulHandled, TypeOK, Cmd

LEMMA CarefulHandledIsHandled ==
  ASSUME NEW d \in Drive, CarefulHandled(d)
  PROVE  Handled(d)
BY DEF CarefulHandled, Handled

LEMMA CarefulInvariant == CarefulSpec => []Inv
<1>1. Inv /\ [CarefulNext]_vars => Inv'
  BY CarefulStep, NextInv
<1>2. QED
  BY <1>1, InitInv, PTL DEF CarefulSpec

-----------------------------------------------------------------------------
(* One set of globals for all drives.                                       *)

\* set_drive_status(d, 0) empties a drive and leaves the globals alone.
LEMMA SetDriveStatusNull ==
  ASSUME NEW st \in GlobalsType, NEW c, NEW d \in Drive
  PROVE  /\ SetDriveStatus(st, c, d, NoFile).geom = st.geom
         /\ SetDriveStatus(st, c, d, NoFile).drives = [st.drives EXCEPT ![d] = NoFile]
BY DEF SetDriveStatus, GlobalsType

\* A drive mounted from its row is fitted by the globals.
LEMMA MenuSelectFits ==
  ASSUME Inv, FitsOpenDrive, NEW d \in Drive, NEW i \in Image \cup {NoImage},
         CarefulMenu(d), MenuSelect(d, i)
  PROVE  FitsOpenDrive'
<1> DEFINE st == SetDriveStatus(Globals, content', d, files[d])
<1>1. /\ content' = [content EXCEPT ![files[d]] = i]
      /\ drives' = st.drives
      /\ geom' = st.geom
      /\ opendrive' = opendrive
  BY DEF MenuSelect, Become
<1>2. /\ files[d] \in Slot
      /\ content' \in ContentType
      /\ Globals \in GlobalsType
      /\ header \in [Image -> Header]
      /\ HeadersKnown
  BY <1>1, GlobalsOK DEF Inv, TypeOK, ContentType
<1> HIDE DEF st
<1>3. /\ \A e \in Drive : e # d => st.drives[e] = Globals.drives[e]
      /\ st.drives[d] \in {NoFile, files[d]}
      /\ st.drives[d] # NoFile => /\ Holds(content'[files[d]], st.info[d])
                                  /\ SameLayout(st.geom, Home(content'[files[d]]))
  BY <1>2, SetDriveStatusHolds DEF st
<1>4. ASSUME NEW o \in Drive, opendrive = o, drives'[o] # NoFile
      PROVE  /\ content'[drives'[o]] # NoImage
             /\ SameLayout(geom', Home(content'[drives'[o]]))
  <2>1. o = d
    BY <1>1, <1>3, <1>4 DEF Globals, CarefulMenu, OpenDriveEmpty
  <2>2. QED
    BY <1>1, <1>3, <1>4, <2>1 DEF Holds
<1>5. QED
  BY <1>1, <1>4 DEF FitsOpenDrive

LEMMA MenuRemoveFits ==
  ASSUME Inv, FitsOpenDrive, NEW d \in Drive, CarefulMenu(d), MenuRemove(d)
  PROVE  FitsOpenDrive'
<1>1. Globals \in GlobalsType
  BY GlobalsOK DEF Inv
<1>2. /\ drives' = [drives EXCEPT ![d] = NoFile]
      /\ opendrive' = opendrive
  BY <1>1, SetDriveStatusNull DEF MenuRemove, Become, Globals
<1>3. ASSUME NEW o \in Drive, opendrive = o PROVE drives'[o] = NoFile
  BY <1>2, <1>3 DEF CarefulMenu, OpenDriveEmpty, Inv, TypeOK
<1>4. QED
  BY <1>2, <1>3 DEF FitsOpenDrive

\* The exchange with the first drive, whose drive is mounted last.
LEMMA MenuSwapFits ==
  ASSUME Inv, FitsOpenDrive, NEW d \in Drive, CarefulSwap(d), MenuSwap(d)
  PROVE  FitsOpenDrive'
<1> DEFINE st1 == SetDriveStatus(Globals, content, d, drives[0])
           st2 == SetDriveStatus(st1, content, 0, drives[d])
<1>1. /\ content' = content
      /\ drives' = st2.drives
      /\ geom' = st2.geom
      /\ opendrive' = opendrive
  BY DEF MenuSwap, Become
<1>2. /\ 0 \in Drive
      /\ content \in ContentType
      /\ Globals \in GlobalsType
      /\ drives[0] \in Slot \cup {NoFile}
      /\ drives[d] \in Slot \cup {NoFile}
      /\ header \in [Image -> Header]
      /\ HeadersKnown
  BY DriveAssumption, GlobalsOK DEF Inv, TypeOK, ContentType, Drive
<1>3. st1 \in GlobalsType
  BY <1>2, SetDriveStatusType
<1> HIDE DEF st1, st2
<1>4. /\ \A e \in Drive : e # d => st1.drives[e] = drives[e]
      /\ st1.drives[d] \in {NoFile, drives[0]}
      /\ st1.drives[d] # NoFile => /\ Holds(content[drives[0]], st1.info[d])
                                   /\ SameLayout(st1.geom, Home(content[drives[0]]))
  BY <1>2, SetDriveStatusHolds DEF st1, Globals
<1>5. /\ \A e \in Drive : e # 0 => drives'[e] = st1.drives[e]
      /\ drives'[0] \in {NoFile, drives[d]}
      /\ drives'[0] # NoFile => /\ Holds(content[drives[d]], st2.info[0])
                                /\ SameLayout(geom', Home(content[drives[d]]))
  <2>1. /\ \A e \in Drive : e # 0 => st2.drives[e] = st1.drives[e]
        /\ st2.drives[0] \in {NoFile, drives[d]}
        /\ st2.drives[0] # NoFile => /\ Holds(content[drives[d]], st2.info[0])
                                     /\ SameLayout(st2.geom, Home(content[drives[d]]))
    BY <1>2, <1>3, SetDriveStatusHolds DEF st2
  <2>2. QED
    BY <1>1, <2>1, Zenon
<1>6. drives[d] = NoFile => geom' = st1.geom
  <2>1. SetDriveStatus(st1, content, 0, NoFile).geom = st1.geom
    BY <1>2, <1>3, SetDriveStatusNull
  <2>2. QED
    BY <1>1, <2>1 DEF st2
<1>7. ASSUME NEW o \in Drive, opendrive = o, drives'[o] # NoFile
      PROVE  /\ content[drives'[o]] # NoImage
             /\ SameLayout(geom', Home(content[drives'[o]]))
  <2>1. CASE o = 0
    BY <1>5, <1>7, <2>1 DEF Holds
  <2>2. CASE o # 0
    <3>1. drives'[o] = st1.drives[o]
      BY <1>5, <2>2
    <3>2. OpenDriveEmpty \/ (o = d /\ drives[0] = NoFile)
      BY <1>7, <2>2 DEF CarefulSwap
    <3>3. o = d /\ drives[d] = NoFile
      BY <1>4, <1>7, <3>1, <3>2 DEF OpenDriveEmpty
    <3>4. QED
      BY <1>4, <1>6, <1>7, <3>1, <3>3 DEF Holds
  <2>3. QED
    BY <2>1, <2>2
<1>8. QED
  BY <1>1, <1>7 DEF FitsOpenDrive

LEMMA CarefulFits ==
  ASSUME Inv, FitsOpenDrive, [CarefulNext]_vars
  PROVE  FitsOpenDrive'
<1>1. CASE CarefulActions
  <2>1. CASE \E d \in Drive :
               \/ CarefulMenu(d) /\ \E i \in Image \cup {NoImage} : MenuSelect(d, i)
               \/ CarefulMenu(d) /\ MenuRemove(d)
               \/ CarefulSwap(d) /\ MenuSwap(d)
    BY <2>1, MenuSelectFits, MenuRemoveFits, MenuSwapFits
  <2>2. CASE CardRemoved \/ CardInserted
    BY <2>2, CardFits
  <2>3. CASE PullCard \/ Hang
    BY <2>3, OthersFit
  <2>4. QED
    BY <1>1, <2>1, <2>2, <2>3 DEF CarefulActions
<1>2. CASE CarefulHandle
  BY <1>2, CarefulCases, CarefulHandledIsHandled, HandledFits DEF Inv
<1>3. CASE ProcessCommand \/ Transfer \/ UNCHANGED vars
  BY <1>3, OthersFit
<1>4. QED
  BY <1>1, <1>2, <1>3 DEF CarefulNext

\* Used with care, the globals always fit the drive in use.
THEOREM CarefulUseFits == CarefulSpec => []AlwaysFits
<1>1. Init => FitsOpenDrive
  BY DriveAssumption DEF Init, FitsOpenDrive
<1>2. FitsOpenDrive => AlwaysFits
  BY DEF AlwaysFits
<1>3. QED
  BY <1>1, <1>2, CarefulFits, CarefulInvariant, PTL DEF CarefulSpec

-----------------------------------------------------------------------------
(* Headers stay as they were prepared, and handlers find their file.        *)

\* An executable or ATX in the globals comes with the write-protect flag.
LoaderProtected == geom.loader # 0 => geom.wp

ImagesIntact == \A i \in Image : Ext[i] = "other" => header[i] = CardHeader[i]

LEMMA LoadedProtected ==
  ASSUME NEW i \in Image, NEW h, NEW g
  PROVE  Loaded(i, h, g).loader # 0 => Loaded(i, h, g).wp
<1>1. Ext[i] \in {"XFD", "ATX", "other"}
  BY DriveAssumption
<1>2. QED
  BY <1>1 DEF Loaded

LEMMA SetDriveStatusProtected ==
  ASSUME NEW st \in GlobalsType, NEW c \in ContentType, NEW d \in Drive,
         NEW f \in Slot \cup {NoFile}, st.geom.loader # 0 => st.geom.wp,
         NEW g, g = SetDriveStatus(st, c, d, f).geom
  PROVE  g.loader # 0 => g.wp
<1>1. CASE f = NoFile
  BY <1>1 DEF SetDriveStatus, GlobalsType
<1>2. CASE f # NoFile /\ Unreadable(c[f])
  <2>1. g = Torn(c[f], st.geom)
    BY <1>2 DEF SetDriveStatus, GlobalsType
  <2>2. g.loader = st.geom.loader /\ g.wp = st.geom.wp
    BY <2>1 DEF Torn, GlobalsType, Geometry
  <2>3. QED
    BY <2>2
<1>3. CASE f # NoFile /\ ~Unreadable(c[f])
  <2>1. c[f] \in Image
    BY <1>3 DEF ContentType, Unreadable
  <2>2. g = Loaded(c[f], header[c[f]], st.geom)
    BY <1>3 DEF SetDriveStatus
  <2>3. QED
    BY <2>1, <2>2, LoadedProtected
<1>4. QED
  BY <1>1, <1>2, <1>3

\* The images a drive accepts: sectors fit the buffer, and what has a header is
\* either an executable or has its data behind the header.
LEMMA HomeFacts ==
  ASSUME NEW i \in Image, NEW n, Holds(i, n)
  PROVE  /\ Home(i).secSize <= 256
         /\ Home(i).loader = 0 => Home(i).offset >= 0
         /\ Ext[i] = "other" /\ Home(i).loader = 0 => Home(i).offset = 16
<1>1. Ext[i] \in {"XFD", "ATX", "other"}
  BY DriveAssumption
<1>2. Home(i).secSize <= 256
  BY DEF Holds, Accepted, Home
<1>3. Recognised(i, CardHeader[i])
  BY DEF Holds, Accepted
<1>4. /\ Home(i).loader = 0 => Home(i).offset >= 0
      /\ Ext[i] = "other" /\ Home(i).loader = 0 => Home(i).offset = 16
  BY <1>1, <1>3 DEF Home, Loaded, Recognised
<1>5. QED
  BY <1>2, <1>4

\* With headers intact a handler finds the file of its drive, and the globals
\* describe that file's image.
LEMMA OpenedFits ==
  ASSUME Inv, FitsOpenDrive, LoaderProtected, ImagesIntact,
         NEW d \in Drive, drives[d] # NoFile
  PROVE  /\ FileOf(d) = drives[d]
         /\ ImageIn(d) = content[drives[d]]
         /\ ImageIn(d) \in Image
         /\ Holds(ImageIn(d), info[d])
         /\ SameLayout(Opened(d).geom, Home(ImageIn(d)))
         /\ Opened(d).geom.loader # 0 => Opened(d).geom.wp
<1> DEFINE i == content[drives[d]]
           st == SetDriveStatus(Globals, content, d, drives[d])
<1>1. Holds(i, info[d]) /\ i \in Image /\ drives[d] \in Slot
  BY DEF Inv, Mounts, DrivesHold, Holds, TypeOK
<1>2. /\ Globals \in GlobalsType
      /\ content \in ContentType
      /\ header \in [Image -> Header]
      /\ HeadersKnown
  BY GlobalsOK DEF Inv, TypeOK, ContentType
<1>3. CASE d = opendrive
  <2>1. Opened(d).geom = geom /\ FileOf(d) = drives[d]
    BY <1>3 DEF FileOf, Opened, Globals
  <2>2. SameLayout(geom, Home(i))
    BY <1>3 DEF FitsOpenDrive
  <2>3. QED
    BY <1>1, <2>1, <2>2 DEF ImageIn, LoaderProtected
<1>4. CASE d # opendrive
  <2>1. Recognised(i, CardHeader[i])
    BY <1>1 DEF Holds, Accepted
  <2>2. Recognised(i, header[i])
    BY <1>1, <2>1, DriveAssumption DEF Recognised, ImagesIntact
  <2>3. st.drives[d] = drives[d]
    BY <1>1, <1>2, <2>2, SetDriveStatusAgain
  <2>4. SameLayout(st.geom, Home(i))
    BY <1>1, <1>2, <2>3, SetDriveStatusHolds
  <2>5. st.geom.loader # 0 => st.geom.wp
    <3>1. Globals.geom.loader # 0 => Globals.geom.wp
      BY DEF LoaderProtected, Globals
    <3>2. QED
      BY <1>1, <1>2, <3>1, SetDriveStatusProtected
  <2>6. Opened(d) = st
    BY <1>4 DEF Opened
  <2>7. FileOf(d) = drives[d] /\ ImageIn(d) = i
    BY <2>3, <2>6 DEF FileOf, ImageIn
  <2> HIDE DEF i, st
  <2>8. QED
    BY <1>1, <2>4, <2>5, <2>6, <2>7 DEF i
<1>5. QED
  BY <1>3, <1>4

LEMMA NextLoaderProtected ==
  ASSUME Inv, LoaderProtected, [Next]_vars
  PROVE  LoaderProtected'
<1>1. /\ Globals \in GlobalsType
      /\ content \in ContentType
      /\ 0 \in Drive
      /\ \A d \in Drive : drives[d] \in Slot \cup {NoFile} /\ files[d] \in Slot
      /\ Globals.geom.loader # 0 => Globals.geom.wp
  BY DriveAssumption, GlobalsOK DEF Inv, TypeOK, ContentType, Drive, LoaderProtected, Globals
<1>2. ASSUME NEW d \in Drive, NEW i \in Image \cup {NoImage}, MenuSelect(d, i)
      PROVE  LoaderProtected'
  <2>1. content' \in ContentType
    BY <1>2 DEF MenuSelect, Inv, TypeOK, ContentType
  <2>2. geom' = SetDriveStatus(Globals, content', d, files[d]).geom
    BY <1>2 DEF MenuSelect, Become
  <2>3. geom'.loader # 0 => geom'.wp
    BY <1>1, <2>1, <2>2, SetDriveStatusProtected
  <2>4. QED
    BY <2>3 DEF LoaderProtected
<1>3. ASSUME NEW d \in Drive, MenuRemove(d)
      PROVE  LoaderProtected'
  <2>1. geom' = Globals.geom
    BY <1>1, <1>3, SetDriveStatusNull DEF MenuRemove, Become
  <2>2. QED
    BY <1>1, <2>1 DEF LoaderProtected
<1>4. ASSUME NEW d \in Drive, MenuSwap(d)
      PROVE  LoaderProtected'
  <2> DEFINE st1 == SetDriveStatus(Globals, content, d, drives[0])
  <2>1. st1 \in GlobalsType
    BY <1>1, SetDriveStatusType DEF Inv, TypeOK
  <2>2. st1.geom.loader # 0 => st1.geom.wp
    BY <1>1, SetDriveStatusProtected
  <2>3. geom' = SetDriveStatus(st1, content, 0, drives[d]).geom
    BY <1>4 DEF MenuSwap, Become
  <2> HIDE DEF st1
  <2>4. geom'.loader # 0 => geom'.wp
    BY <1>1, <2>1, <2>2, <2>3, SetDriveStatusProtected
  <2>5. QED
    BY <2>4 DEF LoaderProtected
<1>5. ASSUME NEW d \in Drive, d = cmd.drive, Handled(d)
      PROVE  LoaderProtected'
  <2>1. geom' = Opened(d).geom
    BY <1>5, HandledTakes DEF Take, Become
  <2>2. CASE d = opendrive
    BY <1>1, <2>1, <2>2 DEF Opened, LoaderProtected
  <2>3. CASE d # opendrive
    <3>1. geom' = SetDriveStatus(Globals, content, d, drives[d]).geom
      BY <2>1, <2>3 DEF Opened
    <3>2. geom'.loader # 0 => geom'.wp
      BY <1>1, <3>1, SetDriveStatusProtected
    <3>3. QED
      BY <3>2 DEF LoaderProtected
  <2>4. QED
    BY <2>2, <2>3
<1>6. CASE \/ PullCard \/ CardRemoved \/ CardInserted \/ Hang
           \/ ProcessCommand \/ Transfer \/ UNCHANGED vars
  <2>1. UNCHANGED geom
    BY <1>6 DEF PullCard, CardRemoved, CardInserted, Hang, Restart, ProcessCommand, Accept,
                Refuse, Transfer, Receive, ReceiveData, WriteNacked, FrameTaken, WriteDone, vars
  <2>2. QED
    BY <2>1 DEF LoaderProtected
<1>7. QED
  BY <1>2, <1>3, <1>4, <1>5, <1>6, HandleCases DEF Next, Actions, Inv

-----------------------------------------------------------------------------
(* A command under way, and the data frame of a careful write.              *)

\* The disk of a command that waits to be acknowledged stays in its drive.
PendingCommand ==
  pc = "ack" => /\ drives[cmd.drive] # NoFile
                /\ content[drives[cmd.drive]] = cmd.asked
                /\ cmd.intact

\* What is being received fits the buffer, and is for an image that keeps
\* its header clear of the write.
PendingFits ==
  pc \in {"data", "store"} =>
    /\ rx.file \in Slot
    /\ content[rx.file] \in Image
    /\ ~Unreadable(content[rx.file])
    /\ Ext[content[rx.file]] = "other" => rx.loc >= 16
RxFits == rx.len <= 256

CareInv == /\ Inv
           /\ FitsOpenDrive
           /\ LoaderProtected
           /\ ImagesIntact
           /\ PendingCommand
           /\ PendingFits
           /\ RxFits

\* A handler finds a disk in its drive.
LEMMA HandledHasDisk ==
  ASSUME CareInv, NEW d \in Drive, d = cmd.drive, Take
  PROVE  drives[d] # NoFile
BY DEF CareInv, PendingCommand, Take

\* A format starts behind the header.
LEMMA FormatIntact ==
  ASSUME CareInv, NEW d \in Drive, d = cmd.drive, HandleFormat(d)
  PROVE  ImagesIntact'
<1> DEFINE g == Opened(d).geom
           i == ImageIn(d)
           loc == IF g.offset < 0 THEN 0 ELSE g.offset
<1>1. drives[d] # NoFile
  BY HandledHasDisk DEF HandleFormat
<1>2. /\ i \in Image
      /\ Holds(i, info[d])
      /\ SameLayout(g, Home(i))
      /\ g.loader # 0 => g.wp
  BY <1>1, OpenedFits DEF CareInv
<1>3. \/ UNCHANGED header
      \/ /\ ~g.wp
         /\ \E len \in Int, h \in Header : Overwritten(i, loc, len, h)
  <2> DEFINE len == IF FormatEnd(g) < loc THEN 0 ELSE FormatEnd(g) - loc
             First(b) == [magic |-> b, pars |-> 0, secSize |-> 0, flags |-> 0]
             Bytes == IF cmd.intact THEN {49 + d} ELSE ScratchByte
  <2>1. g \in Geometry
    BY OpenedType DEF CareInv, Inv, GlobalsType
  <2>2. len \in Int
    BY <2>1 DEF FormatEnd, Geometry
  <2>3. \A b \in Bytes : First(b) \in Header
    BY DriveAssumption DEF Header, Drive
  <2>4. \/ UNCHANGED header
        \/ ~g.wp /\ \E b \in Bytes : Overwritten(i, loc, len, First(b))
    BY DEF HandleFormat
  <2> HIDE DEF g, i, loc, len, First, Bytes
  <2>5. QED
    BY <2>2, <2>3, <2>4
<1>4. CASE UNCHANGED header
  BY <1>4 DEF CareInv, ImagesIntact
<1>5. CASE ~g.wp /\ \E len \in Int, h \in Header : Overwritten(i, loc, len, h)
  <2>1. g.loader = 0
    BY <1>2, <1>5
  <2>2. Home(i).loader = 0 /\ g.offset = Home(i).offset
    BY <1>2, <2>1 DEF SameLayout
  <2>3. Ext[i] = "other" => g.offset = 16
    BY <1>2, <2>2, HomeFacts
  <2>4. Ext[i] = "other" => loc = 16
    BY <2>3
  <2> HIDE DEF i, loc
  <2>5. header \in [Image -> Header]
    BY DEF CareInv, Inv, TypeOK
  <2>6. QED
    BY <1>2, <1>5, <2>4, <2>5 DEF Overwritten, CareInv, ImagesIntact
<1>6. QED
  BY <1>3, <1>4, <1>5

\* A write that is started is for a disk whose layout the globals have.
LEMMA WriteStartFits ==
  ASSUME CareInv, NEW d \in Drive, d = cmd.drive, NEW s \in Sector, NEW v \in BOOLEAN,
         ~Opened(d).geom.wp, WriteStart(d, s, v)
  PROVE  PendingFits' /\ RxFits'
<1> DEFINE g == Opened(d).geom
           i == ImageIn(d)
<1>1. drives[d] # NoFile /\ content' = content
  BY HandledHasDisk DEF WriteStart, Take
<1>2. /\ FileOf(d) = drives[d] /\ i = content[drives[d]] /\ i \in Image
      /\ Holds(i, info[d])
      /\ SameLayout(g, Home(i))
      /\ g.loader = 0
  BY <1>1, OpenedFits DEF CareInv
<1>3. /\ rx'.file = FileOf(d)
      /\ rx'.loc = Location(g, s)
      /\ rx'.len = Length(g, s)
  BY DEF WriteStart
<1>4. s \in Nat /\ s # 0 /\ g \in Geometry
  BY DriveAssumption, OpenedType DEF Word, WriteStart, CareInv, Inv, GlobalsType
<1>5. /\ g.secSize <= 256
      /\ Ext[i] = "other" => g.offset = 16
  BY <1>2, HomeFacts DEF SameLayout
<1>6. Length(g, s) <= 256
  BY <1>4, <1>5 DEF Length, Geometry
<1>7. Location(g, s) >= g.offset
  <2>1. g.secSize \in Nat /\ g.offset \in Int
    BY <1>4 DEF Geometry
  <2>2. CASE s > 3
    <3>1. (s - 4) * g.secSize >= 0
      BY <1>4, <2>1, <2>2
    <3>2. QED
      BY <2>1, <2>2, <3>1, <1>4 DEF Location
  <2>3. CASE ~(s > 3)
    BY <1>4, <2>1, <2>3 DEF Location
  <2>4. QED
    BY <2>2, <2>3
<1>8. Ext[i] = "other" => Location(g, s) >= 16
  BY <1>5, <1>7
<1>9. drives[d] \in Slot /\ ~Unreadable(i)
  BY <1>1, <1>2 DEF CareInv, Inv, TypeOK, Holds
<1> HIDE DEF g, i
<1>10. PendingFits'
  BY <1>1, <1>2, <1>3, <1>8, <1>9 DEF PendingFits
<1>11. RxFits'
  BY <1>3, <1>6 DEF RxFits
<1>12. QED
  BY <1>10, <1>11

\* A complete frame is written behind the header.
LEMMA WriteDoneIntact ==
  ASSUME CareInv, WriteDone
  PROVE  ImagesIntact'
<1>1. CASE UNCHANGED header
  BY <1>1 DEF CareInv, ImagesIntact
<1>2. CASE header' # header
  <2> DEFINE i == content[rx.file]
             loc == Seek(i, rx.loc)
  <2>1. /\ rx.file \in Slot
        /\ i \in Image
        /\ ~Unreadable(i)
        /\ Ext[i] = "other" => rx.loc >= 16
    BY DEF WriteDone, CareInv, PendingFits
  <2>2. rx.file # NoFile
    BY <2>1, DriveAssumption DEF Slot, Drive, NoFile
  <2>3. \/ UNCHANGED header
        \/ \E h \in Scribble : Overwritten(i, loc, rx.len, h)
    BY <2>2 DEF WriteDone, WriteLocation
  <2>4. Ext[i] = "other" => loc >= 16
    <3>1. Size[i] \in Nat /\ Size[i] >= 16
      BY <2>1, DriveAssumption DEF Unreadable
    <3>2. rx.loc \in Int
      BY DEF CareInv, Inv, TypeOK, Rx
    <3>3. QED
      BY <2>1, <3>1, <3>2 DEF Seek
  <2>5. header \in [Image -> Header]
    BY DEF CareInv, Inv, TypeOK
  <2> HIDE DEF i, loc
  <2>6. \A k \in Image : Ext[k] = "other" => header[k] = CardHeader[k]
    BY DEF CareInv, ImagesIntact
  <2>7. ASSUME NEW h \in Scribble, Overwritten(i, loc, rx.len, h)
        PROVE  ImagesIntact'
    <3>1. CASE Ext[i] = "other"
      <4>1. ~(loc < 16)
        <5>1. loc \in Int
          BY <2>1, DriveAssumption DEF i, loc, Seek, CareInv, Inv, TypeOK, Rx
        <5>2. QED
          BY <2>4, <3>1, <5>1
      <4>2. header' = header
        BY <2>7, <4>1 DEF Overwritten
      <4>3. QED
        BY <2>6, <4>2 DEF ImagesIntact
    <3>2. CASE Ext[i] # "other"
      <4>1. header' = header \/ header' = [header EXCEPT ![i] = h]
        BY <2>7 DEF Overwritten
      <4>2. QED
        BY <2>5, <2>6, <3>2, <4>1 DEF ImagesIntact
    <3>3. QED
      BY <3>1, <3>2
  <2>8. QED
    BY <1>1, <2>3, <2>7
<1>3. QED
  BY <1>1, <1>2

LEMMA OthersIntact ==
  ASSUME CareInv,
         \/ CarefulActions
         \/ ProcessCommand
         \/ \E d \in Drive : CarefulHandled(d) /\ ~HandleFormat(d)
         \/ \E good \in BOOLEAN : Receive(good)
         \/ UNCHANGED vars
  PROVE  ImagesIntact'
<1>1. UNCHANGED header
  BY DEF CarefulActions, MenuSelect, MenuRemove, MenuSwap, PullCard, CardRemoved, CardInserted,
         Hang, ProcessCommand, Accept, Refuse, CarefulHandled, HandleGetStatus,
         HandleReadPercomBlock, HandleSpeed, HandleRead, HandleWrite, WriteRefused, WriteStart,
         Receive, ReceiveData, WriteNacked, FrameTaken, vars
<1>2. QED
  BY <1>1 DEF CareInv, ImagesIntact

\* Nothing is changed in the drives between a command and its handler.
LEMMA NextPendingCommand ==
  ASSUME CareInv, [CarefulNext]_vars
  PROVE  PendingCommand'
<1>1. ASSUME NEW d \in Drive, Accept(d) PROVE PendingCommand'
  BY <1>1 DEF Accept, PendingCommand
<1>2. CASE CarefulActions \/ Transfer
  <2>1. pc' # "ack"
    BY <1>2 DEF CarefulActions, CarefulMenu, CarefulSwap, MenuSelect, MenuRemove, MenuSwap,
          PullCard, CardRemoved, CardInserted, Hang, Transfer, Receive, ReceiveData,
          WriteNacked, FrameTaken, WriteDone
  <2>2. QED
    BY <2>1 DEF PendingCommand
<1>3. ASSUME NEW d \in Drive, CarefulHandled(d) PROVE PendingCommand'
  <2>1. pc' # "ack"
    BY <1>3 DEF CarefulHandled, HandleGetStatus, HandleReadPercomBlock, HandleFormat,
          HandleSpeed, HandleRead, HandleWrite, WriteRefused, WriteStart
  <2>2. QED
    BY <2>1 DEF PendingCommand
<1>4. ASSUME NEW d \in Drive, Refuse(d) PROVE PendingCommand'
  BY <1>4 DEF Refuse, PendingCommand
<1>5. CASE UNCHANGED vars
  BY <1>5 DEF vars, PendingCommand, CareInv
<1>6. QED
  BY <1>1, <1>2, <1>3, <1>4, <1>5, CarefulCases DEF CarefulNext, ProcessCommand, CareInv, Inv

LEMMA CarefulPending ==
  ASSUME CareInv, [CarefulNext]_vars
  PROVE  PendingFits' /\ RxFits'
<1>1. CASE CarefulActions
  <2>1. pc' \in {"idle", "hung"}
    BY <1>1 DEF CarefulActions, CarefulMenu, CarefulSwap, MenuSelect, MenuRemove, MenuSwap,
                PullCard, CardRemoved, CardInserted, Hang
  <2>2. rx'.len \in {rx.len, 0}
    BY <1>1 DEF CarefulActions, MenuSelect, MenuRemove, MenuSwap, PullCard, CardRemoved,
                CardInserted, Hang, NoRx, FrameAfter, CareInv, Inv, TypeOK, Rx
  <2>3. QED
    BY <2>1, <2>2 DEF PendingFits, RxFits, CareInv
<1>2. ASSUME NEW d \in Drive, d = cmd.drive, NEW s \in Sector, HandleWrite(d, s),
             ~Opened(d).geom.wp
      PROVE  PendingFits' /\ RxFits'
  <2>1. CASE WriteRefused(d, s)
    BY <2>1 DEF WriteRefused, PendingFits, RxFits, CareInv
  <2>2. CASE \E v \in BOOLEAN : WriteStart(d, s, v)
    BY <1>2, <2>2, WriteStartFits
  <2>3. QED
    BY <1>2, <2>1, <2>2 DEF HandleWrite
<1>3. CASE \/ ProcessCommand
           \/ \E d \in Drive :
                \/ HandleGetStatus(d)
                \/ HandleReadPercomBlock(d)
                \/ HandleFormat(d)
                \/ \E s \in Sector : HandleSpeed(d, s) \/ HandleRead(d, s)
  <2>1. pc' \notin {"data", "store"} /\ rx' = rx
    BY <1>3 DEF ProcessCommand, Accept, Refuse, HandleGetStatus, HandleReadPercomBlock,
                HandleFormat, HandleSpeed, HandleRead
  <2>2. QED
    BY <2>1 DEF PendingFits, RxFits, CareInv
<1>4. CASE \E good \in BOOLEAN : ReceiveData(good) \/ FrameTaken(good)
  <2>1. /\ content' = content /\ pc = "data"
        /\ rx'.file = rx.file /\ rx'.loc = rx.loc /\ rx'.len = rx.len
    BY <1>4 DEF ReceiveData, FrameTaken, CareInv, Inv, TypeOK, Rx
  <2>2. QED
    BY <2>1 DEF PendingFits, RxFits, CareInv
<1>5. CASE WriteDone \/ \E good \in BOOLEAN : WriteNacked(good)
  <2>1. pc' = "idle" /\ rx'.len = 0
    BY <1>5 DEF WriteNacked, WriteDone, NoRx
  <2>2. QED
    BY <2>1 DEF PendingFits, RxFits
<1>6. CASE UNCHANGED vars
  BY <1>6 DEF vars, PendingFits, RxFits, CareInv
<1>7. CASE CarefulHandle
  BY <1>2, <1>3, <1>7, CarefulCases DEF CarefulHandled, CareInv, Inv
<1>8. QED
  BY <1>1, <1>3, <1>4, <1>5, <1>6, <1>7, TransferCases DEF CarefulNext

LEMMA NextCareInv == CareInv /\ [CarefulNext]_vars => CareInv'
<1> SUFFICES ASSUME CareInv, [CarefulNext]_vars PROVE CareInv'
  OBVIOUS
<1>1. [Next]_vars
  BY CarefulStep
<1>2. Inv' /\ LoaderProtected'
  BY <1>1, NextInv, NextLoaderProtected DEF CareInv
<1>3. FitsOpenDrive'
  BY CarefulFits DEF CareInv
<1>4. PendingFits' /\ RxFits'
  BY CarefulPending
<1>5. ImagesIntact'
  <2>1. CarefulHandle => ImagesIntact'
    BY FormatIntact, OthersIntact, CarefulCases DEF CareInv, Inv
  <2>2. QED
    BY <2>1, WriteDoneIntact, OthersIntact DEF CarefulNext, Transfer
<1>6. PendingCommand'
  BY NextPendingCommand
<1>7. QED
  BY <1>2, <1>3, <1>4, <1>5, <1>6 DEF CareInv

LEMMA InitCareInv == Init => CareInv
<1> SUFFICES ASSUME Init PROVE CareInv
  OBVIOUS
<1>1. Inv
  BY InitInv
<1>2. FitsOpenDrive
  BY DEF Init, FitsOpenDrive
<1>3. LoaderProtected /\ ImagesIntact
  BY DEF Init, NoGeometry, LoaderProtected, ImagesIntact
<1>4. PendingCommand /\ PendingFits /\ RxFits
  BY DEF Init, NoRx, PendingCommand, PendingFits, RxFits
<1>5. QED
  BY <1>1, <1>2, <1>3, <1>4 DEF CareInv

LEMMA CareInvariant == CarefulSpec => []CareInv
<1>1. QED
  BY InitCareInv, NextCareInv, PTL DEF CarefulSpec

-----------------------------------------------------------------------------
(* What the handlers do to the buffer, the file and themselves.             *)

IoSafe == io.bytes <= 256 /\ ~io.null /\ FormatStaysInside

\* A step that answers nothing, and one that answers without a file's bytes.
LEMMA NoIoSafe == io' = NoIo => IoSafe'
BY DEF IoSafe, NoIo, FormatStaysInside

LEMMA AccessSafe ==
  ASSUME CareInv, NEW d \in Drive, drives[d] # NoFile, NEW s, NEW op, NEW answer,
         NEW bytes \in Nat, bytes <= 256, op # "format", NEW i, NEW via, NEW loc, NEW len,
         io' = Access(d, s, op, answer, bytes, i, via, loc, len)
  PROVE  IoSafe'
<1>1. FileOf(d) # NoFile
  BY OpenedFits DEF CareInv
<1>2. io'.bytes = bytes /\ io'.null = (FileOf(d) = NoFile) /\ io'.op = op
  BY DEF Access
<1>3. QED
  BY <1>1, <1>2 DEF IoSafe, FormatStaysInside

\* The 128-byte records that fit in the image's paragraphs, from its data on.
LEMMA FormatIoSafe ==
  ASSUME CareInv, NEW d \in Drive, d = cmd.drive, HandleFormat(d)
  PROVE  /\ IoSafe'
         /\ pc' = "lost" => \E i \in Image : ~(Home(i).secSize >= 2)
<1> DEFINE g == Opened(d).geom
           i == ImageIn(d)
           loc == IF g.offset < 0 THEN 0 ELSE g.offset
           len == IF FormatEnd(g) < loc THEN 0 ELSE FormatEnd(g) - loc
<1>1. drives[d] # NoFile
  BY HandledHasDisk DEF HandleFormat
<1>2. /\ i \in Image
      /\ Holds(i, info[d])
      /\ SameLayout(g, Home(i))
      /\ g.loader # 0 => g.wp
      /\ FileOf(d) # NoFile
  BY <1>1, OpenedFits DEF CareInv
<1>3. CASE g.wp
  <2>1. io' = Reply(d, 0, "format", "error", 0) /\ pc' = "idle"
    BY <1>3 DEF HandleFormat
  <2>2. io'.bytes = 0 /\ io'.null = (FileOf(d) = NoFile) /\ io'.image = NoImage
    BY <2>1 DEF Reply, Access
  <2>3. ~io'.null
    BY <1>2, <2>2, Zenon
  <2>4. IoSafe'
    BY <2>2, <2>3 DEF IoSafe, FormatStaysInside
  <2>5. QED
    BY <2>1, <2>4
<1>4. CASE ~g.wp
  <2>1. g \in Geometry /\ g.secSize \in Nat /\ g.pars \in Nat /\ g.offset \in Int
    BY OpenedType DEF CareInv, Inv, GlobalsType, Geometry
  <2>2. /\ io'.bytes = g.secSize
        /\ io'.null = (FileOf(d) = NoFile)
        /\ io'.loc = loc
        /\ io'.len = len
        /\ io'.image \in {i, NoImage}
        /\ pc' = "lost" => g.secSize < 2
    BY <1>4 DEF HandleFormat, Access
  <2>3. /\ g.secSize <= 256
        /\ g.offset >= 0
        /\ g.secSize = Home(i).secSize
        /\ g.offset = Home(i).offset
        /\ g.pars = Home(i).pars
    BY <1>2, <1>4, HomeFacts DEF SameLayout
  <2>4. 128 * (g.pars \div 8) <= 16 * g.pars
    BY <2>1
  <2>5. loc = g.offset /\ loc + len <= g.offset + 16 * g.pars
    BY <2>1, <2>3, <2>4 DEF FormatEnd
  <2> HIDE DEF g, i, loc, len
  <2>6. io'.image # NoImage =>
          /\ io'.loc >= Home(io'.image).offset
          /\ Truthful(io'.image) => io'.loc + io'.len <= Size[io'.image]
    <3>1. Size[i] \in Nat /\ len \in Nat
      BY <1>2, <2>1, DriveAssumption DEF len, loc, FormatEnd
    <3>2. QED
      BY <2>1, <2>2, <2>3, <2>5, <3>1 DEF Truthful
  <2>7. IoSafe'
    BY <1>2, <2>2, <2>3, <2>6 DEF IoSafe, FormatStaysInside, Truthful, Home
  <2>8. pc' = "lost" => ~(Home(i).secSize >= 2)
    BY <2>1, <2>2, <2>3
  <2>9. QED
    BY <1>2, <2>7, <2>8
<1>5. QED
  BY <1>3, <1>4

LEMMA ReadIoSafe ==
  ASSUME CareInv, NEW d \in Drive, d = cmd.drive, NEW s \in Sector, HandleRead(d, s)
  PROVE  IoSafe'
<1> DEFINE g == Opened(d).geom
<1>1. drives[d] # NoFile
  BY HandledHasDisk DEF HandleRead
<1>2. CASE ReadSector(d, s)
  <2>1. g.secSize \in Nat
    BY OpenedType DEF CareInv, Inv, GlobalsType, Geometry
  <2>2. g.secSize <= 256
    BY <1>1, OpenedFits, HomeFacts DEF CareInv, SameLayout
  <2>3. Length(g, s) \in Nat /\ Length(g, s) <= 256
    BY <2>1, <2>2 DEF Length
  <2> HIDE DEF g
  <2>4. \E loc \in {Seek(ImageIn(d), Location(g, s)), 0} :
          io' = Access(d, s, "read", "complete", Length(g, s), ImageIn(d), NoImage,
                       loc, Length(g, s))
    BY <1>2 DEF ReadSector, g
  <2>5. QED
    BY <1>1, <2>3, <2>4, AccessSafe
<1>3. CASE ReadLoader(d, s)
  <2>1. \E i, loc, len :
          io' = Access(d, s, "loader", "complete", 128, i, NoImage, loc, len)
    BY <1>3 DEF ReadLoader, Reply
  <2>2. QED
    BY <1>1, <2>1, AccessSafe
<1>4. CASE ReadAtx(d, s)
  <2>1. \E bytes \in {128, 256} : \E answer, i, via :
          io' = Access(d, s, "atx", answer, bytes, i, via, 0, 0)
    BY <1>4 DEF ReadAtx
  <2>2. QED
    BY <1>1, <2>1, AccessSafe
<1>5. QED
  BY <1>2, <1>3, <1>4 DEF HandleRead

LEMMA TransferIoSafe ==
  ASSUME CareInv, Transfer
  PROVE  IoSafe'
<1>1. CASE \E good \in BOOLEAN : ReceiveData(good) \/ FrameTaken(good)
  BY <1>1, QuietIo, NoIoSafe
<1>2. CASE WriteDone \/ \E good \in BOOLEAN : WriteNacked(good)
  <2>1. /\ pc \in {"data", "store"}
        /\ \E answer, i, loc : io' = WriteReply(answer, i, loc)
    BY <1>2 DEF WriteNacked, WriteDone
  <2>2. io'.bytes = rx.len /\ io'.null = (rx.file = NoFile) /\ io'.op = "write"
    BY <2>1 DEF WriteReply
  <2>3. rx.len <= 256 /\ rx.file # NoFile
    BY <2>1, DriveAssumption DEF CareInv, RxFits, PendingFits, Slot, Drive, NoFile
  <2>4. QED
    BY <2>2, <2>3 DEF IoSafe, FormatStaysInside
<1>3. QED
  BY <1>1, <1>2, TransferCases

LEMMA NextIoSafe == CareInv /\ IoSafe /\ [CarefulNext]_vars => IoSafe'
<1> SUFFICES ASSUME CareInv, IoSafe, [CarefulNext]_vars PROVE IoSafe'
  OBVIOUS
<1>1. CASE CarefulActions \/ ProcessCommand
  <2>1. io' = NoIo
    BY <1>1 DEF CarefulActions, MenuSelect, MenuRemove, MenuSwap, PullCard, CardRemoved,
                CardInserted, Hang, ProcessCommand, Accept, Refuse
  <2>2. QED
    BY <2>1, NoIoSafe
<1>2. ASSUME NEW d \in Drive, d = cmd.drive, CarefulHandled(d) PROVE IoSafe'
  <2>1. drives[d] # NoFile
    BY <1>2, CarefulHandledIsHandled, HandledTakes, HandledHasDisk
  <2>2. CASE HandleGetStatus(d)
    <3>1. \E i, via, loc, len :
            io' = Access(d, 0, "status", "complete", 4, i, via, loc, len)
      BY <2>2 DEF HandleGetStatus, Reply
    <3>2. QED
      BY <2>1, <3>1, AccessSafe
  <2>3. CASE HandleReadPercomBlock(d)
    <3>1. \E i, via, loc, len :
            io' = Access(d, 0, "percom", "complete", 12, i, via, loc, len)
      BY <2>3 DEF HandleReadPercomBlock, Reply
    <3>2. QED
      BY <2>1, <3>1, AccessSafe
  <2>4. ASSUME NEW s \in Sector, HandleSpeed(d, s) PROVE IoSafe'
    <3>1. \E i, via, loc, len :
            io' = Access(d, s, "speed", "complete", 1, i, via, loc, len)
      BY <2>4 DEF HandleSpeed, Reply
    <3>2. QED
      BY <2>1, <3>1, AccessSafe
  <2>5. ASSUME NEW s \in Sector, HandleWrite(d, s) PROVE IoSafe'
    <3>1. CASE WriteRefused(d, s)
      <4>1. \E i, via, loc, len :
              io' = Access(d, s, "write", "error", 0, i, via, loc, len)
        BY <3>1 DEF WriteRefused, Reply
      <4>2. QED
        BY <2>1, <4>1, AccessSafe
    <3>2. CASE \E v \in BOOLEAN : WriteStart(d, s, v)
      BY <3>2, NoIoSafe DEF WriteStart
    <3>3. QED
      BY <2>5, <3>1, <3>2 DEF HandleWrite
  <2>6. QED
    BY <1>2, <2>2, <2>3, <2>4, <2>5, FormatIoSafe, ReadIoSafe DEF CarefulHandled
<1>3. CASE Transfer
  BY <1>3, TransferIoSafe
<1>4. CASE UNCHANGED vars
  BY <1>4 DEF vars, IoSafe, FormatStaysInside
<1>5. QED
  BY <1>1, <1>2, <1>3, <1>4, CarefulCases DEF CarefulNext, CareInv, Inv

LEMMA IoStaysSafe == CarefulSpec => []IoSafe
<1>1. Init => IoSafe
  BY DEF Init, NoIo, IoSafe, FormatStaysInside
<1>2. QED
  BY <1>1, NextIoSafe, CareInvariant, PTL DEF CarefulSpec

\* Used with care, no image the drives take overruns atari_sector_buffer,
\* whatever sector size its header has.
THEOREM BufferNeverOverrun == CarefulSpec => []TransferFitsBuffer
<1>1. CareInv /\ IoSafe => TransferFitsBuffer
  BY DEF CareInv, RxFits, IoSafe, TransferFitsBuffer
<1>2. QED
  BY <1>1, CareInvariant, IoStaysSafe, PTL

\* Used with care, every handler of processCommand finds the drive's file.
THEOREM FileAlwaysThere == CarefulSpec => []NeverNullFile
<1>1. IoSafe => NeverNullFile
  BY DEF IoSafe, NeverNullFile
<1>2. QED
  BY <1>1, IoStaysSafe, PTL

\* Used with care, handleFormat leaves an image's header alone, and writes no byte
\* behind the end of the file if the header claims no more than the file has.
THEOREM FormatInsideImage == CarefulSpec => []FormatStaysInside
<1>1. IoSafe => FormatStaysInside
  BY DEF IoSafe
<1>2. QED
  BY <1>1, IoStaysSafe, PTL

\* Used with care and with images whose sectors have two bytes or more, the
\* loop at the end of handleFormat ends.
THEOREM FormatEnds == CarefulSpec => []NeverRunsAway
<1>1. Init => NeverRunsAway
  BY DEF Init, NeverRunsAway
<1>2. CareInv /\ NeverRunsAway /\ [CarefulNext]_vars => NeverRunsAway'
  <2> SUFFICES ASSUME CareInv, NeverRunsAway, [CarefulNext]_vars,
                      \A i \in Image : Home(i).secSize >= 2
               PROVE  pc' # "lost"
    BY DEF NeverRunsAway, Home
  <2>1. pc # "lost"
    BY DEF NeverRunsAway
  <2>2. ASSUME NEW d \in Drive, d = cmd.drive, HandleFormat(d) PROVE pc' # "lost"
    BY <2>2, FormatIoSafe
  <2>3. CASE CarefulActions \/ ProcessCommand \/ Transfer \/ UNCHANGED vars
    BY <2>1, <2>3 DEF CarefulActions, MenuSelect, MenuRemove, MenuSwap, PullCard, CardRemoved,
          CardInserted, Hang, ProcessCommand, Accept, Refuse, Transfer, Receive, ReceiveData,
          WriteNacked, FrameTaken, WriteDone, vars
  <2>4. ASSUME NEW d \in Drive, CarefulHandled(d), ~HandleFormat(d)
        PROVE  pc' # "lost"
    BY <2>4 DEF CarefulHandled, HandleGetStatus, HandleReadPercomBlock,
          HandleSpeed, HandleRead, HandleWrite, WriteRefused, WriteStart
  <2>5. QED
    BY <2>2, <2>3, <2>4, CarefulCases DEF CarefulNext, CareInv, Inv
<1>3. QED
  BY <1>1, <1>2, CareInvariant, PTL DEF CarefulSpec
=============================================================================
