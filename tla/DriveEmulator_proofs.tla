----------------------- MODULE DriveEmulator_proofs -----------------------
(***************************************************************************)
(* Proofs about the drive emulator, for any images and sectors and for one *)
(* to four drives.                                                         *)
(***************************************************************************)
EXTENDS DriveEmulator, TLAPS

-----------------------------------------------------------------------------
(* What set_drive_status leaves.                                            *)

GlobalsType ==
  [drives : [Drive -> Slot \cup {NoFile}], info : [Drive -> Info],
   geom : Geometry, table : Image \cup {NoImage}, scratched : BOOLEAN]

ContentType == [Slot -> Image \cup {NoImage}]

\* The globals keep their types whatever header an image has.
LEMMA LoadedType ==
  ASSUME NEW i \in Image, NEW h \in Header, NEW g \in Geometry
  PROVE  Loaded(i, h, g) \in Geometry
<1> DEFINE p == (Size[i] \div 16) % WordValues
<1>1. Size[i] \in Nat /\ ReadOnly[i] \in BOOLEAN
  BY DriveAssumption
<1>2. p \in Nat
  BY <1>1 DEF WordValues
<1>3. h.pars \in Nat /\ h.secSize \in Nat
  BY DEF Header
<1>4. g.offset \in Int
  BY DEF Geometry
<1> HIDE DEF p
<1>5. QED
  BY <1>1, <1>2, <1>3, <1>4 DEF Loaded, Geometry, p

\* What the menu is told of an image is one of the kinds it can name.
LEMMA InfoType ==
  ASSUME NEW g \in Geometry
  PROVE  InfoOf(g) \in Info
BY DEF InfoOf, DensityOf, Info, Geometry

\* What a file too short for a header leaves in the globals.
LEMMA TornType ==
  ASSUME NEW i \in Image \cup {NoImage}, NEW g \in Geometry, header \in [Image -> Header]
  PROVE  Torn(i, g) \in Geometry
<1>1. CASE i = NoImage
  BY <1>1 DEF Torn
<1>2. CASE i # NoImage
  <2> DEFINE h == header[i]
             pars == IF Size[i] >= 4 THEN Swapped(h.pars)
                     ELSE IF Size[i] = 3 THEN 256 * (h.pars % 256) + (g.pars % 256)
                     ELSE g.pars
             secSize == IF Size[i] >= 6 THEN Swapped(h.secSize)
                        ELSE IF Size[i] = 5
                             THEN 256 * (h.secSize % 256) + (g.secSize % 256)
                             ELSE g.secSize
  <2>1. \A w \in Nat : Swapped(w) \in Nat /\ 256 * (w % 256) \in Nat /\ w % 256 \in Nat
    BY DEF Swapped
  <2>2. /\ h.pars \in Nat /\ h.secSize \in Nat
        /\ g.pars \in Nat /\ g.secSize \in Nat
    BY <1>2 DEF Header, Geometry
  <2>3. pars \in Nat /\ secSize \in Nat
    BY <2>1, <2>2
  <2>4. Torn(i, g) = [g EXCEPT !.pars = pars, !.secSize = secSize]
    BY <1>2 DEF Torn
  <2> HIDE DEF pars, secSize
  <2>5. QED
    BY <2>3, <2>4 DEF Geometry
<1>3. QED
  BY <1>1, <1>2

LEMMA SetDriveStatusType ==
  ASSUME NEW st \in GlobalsType, NEW c \in ContentType, NEW d \in Drive,
         NEW f \in Slot \cup {NoFile}, header \in [Image -> Header]
  PROVE  SetDriveStatus(st, c, d, f) \in GlobalsType
<1>1. NoInfo \in Info
  BY DEF NoInfo, Info
<1>2. CASE f = NoFile
  BY <1>1, <1>2 DEF SetDriveStatus, GlobalsType
<1>3. CASE f # NoFile /\ Unreadable(c[f])
  <2> DEFINE g == Torn(c[f], st.geom)
  <2>1. g \in Geometry
    BY <1>3, TornType DEF GlobalsType, ContentType
  <2>2. SetDriveStatus(st, c, d, f)
          = [st EXCEPT !.drives[d] = NoFile, !.info[d] = NoInfo, !.geom = g]
    BY <1>3 DEF SetDriveStatus
  <2> HIDE DEF g
  <2>3. SetDriveStatus(st, c, d, f)
          = [drives |-> [st.drives EXCEPT ![d] = NoFile],
             info   |-> [st.info EXCEPT ![d] = NoInfo],
             geom   |-> g, table |-> st.table, scratched |-> st.scratched]
    BY <2>2 DEF GlobalsType
  <2>4. QED
    BY <1>1, <2>1, <2>3 DEF GlobalsType
<1>4. CASE f # NoFile /\ ~Unreadable(c[f])
  <2> DEFINE i == c[f]
             h == header[i]
             g == Loaded(i, h, st.geom)
             ok == Accepted(i, h, st.geom)
  <2>1. i \in Image
    BY <1>4 DEF ContentType, Unreadable
  <2>2. g \in Geometry
    BY <2>1, LoadedType DEF GlobalsType
  <2>3. InfoOf(g) \in Info
    BY <2>2, InfoType
  <2> HIDE DEF h, g, ok
  <2>4. SetDriveStatus(st, c, d, f)
          = [drives |-> [st.drives EXCEPT ![d] = IF ok THEN f ELSE NoFile],
             info   |-> [st.info EXCEPT ![d] = IF ok THEN InfoOf(g) ELSE NoInfo],
             geom   |-> g,
             table  |-> IF Ext[i] = "ATX" THEN i ELSE st.table,
             scratched |-> st.scratched \/ Ext[i] = "ATX"]
    BY <1>4 DEF SetDriveStatus, h, g, ok
  <2>5. QED
    BY <1>1, <2>1, <2>2, <2>3, <2>4 DEF GlobalsType
<1>5. QED
  BY <1>2, <1>3, <1>4

LEMMA GlobalsOK ==
  ASSUME TypeOK
  PROVE  Globals \in GlobalsType
BY DEF TypeOK, Globals, GlobalsType

-----------------------------------------------------------------------------
(* Type correctness.                                                        *)

\* The bookkeeping of the command and the frame keeps its type.
LEMMA FrameAfterType ==
  ASSUME TypeOK, NEW b \in BOOLEAN, FrameAfter(b)
  PROVE  rx' \in Rx /\ cmd' \in Cmd
BY DEF TypeOK, FrameAfter, Rx, Cmd

LEMMA NoIoType == NoIo \in Io
<1>1. 0 \in Drive
  BY DriveAssumption DEF Drive
<1>2. QED
  BY <1>1 DEF NoIo, Io, Operation, Answer

LEMMA NoRxType == NoRx \in Rx
<1>1. 0 \in Drive /\ 0 \in 0 .. FrameUnits - 1
  BY DriveAssumption DEF Drive
<1>2. QED
  BY <1>1 DEF NoRx, Rx

LEMMA NoCmdType == NoCmd \in Cmd
<1>1. 0 \in Drive
  BY DriveAssumption DEF Drive
<1>2. QED
  BY <1>1 DEF NoCmd, Cmd

LEMMA InitTypeOK == Init => TypeOK
<1> SUFFICES ASSUME Init PROVE TypeOK
  OBVIOUS
<1>1. files \in [Drive -> Slot] /\ drives \in [Drive -> Slot \cup {NoFile}]
  BY DEF Init, Slot
<1>2. info \in [Drive -> Info]
  BY DEF Init, Info, NoInfo
<1>3. geom \in Geometry
  BY DEF Init, NoGeometry, Geometry
<1>4. header \in [Image -> Header]
  BY DriveAssumption DEF Init
<1>5. rx \in Rx /\ cmd \in Cmd /\ io \in Io
  BY NoIoType, NoRxType, NoCmdType DEF Init
<1>6. QED
  BY <1>1, <1>2, <1>3, <1>4, <1>5 DEF Init, TypeOK

\* A step that leaves the globals as a call of set_drive_status would.
LEMMA BecomeType ==
  ASSUME NEW st \in GlobalsType, Become(st)
  PROVE  /\ drives' \in [Drive -> Slot \cup {NoFile}]
         /\ info' \in [Drive -> Info]
         /\ geom' \in Geometry
         /\ table' \in Image \cup {NoImage}
BY DEF Become, GlobalsType

LEMMA MenuSelectType ==
  ASSUME TypeOK, NEW d \in Drive, NEW i \in Image \cup {NoImage}, MenuSelect(d, i)
  PROVE  TypeOK'
<1> DEFINE st == SetDriveStatus(Globals, content', d, files[d])
<1>1. content' \in ContentType
  BY DEF TypeOK, MenuSelect, ContentType
<1>2. st \in GlobalsType
  BY <1>1, GlobalsOK, SetDriveStatusType DEF TypeOK
<1>3. Become(st) /\ FrameAfter(st.scratched)
  BY DEF MenuSelect
<1> HIDE DEF st
<1>4. rx' \in Rx /\ cmd' \in Cmd
  BY <1>2, <1>3, FrameAfterType DEF GlobalsType
<1>5. QED
  BY <1>1, <1>2, <1>3, <1>4, BecomeType, NoIoType
  DEF MenuSelect, TypeOK, ContentType

LEMMA MenuRemoveType ==
  ASSUME TypeOK, NEW d \in Drive, MenuRemove(d)
  PROVE  TypeOK'
<1> DEFINE st == SetDriveStatus(Globals, content', d, NoFile)
<1>1. content' \in ContentType
  BY DEF TypeOK, MenuRemove, ContentType
<1>2. st \in GlobalsType
  BY <1>1, GlobalsOK, SetDriveStatusType DEF TypeOK
<1>3. Become(st)
  BY DEF MenuRemove
<1> HIDE DEF st
<1>4. QED
  BY <1>1, <1>2, <1>3, BecomeType, NoIoType DEF MenuRemove, TypeOK, ContentType

LEMMA MenuSwapType ==
  ASSUME TypeOK, NEW d \in Drive, MenuSwap(d)
  PROVE  TypeOK'
<1> DEFINE st1 == SetDriveStatus(Globals, content, d, drives[0])
           st2 == SetDriveStatus(st1, content, 0, drives[d])
<1>1. 0 \in Drive
  BY DriveAssumption DEF Drive
<1>2. content \in ContentType /\ drives[0] \in Slot \cup {NoFile}
                              /\ drives[d] \in Slot \cup {NoFile}
  BY <1>1 DEF TypeOK, ContentType
<1>3. st1 \in GlobalsType
  BY <1>2, GlobalsOK, SetDriveStatusType DEF TypeOK
<1>4. st2 \in GlobalsType
  <2> HIDE DEF st1
  <2> QED BY <1>1, <1>2, <1>3, SetDriveStatusType DEF TypeOK
<1>5. Become(st2) /\ FrameAfter(st2.scratched)
  BY DEF MenuSwap
<1> HIDE DEF st2
<1>6. rx' \in Rx /\ cmd' \in Cmd
  BY <1>4, <1>5, FrameAfterType DEF GlobalsType
<1>7. files' \in [Drive -> Slot]
  BY <1>1 DEF MenuSwap, TypeOK
<1>8. QED
  BY <1>4, <1>5, <1>6, <1>7, BecomeType, NoIoType DEF MenuSwap, TypeOK

LEMMA CardType ==
  ASSUME TypeOK, PullCard \/ CardRemoved \/ CardInserted \/ Hang
  PROVE  TypeOK'
<1>1. CASE PullCard
  BY <1>1, NoIoType DEF TypeOK, PullCard
<1>2. CASE CardRemoved \/ CardInserted
  BY <1>2, NoIoType DEF TypeOK, CardRemoved, CardInserted, Restart, NoDrive
<1>3. CASE Hang
  BY <1>3, NoIoType, NoRxType, NoCmdType DEF TypeOK, Hang
<1>4. QED
  BY <1>1, <1>2, <1>3

\* What a handler finds: the globals, its file and its image.
LEMMA OpenedType ==
  ASSUME TypeOK, NEW d \in Drive
  PROVE  /\ Opened(d) \in GlobalsType
         /\ FileOf(d) \in Slot \cup {NoFile}
         /\ ImageIn(d) \in Image \cup {NoImage}
<1>1. content \in ContentType /\ drives[d] \in Slot \cup {NoFile}
  BY DEF TypeOK, ContentType
<1>2. Opened(d) \in GlobalsType
  BY <1>1, GlobalsOK, SetDriveStatusType DEF TypeOK, Opened
<1>3. FileOf(d) \in Slot \cup {NoFile}
  BY <1>2 DEF FileOf, GlobalsType
<1>4. QED
  BY <1>1, <1>2, <1>3 DEF ImageIn, ContentType

LEMMA TakeType ==
  ASSUME TypeOK, Take
  PROVE  /\ sd' \in BOOLEAN
         /\ ready' \in BOOLEAN
         /\ files' \in [Drive -> Slot]
         /\ content' \in [Slot -> Image \cup {NoImage}]
         /\ drives' \in [Drive -> Slot \cup {NoFile}]
         /\ info' \in [Drive -> Info]
         /\ geom' \in Geometry
         /\ table' \in Image \cup {NoImage}
         /\ opendrive' \in Drive \cup {NoDrive}
         /\ cmd' \in Cmd
<1>1. cmd.drive \in Drive
  BY DEF TypeOK, Cmd
<1>2. Opened(cmd.drive) \in GlobalsType /\ Become(Opened(cmd.drive))
  BY <1>1, OpenedType DEF Take
<1>3. QED
  BY <1>1, <1>2, BecomeType, NoCmdType DEF Take, TypeOK

LEMMA AccessType ==
  ASSUME TypeOK, NEW d \in Drive, NEW s \in Nat,
         NEW op \in Operation, NEW answer \in Answer, NEW bytes \in Nat,
         NEW i \in Image \cup {NoImage}, NEW via \in Image \cup {NoImage},
         NEW loc \in Int, NEW len \in Nat
  PROVE  Access(d, s, op, answer, bytes, i, via, loc, len) \in Io
<1>1. Opened(d).geom.wp \in BOOLEAN
  BY OpenedType DEF GlobalsType, Geometry
<1>2. cmd.asked \in Image \cup {NoImage}
  BY DEF TypeOK, Cmd
<1>3. (FileOf(d) = NoFile) \in BOOLEAN /\ Same(d) \in BOOLEAN
  BY DEF Same
<1>4. QED
  BY <1>1, <1>2, <1>3 DEF Access, Io

LEMMA ReplyType ==
  ASSUME TypeOK, NEW d \in Drive, NEW s \in Nat,
         NEW op \in Operation, NEW answer \in Answer, NEW bytes \in Nat
  PROVE  Reply(d, s, op, answer, bytes) \in Io
<1>1. NoImage \in Image \cup {NoImage} /\ 0 \in Int /\ 0 \in Nat
  OBVIOUS
<1>2. Access(d, s, op, answer, bytes, NoImage, NoImage, 0, 0) \in Io
  BY <1>1, AccessType, Zenon
<1>3. QED
  BY <1>2, Zenon DEF Reply

LEMMA AcceptType ==
  ASSUME TypeOK, NEW d \in Drive, Accept(d)
  PROVE  TypeOK'
<1>1. content[drives[d]] \in Image \cup {NoImage}
  BY DEF Accept, TypeOK
<1>2. cmd' \in Cmd
  BY <1>1 DEF Accept, Cmd
<1>3. QED
  BY <1>2, NoIoType DEF Accept, TypeOK

LEMMA RefuseType ==
  ASSUME TypeOK, NEW d \in Drive, Refuse(d)
  PROVE  TypeOK'
<1>1. io' \in Io
  BY NoIoType DEF Refuse
<1>2. QED
  BY <1>1 DEF Refuse, TypeOK

LEMMA HandleSpeedType ==
  ASSUME TypeOK, NEW d \in Drive, NEW s \in Sector, HandleSpeed(d, s)
  PROVE  TypeOK'
<1>1. Take
  BY DEF HandleSpeed
<1>2. s \in Nat
  BY DriveAssumption DEF Word
<1>3. io' \in Io
  <2>1. io' = Reply(d, s, "speed", "complete", 1)
    BY DEF HandleSpeed
  <2>2. "speed" \in Operation /\ "complete" \in Answer
    BY DEF Operation, Answer
  <2>3. QED
    BY <1>1, <1>2, <2>1, <2>2, ReplyType
<1>4. speed' \in {"slow", "fast"}
  BY DEF HandleSpeed
<1>5. UNCHANGED <<header, rx>> /\ pc' = "idle"
  BY DEF HandleSpeed
<1>6. QED
  BY <1>1, <1>3, <1>4, <1>5, TakeType DEF TypeOK

LEMMA HandleGetStatusType ==
  ASSUME TypeOK, NEW d \in Drive, HandleGetStatus(d)
  PROVE  TypeOK'
<1>1. Take /\ UNCHANGED <<header, speed, rx>> /\ pc' = "idle"
  BY DEF HandleGetStatus
<1>2. io' \in Io
  BY <1>1, ReplyType DEF HandleGetStatus, Operation, Answer
<1>3. QED
  BY <1>1, <1>2, TakeType DEF TypeOK

LEMMA HandleReadPercomBlockType ==
  ASSUME TypeOK, NEW d \in Drive, HandleReadPercomBlock(d)
  PROVE  TypeOK'
<1>1. Take /\ UNCHANGED <<header, speed, rx>> /\ pc' = "idle"
  BY DEF HandleReadPercomBlock
<1>2. io' \in Io
  BY <1>1, ReplyType DEF HandleReadPercomBlock, Operation, Answer
<1>3. QED
  BY <1>1, <1>2, TakeType DEF TypeOK

LEMMA OverwrittenType ==
  ASSUME header \in [Image -> Header], NEW i \in Image, NEW h \in Header,
         NEW loc, NEW len, Overwritten(i, loc, len, h)
  PROVE  header' \in [Image -> Header]
BY DEF Overwritten

LEMMA HandleFormatType ==
  ASSUME TypeOK, NEW d \in Drive, HandleFormat(d)
  PROVE  TypeOK'
<1> DEFINE g == Opened(d).geom
           i == ImageIn(d)
           written == i # NoImage /\ ~FileReadonly(FileOf(d))
           loc == IF g.offset < 0 THEN 0 ELSE g.offset
           len == IF FormatEnd(g) < loc THEN 0 ELSE FormatEnd(g) - loc
           First(b) == [magic |-> b, pars |-> 0, secSize |-> 0, flags |-> 0]
           Bytes == IF cmd.intact THEN {49 + d} ELSE ScratchByte
           answer == IF g.secSize < 2 THEN "none" ELSE "complete"
           image == IF written THEN i ELSE NoImage
<1>1. Take /\ UNCHANGED <<speed, rx>>
  BY DEF HandleFormat
<1>2. g \in Geometry /\ i \in Image \cup {NoImage}
  BY OpenedType DEF GlobalsType
<1>3. \A b \in Bytes : First(b) \in Header
  BY DriveAssumption DEF Header, Drive
<1>4. loc \in Int /\ len \in Nat /\ g.secSize \in Nat
  BY <1>2 DEF FormatEnd, Geometry
<1>5. "format" \in Operation /\ answer \in Answer /\ "error" \in Answer
  BY DEF Operation, Answer
<1>6. image \in Image \cup {NoImage} /\ NoImage \in Image \cup {NoImage} /\ 0 \in Nat
  BY <1>2
<1>7. CASE /\ io' = Reply(d, 0, "format", "error", 0)
           /\ UNCHANGED header
           /\ pc' = "idle"
  <2>1. io' \in Io
    BY <1>1, <1>5, <1>6, <1>7, ReplyType
  <2>2. QED
    BY <1>1, <1>7, <2>1, TakeType DEF TypeOK
<1>8. CASE /\ io' = Access(d, 0, "format", answer, g.secSize, image, NoImage, loc, len)
           /\ pc' = IF g.secSize < 2 THEN "lost" ELSE "idle"
           /\ IF written THEN \E b \in Bytes : Overwritten(i, loc, len, First(b))
                         ELSE UNCHANGED header
  <2> HIDE DEF loc, len, First, Bytes, answer, image
  <2>1. io' \in Io
    BY <1>1, <1>4, <1>5, <1>6, <1>8, AccessType
  <2>2. header' \in [Image -> Header]
    BY <1>2, <1>3, <1>8, OverwrittenType DEF TypeOK
  <2>3. pc' \in {"idle", "lost"}
    BY <1>8
  <2>4. QED
    BY <1>1, <2>1, <2>2, <2>3, TakeType DEF TypeOK
<1>9. QED
  BY <1>7, <1>8 DEF HandleFormat

\* Offsets and lengths are numbers.
LEMMA PlaceType ==
  ASSUME NEW g \in Geometry, NEW s \in Sector
  PROVE  Location(g, s) \in Int /\ Length(g, s) \in Nat
<1>1. s \in Nat
  BY DriveAssumption DEF Word
<1>2. QED
  BY <1>1 DEF Location, Length, Geometry

LEMMA SeekType ==
  ASSUME NEW i \in Image, NEW loc \in Int
  PROVE  Seek(i, loc) \in Nat
<1>1. Size[i] \in Nat
  BY DriveAssumption
<1>2. QED
  BY <1>1 DEF Seek

LEMMA HandleReadType ==
  ASSUME TypeOK, NEW d \in Drive, NEW s \in Sector, HandleRead(d, s)
  PROVE  TypeOK'
<1> DEFINE g == Opened(d).geom
           i == ImageIn(d)
<1>1. Take /\ UNCHANGED <<header, speed, rx>> /\ pc' = "idle"
  BY DEF HandleRead
<1>2. g \in Geometry /\ i \in Image \cup {NoImage}
  BY OpenedType DEF GlobalsType
<1>3. s \in Nat /\ NoImage \in Image \cup {NoImage}
  BY DriveAssumption DEF Word
<1>4. /\ "read" \in Operation /\ "loader" \in Operation /\ "atx" \in Operation
      /\ "complete" \in Answer /\ "error" \in Answer
  BY DEF Operation, Answer
<1>5. io' \in Io
  <2>1. CASE ReadSector(d, s)
    <3> DEFINE loc == IF i = NoImage THEN 0 ELSE Seek(i, Location(g, s))
    <3>1. io' = Access(d, s, "read", "complete", Length(g, s), i, NoImage, loc, Length(g, s))
      BY <2>1 DEF ReadSector
    <3>2. loc \in Int /\ Length(g, s) \in Nat
      BY <1>2, PlaceType, SeekType
    <3> HIDE DEF g, i, loc
    <3>3. QED
      BY <1>1, <1>2, <1>3, <1>4, <3>1, <3>2, AccessType
  <2>2. CASE ReadLoader(d, s)
    <3> DEFINE loc == Seek(i, 125 * (s - 369))
    <3>1. CASE i # NoImage /\ io' = Access(d, s, "loader", "complete", 128, i, NoImage, loc, 125)
      <4>1. loc \in Int
        BY <1>2, <1>3, <3>1, SeekType
      <4> HIDE DEF i, loc
      <4>2. QED
        BY <1>1, <1>2, <1>3, <1>4, <3>1, <4>1, AccessType
    <3>2. CASE io' = Reply(d, s, "loader", "complete", 128)
      BY <1>1, <1>3, <1>4, <3>2, ReplyType
    <3>3. QED
      BY <2>2, <3>1, <3>2 DEF ReadLoader
  <2>3. CASE ReadAtx(d, s)
    <3> DEFINE via == Opened(d).table
    <3>1. PICK answer \in {"complete", "error"}, bytes \in {128, 256} :
            io' = Access(d, s, "atx", answer, bytes, i, via, 0, 0)
      BY <2>3 DEF ReadAtx
    <3>2. /\ via \in Image \cup {NoImage} /\ answer \in Answer
          /\ bytes \in Nat /\ 0 \in Int /\ 0 \in Nat
      BY <1>4, OpenedType DEF GlobalsType
    <3> HIDE DEF i, via
    <3>3. QED
      BY <1>1, <1>2, <1>3, <1>4, <3>1, <3>2, AccessType
  <2>4. QED
    BY <2>1, <2>2, <2>3 DEF HandleRead
<1>6. QED
  BY <1>1, <1>5, TakeType DEF TypeOK

LEMMA HandleWriteType ==
  ASSUME TypeOK, NEW d \in Drive, NEW s \in Sector, HandleWrite(d, s)
  PROVE  TypeOK'
<1>1. Take
  BY DEF HandleWrite, WriteRefused, WriteStart
<1>2. s \in Nat
  BY DriveAssumption DEF Word
<1>3. CASE WriteRefused(d, s)
  <2>1. /\ io' = Reply(d, s, "write", "error", 0)
        /\ UNCHANGED <<header, speed, rx>>
        /\ pc' = "idle"
    BY <1>3 DEF WriteRefused
  <2>2. "write" \in Operation /\ "error" \in Answer /\ 0 \in Nat
    BY DEF Operation, Answer
  <2>3. io' \in Io
    BY <1>1, <1>2, <2>1, <2>2, ReplyType
  <2>4. QED
    BY <1>1, <2>1, <2>3, TakeType DEF TypeOK
<1>4. ASSUME NEW v \in BOOLEAN, WriteStart(d, s, v) PROVE TypeOK'
  <2> DEFINE g == Opened(d).geom
  <2>1. /\ g.wp \in BOOLEAN
        /\ Location(g, s) \in Int /\ Length(g, s) \in Nat
    BY OpenedType, PlaceType DEF GlobalsType, Geometry
  <2>2. FileOf(d) \in Slot \cup {NoFile}
    BY OpenedType
  <2> DEFINE fits == cmd.asked \in Image /\ SameLayout(g, Home(cmd.asked))
  <2>3. cmd.asked \in Image \cup {NoImage} /\ Same(d) \in BOOLEAN /\ fits \in BOOLEAN
    BY DEF TypeOK, Cmd, Same, SameLayout
  <2>4. rx' = [drive |-> d, file |-> FileOf(d), sector |-> s,
               loc |-> Location(g, s), len |-> Length(g, s), wp |-> g.wp,
               verify |-> v, got |-> 0, intact |-> TRUE,
               asked |-> cmd.asked, same |-> Same(d), fits |-> fits]
    BY <1>4 DEF WriteStart
  <2>5. 0 \in 0 .. FrameUnits - 1
    BY DriveAssumption
  <2> HIDE DEF g, fits
  <2>6. rx' \in Rx
    BY <1>2, <1>4, <2>1, <2>2, <2>3, <2>4, <2>5 DEF Rx
  <2>7. io' \in Io /\ pc' = "data" /\ UNCHANGED <<header, speed>>
    BY <1>4, NoIoType DEF WriteStart
  <2>8. QED
    BY <1>1, <2>6, <2>7, TakeType DEF TypeOK
<1>5. QED
  BY <1>3, <1>4 DEF HandleWrite

LEMMA WriteReplyType ==
  ASSUME TypeOK, NEW answer \in Answer, NEW i \in Image \cup {NoImage},
         NEW loc \in Int
  PROVE  WriteReply(answer, i, loc) \in Io
<1>1. /\ rx.drive \in Drive /\ rx.sector \in Nat /\ rx.len \in Nat
      /\ rx.asked \in Image \cup {NoImage} /\ rx.wp \in BOOLEAN
      /\ rx.fits \in BOOLEAN /\ rx.intact \in BOOLEAN /\ rx.same \in BOOLEAN
  BY DEF TypeOK, Rx
<1>2. "write" \in Operation
  BY DEF Operation
<1>3. /\ (rx.file = NoFile) \in BOOLEAN
      /\ (rx.same /\ (rx.file # NoFile => content[rx.file] = rx.asked)) \in BOOLEAN
  OBVIOUS
<1>4. QED
  BY <1>1, <1>2, <1>3 DEF WriteReply, Io

LEMMA ReceiveType ==
  ASSUME TypeOK, NEW good \in BOOLEAN, Receive(good)
  PROVE  TypeOK'
<1>1. CASE ReceiveData(good)
  <2>1. rx.got + 1 \in 0 .. FrameUnits - 1
    BY <1>1, DriveAssumption DEF ReceiveData, TypeOK, Rx
  <2>2. rx' \in Rx
    BY <1>1, <2>1 DEF ReceiveData, TypeOK, Rx
  <2>3. io' \in Io
    BY <1>1, NoIoType DEF ReceiveData
  <2>4. QED
    BY <1>1, <2>2, <2>3 DEF ReceiveData, TypeOK
<1>2. CASE WriteNacked(good)
  <2>1. io' \in Io
    BY <1>2, WriteReplyType DEF WriteNacked, Answer
  <2>2. QED
    BY <1>2, <2>1, NoRxType DEF WriteNacked, TypeOK
<1>3. CASE FrameTaken(good)
  BY <1>3, NoIoType DEF FrameTaken, TypeOK
<1>4. QED
  BY <1>1, <1>2, <1>3 DEF Receive

LEMMA WriteDoneType ==
  ASSUME TypeOK, WriteDone
  PROVE  TypeOK'
<1> DEFINE written == rx.file # NoFile /\ ~FileReadonly(rx.file)
           i == IF written THEN content[rx.file] ELSE NoImage
           loc == IF written THEN Seek(i, WriteLocation) ELSE 0
<1>1. rx.file \in Slot \cup {NoFile} /\ WriteLocation \in Int
  BY DEF TypeOK, Rx, WriteLocation
<1>2. written => i \in Image
  BY <1>1 DEF FileReadonly, TypeOK
<1>3. i \in Image \cup {NoImage} /\ loc \in Int
  BY <1>1, <1>2, SeekType
<1>4. \E answer \in Answer : io' = WriteReply(answer, i, loc)
  BY DEF WriteDone, Answer
<1>5. IF written THEN \E h \in Scribble : Overwritten(i, loc, rx.len, h)
                 ELSE UNCHANGED header
  BY DEF WriteDone
<1> HIDE DEF written, i, loc
<1>6. io' \in Io
  BY <1>3, <1>4, WriteReplyType
<1>7. header' \in [Image -> Header]
  BY <1>2, <1>5, ScribbleAssumption, OverwrittenType DEF TypeOK
<1>8. QED
  BY <1>6, <1>7, NoRxType DEF WriteDone, TypeOK

LEMMA HandleType ==
  ASSUME TypeOK, Handle
  PROVE  TypeOK'
<1>1. cmd.drive \in Drive
  BY DEF TypeOK, Cmd
<1>2. QED
  BY <1>1, HandleGetStatusType, HandleReadPercomBlockType, HandleFormatType,
     HandleSpeedType, HandleReadType, HandleWriteType DEF Handle

LEMMA NextTypeOK == TypeOK /\ [Next]_vars => TypeOK'
<1> SUFFICES ASSUME TypeOK, [Next]_vars PROVE TypeOK'
  OBVIOUS
<1>1. CASE Actions
  BY <1>1, MenuSelectType, MenuRemoveType, MenuSwapType, CardType DEF Actions
<1>2. CASE ProcessCommand
  BY <1>2, AcceptType, RefuseType DEF ProcessCommand
<1>3. CASE Handle
  BY <1>3, HandleType
<1>4. CASE Transfer
  BY <1>4, ReceiveType, WriteDoneType DEF Transfer
<1>5. CASE UNCHANGED vars
  BY <1>5 DEF vars, TypeOK
<1>6. QED
  BY <1>1, <1>2, <1>3, <1>4, <1>5 DEF Next

\* Every variable keeps its type, whatever the images, sectors and headers.
THEOREM TypeCorrect == Spec => []TypeOK
<1>1. QED
  BY InitTypeOK, NextTypeOK, PTL DEF Spec

-----------------------------------------------------------------------------
(* What a drive holds.                                                      *)

\* Nothing that is written over the start of an image makes it look like an
\* image of another kind.
HeadersKnown ==
  \A i \in Image : \/ header[i] = CardHeader[i]
                   \/ header[i].magic \notin {AtrMagic, XexMagic}

\* Image i, as the card was prepared, is one a drive accepts; n describes it.
Holds(i, n) ==
  /\ i # NoImage
  /\ ~Unreadable(i)
  /\ Accepted(i, CardHeader[i], NoGeometry)
  /\ n.density = DensityOf(Home(i))

DrivesHold == \A d \in Drive : drives[d] # NoFile => Holds(content[drives[d]], info[d])

LEMMA NoGeometryType == NoGeometry \in Geometry
BY DEF NoGeometry, Geometry

\* An image's layout depends neither on the globals before it nor, if it is
\* recognised at all, on what was written over its header.
LEMMA LoadedAlike ==
  ASSUME NEW i \in Image, NEW h \in Header, NEW g \in Geometry,
         h = CardHeader[i] \/ h.magic \notin {AtrMagic, XexMagic},
         Recognised(i, h)
  PROVE  /\ SameLayout(Loaded(i, h, g), Home(i))
         /\ Recognised(i, CardHeader[i])
<1>1. Ext[i] \in {"XFD", "ATX", "other"}
  BY DriveAssumption
<1>2. CASE Ext[i] = "XFD"
  BY <1>2 DEF Loaded, Home, SameLayout, Recognised
<1>3. CASE Ext[i] = "ATX"
  BY <1>3 DEF Loaded, Home, SameLayout, Recognised
<1>4. CASE Ext[i] = "other"
  <2>1. h = CardHeader[i] /\ h.magic \in {AtrMagic, XexMagic}
    BY <1>4 DEF Recognised
  <2>2. CASE h.magic = XexMagic
    BY <1>4, <2>1, <2>2 DEF Loaded, Home, SameLayout, Recognised
  <2>3. CASE h.magic = AtrMagic /\ h.magic # XexMagic
    BY <1>4, <2>1, <2>3 DEF Loaded, Home, SameLayout, Recognised
  <2>4. QED
    BY <2>1, <2>2, <2>3
<1>5. QED
  BY <1>1, <1>2, <1>3, <1>4

LEMMA AcceptedAlike ==
  ASSUME NEW i \in Image, NEW h \in Header, NEW g \in Geometry,
         h = CardHeader[i] \/ h.magic \notin {AtrMagic, XexMagic},
         Recognised(i, h)
  PROVE  /\ Accepted(i, h, g) <=> Accepted(i, CardHeader[i], NoGeometry)
         /\ DensityOf(Loaded(i, h, g)) = DensityOf(Home(i))
<1>1. SameLayout(Loaded(i, h, g), Home(i)) /\ Recognised(i, CardHeader[i])
  BY LoadedAlike
<1>2. /\ Loaded(i, h, g).secSize = Loaded(i, CardHeader[i], NoGeometry).secSize
      /\ Loaded(i, h, g).pars = Loaded(i, CardHeader[i], NoGeometry).pars
  BY <1>1 DEF SameLayout, Home
<1>3. QED
  BY <1>1, <1>2 DEF Accepted, DensityOf, Home

\* set_drive_status touches one drive, and fills it only with the file it is
\* given, when that file's image is one a drive accepts; then the globals
\* describe that image.
LEMMA SetDriveStatusHolds ==
  ASSUME NEW st \in GlobalsType, NEW c \in ContentType, NEW d \in Drive,
         NEW f \in Slot \cup {NoFile}, header \in [Image -> Header], HeadersKnown,
         NEW new, new = SetDriveStatus(st, c, d, f)
  PROVE  /\ \A e \in Drive : e # d => /\ new.drives[e] = st.drives[e]
                                      /\ new.info[e] = st.info[e]
         /\ new.drives[d] \in {NoFile, f}
         /\ new.drives[d] # NoFile =>
              /\ Holds(c[f], new.info[d])
              /\ SameLayout(new.geom, Home(c[f]))
<1>1. CASE f = NoFile \/ Unreadable(c[f])
  <2>1. new.drives = [st.drives EXCEPT ![d] = NoFile]
    BY <1>1 DEF SetDriveStatus, GlobalsType
  <2>2. new.info = [st.info EXCEPT ![d] = NoInfo]
    BY <1>1 DEF SetDriveStatus, GlobalsType
  <2>3. QED
    BY <2>1, <2>2 DEF GlobalsType
<1>2. CASE f # NoFile /\ ~Unreadable(c[f])
  <2> DEFINE i == c[f]
             h == header[i]
             g == Loaded(i, h, st.geom)
             ok == Accepted(i, h, st.geom)
  <2>1. i \in Image /\ h \in Header /\ st.geom \in Geometry
    BY <1>2 DEF ContentType, Unreadable, GlobalsType
  <2>2. h = CardHeader[i] \/ h.magic \notin {AtrMagic, XexMagic}
    BY <2>1 DEF HeadersKnown
  <2>3. /\ new.drives = [st.drives EXCEPT ![d] = IF ok THEN f ELSE NoFile]
        /\ new.info = [st.info EXCEPT ![d] = IF ok THEN InfoOf(g) ELSE NoInfo]
        /\ new.geom = g
    BY <1>2 DEF SetDriveStatus
  <2> HIDE DEF h
  <2>4. ASSUME ok
        PROVE  Holds(i, InfoOf(g)) /\ SameLayout(g, Home(i))
    <3>1. Recognised(i, h)
      BY <2>4 DEF Accepted
    <3>2. SameLayout(g, Home(i))
      BY <2>1, <2>2, <3>1, LoadedAlike
    <3>3. /\ Accepted(i, CardHeader[i], NoGeometry)
          /\ DensityOf(g) = DensityOf(Home(i))
      BY <2>1, <2>2, <2>4, <3>1, AcceptedAlike
    <3>4. i # NoImage
      BY <2>1, DriveAssumption
    <3>5. QED
      BY <1>2, <3>2, <3>3, <3>4 DEF Holds, InfoOf
  <2> HIDE DEF g, ok, i
  <2>5. QED
    BY <1>2, <2>3, <2>4 DEF GlobalsType, i
<1>3. QED
  BY <1>1, <1>2

\* An image that a drive holds is accepted again as long as it is recognised.
LEMMA SetDriveStatusAgain ==
  ASSUME NEW st \in GlobalsType, NEW c \in ContentType, NEW d \in Drive,
         NEW f \in Slot, header \in [Image -> Header], HeadersKnown,
         NEW n, Holds(c[f], n), Recognised(c[f], header[c[f]])
  PROVE  SetDriveStatus(st, c, d, f).drives[d] = f
<1> DEFINE i == c[f]
           h == header[i]
           ok == Accepted(i, h, st.geom)
<1>1. f # NoFile /\ ~Unreadable(i)
  BY DriveAssumption DEF Holds, Slot, Drive, NoFile
<1>2. i \in Image /\ h \in Header /\ st.geom \in Geometry
  BY DEF Holds, ContentType, GlobalsType
<1>3. h = CardHeader[i] \/ h.magic \notin {AtrMagic, XexMagic}
  BY <1>2 DEF HeadersKnown
<1>4. Accepted(i, CardHeader[i], NoGeometry)
  BY DEF Holds
<1>5. ok
  BY <1>2, <1>3, <1>4, AcceptedAlike
<1>6. SetDriveStatus(st, c, d, f).drives
        = [st.drives EXCEPT ![d] = IF ok THEN f ELSE NoFile]
  BY <1>1 DEF SetDriveStatus
<1>7. QED
  BY <1>5, <1>6 DEF GlobalsType

-----------------------------------------------------------------------------
(* The inductive invariant: rows own their drives' files, headers are as    *)
(* prepared or unrecognisable, and drives hold images they accept.          *)

Mounts == RowsOwnDrives /\ DrivesHold

Inv == TypeOK /\ HeadersKnown /\ Mounts

LEMMA InitInv == Init => Inv
<1> SUFFICES ASSUME Init PROVE Inv
  OBVIOUS
<1>1. TypeOK
  BY InitTypeOK
<1>2. HeadersKnown
  BY DEF Init, HeadersKnown
<1>3. RowsOwnDrives
  BY DEF Init, RowsOwnDrives
<1>4. DrivesHold
  BY DEF Init, DrivesHold
<1>5. QED
  BY <1>1, <1>2, <1>3, <1>4 DEF Inv, Mounts

LEMMA MenuSelectMounts ==
  ASSUME Inv, NEW d \in Drive, NEW i \in Image \cup {NoImage}, MenuSelect(d, i)
  PROVE  Mounts'
<1> DEFINE st == SetDriveStatus(Globals, content', d, files[d])
<1>1. /\ content' = [content EXCEPT ![files[d]] = i]
      /\ files' = files
      /\ drives' = st.drives
      /\ info' = st.info
  BY DEF MenuSelect, Become
<1>2. /\ files[d] \in Slot
      /\ content' \in ContentType
      /\ Globals \in GlobalsType
      /\ header \in [Image -> Header]
      /\ HeadersKnown
  BY <1>1, GlobalsOK DEF Inv, TypeOK, ContentType
<1> HIDE DEF st
<1>3. /\ \A e \in Drive : e # d => drives'[e] = drives[e] /\ info'[e] = info[e]
      /\ drives'[d] \in {NoFile, files[d]}
      /\ drives'[d] # NoFile => Holds(content'[files[d]], info'[d])
  <2>1. /\ \A e \in Drive : e # d => /\ st.drives[e] = Globals.drives[e]
                                     /\ st.info[e] = Globals.info[e]
        /\ st.drives[d] \in {NoFile, files[d]}
        /\ st.drives[d] # NoFile => Holds(content'[files[d]], st.info[d])
    BY <1>2, SetDriveStatusHolds DEF st
  <2>2. Globals.drives = drives /\ Globals.info = info
    BY DEF Globals
  <2>3. QED
    BY <1>1, <2>1, <2>2, Zenon
<1>4. RowsOwnDrives'
  BY <1>1, <1>3 DEF Inv, Mounts, RowsOwnDrives
<1>5. ASSUME NEW e \in Drive, drives'[e] # NoFile
      PROVE  Holds(content'[drives'[e]], info'[e])
  <2>1. CASE e = d
    BY <1>3, <1>5, <2>1
  <2>2. CASE e # d
    <3>1. drives[e] = files[e] /\ files[e] # files[d]
      BY <1>3, <1>5, <2>2 DEF Inv, Mounts, RowsOwnDrives
    <3>2. content'[drives[e]] = content[drives[e]]
      BY <1>1, <1>2, <3>1 DEF Inv, TypeOK
    <3>3. Holds(content[drives[e]], info[e])
      BY <1>3, <1>5, <2>2 DEF Inv, Mounts, DrivesHold
    <3>4. QED
      BY <1>3, <2>2, <3>2, <3>3
  <2>3. QED
    BY <2>1, <2>2
<1>6. DrivesHold'
  BY <1>5 DEF DrivesHold
<1>7. QED
  BY <1>4, <1>6 DEF Mounts

LEMMA MenuRemoveMounts ==
  ASSUME Inv, NEW d \in Drive, MenuRemove(d)
  PROVE  Mounts'
<1> DEFINE st == SetDriveStatus(Globals, content', d, NoFile)
<1>1. /\ content' = [content EXCEPT ![files[d]] = NoImage]
      /\ files' = files
      /\ drives' = st.drives
      /\ info' = st.info
  BY DEF MenuRemove, Become
<1>2. /\ files[d] \in Slot
      /\ content' \in ContentType
      /\ Globals \in GlobalsType
      /\ header \in [Image -> Header]
      /\ HeadersKnown
  BY <1>1, GlobalsOK DEF Inv, TypeOK, ContentType
<1> HIDE DEF st
<1>3. /\ \A e \in Drive : e # d => drives'[e] = drives[e] /\ info'[e] = info[e]
      /\ drives'[d] = NoFile
  BY <1>1, <1>2, SetDriveStatusHolds DEF st, Globals
<1>4. RowsOwnDrives'
  BY <1>1, <1>3 DEF Inv, Mounts, RowsOwnDrives
<1>5. ASSUME NEW e \in Drive, drives'[e] # NoFile
      PROVE  Holds(content'[drives'[e]], info'[e])
  <2>1. drives[e] = files[e] /\ files[e] # files[d] /\ e # d
    BY <1>3, <1>5 DEF Inv, Mounts, RowsOwnDrives
  <2>2. content'[drives[e]] = content[drives[e]]
    BY <1>1, <1>2, <2>1 DEF Inv, TypeOK
  <2>3. Holds(content[drives[e]], info[e])
    BY <1>3, <1>5, <2>1 DEF Inv, Mounts, DrivesHold
  <2>4. QED
    BY <1>3, <2>1, <2>2, <2>3
<1>6. DrivesHold'
  BY <1>5 DEF DrivesHold
<1>7. QED
  BY <1>4, <1>6 DEF Mounts

LEMMA MenuSwapMounts ==
  ASSUME Inv, NEW d \in Drive, MenuSwap(d)
  PROVE  Mounts'
<1> DEFINE st1 == SetDriveStatus(Globals, content, d, drives[0])
           st2 == SetDriveStatus(st1, content, 0, drives[d])
<1>1. /\ files' = [files EXCEPT ![d] = files[0], ![0] = files[d]]
      /\ content' = content
      /\ drives' = st2.drives
      /\ info' = st2.info
  BY DEF MenuSwap, Become
<1>2. /\ 0 \in Drive
      /\ content \in ContentType
      /\ Globals \in GlobalsType
      /\ drives[0] \in Slot \cup {NoFile}
      /\ drives[d] \in Slot \cup {NoFile}
      /\ header \in [Image -> Header]
      /\ HeadersKnown
  BY DriveAssumption, GlobalsOK DEF Inv, TypeOK, ContentType, Drive
<1>3. st1 \in GlobalsType
  BY <1>2, SetDriveStatusType
<1> HIDE DEF st1, st2
<1>4. /\ \A e \in Drive : e # d => st1.drives[e] = drives[e] /\ st1.info[e] = info[e]
      /\ st1.drives[d] \in {NoFile, drives[0]}
      /\ st1.drives[d] # NoFile => Holds(content[drives[0]], st1.info[d])
  BY <1>2, SetDriveStatusHolds DEF st1, Globals
<1>5. /\ \A e \in Drive : e # 0 => drives'[e] = st1.drives[e] /\ info'[e] = st1.info[e]
      /\ drives'[0] \in {NoFile, drives[d]}
      /\ drives'[0] # NoFile => Holds(content[drives[d]], info'[0])
  BY <1>1, <1>2, <1>3, SetDriveStatusHolds DEF st2
<1>6. RowsOwnDrives'
  <2>1. \A e, f \in Drive : files[e] = files[f] => e = f
    BY DEF Inv, Mounts, RowsOwnDrives
  <2>2. \A e, f \in Drive : files'[e] = files'[f] => e = f
    BY <1>1, <1>2, <2>1 DEF Inv, TypeOK
  <2>3. \A e \in Drive : drives[e] \in {NoFile, files[e]}
    BY DEF Inv, Mounts, RowsOwnDrives
  <2>4. \A e \in Drive : files'[e] = IF e = 0 THEN files[d]
                                     ELSE IF e = d THEN files[0] ELSE files[e]
    BY <1>1, <1>2 DEF Inv, TypeOK
  <2>5. \A e \in Drive : drives'[e] \in {NoFile, files'[e]}
    BY <1>2, <1>4, <1>5, <2>3, <2>4
  <2>6. QED
    BY <2>2, <2>5 DEF RowsOwnDrives
<1>7. ASSUME NEW e \in Drive, drives'[e] # NoFile
      PROVE  Holds(content[drives'[e]], info'[e])
  <2>1. CASE e = 0
    BY <1>5, <1>7, <2>1
  <2>2. CASE e = d /\ e # 0
    BY <1>4, <1>5, <1>7, <2>2
  <2>3. CASE e # d /\ e # 0
    BY <1>4, <1>5, <1>7, <2>3 DEF Inv, Mounts, DrivesHold
  <2>4. QED
    BY <2>1, <2>2, <2>3
<1>8. DrivesHold'
  BY <1>1, <1>7 DEF DrivesHold
<1>9. QED
  BY <1>6, <1>8 DEF Mounts

LEMMA CardMounts ==
  ASSUME Inv, PullCard \/ CardRemoved \/ CardInserted \/ Hang
  PROVE  Mounts'
<1>1. CASE CardRemoved \/ CardInserted
  <2>1. files' = files /\ drives' = [d \in Drive |-> NoFile]
    BY <1>1 DEF CardRemoved, CardInserted, Restart
  <2>2. RowsOwnDrives'
    BY <2>1 DEF Inv, Mounts, RowsOwnDrives
  <2>3. DrivesHold'
    BY <2>1 DEF DrivesHold
  <2>4. QED
    BY <2>2, <2>3 DEF Mounts
<1>2. CASE PullCard \/ Hang
  <2>1. UNCHANGED <<files, content, drives, info>>
    BY <1>2 DEF PullCard, Hang
  <2>2. QED
    BY <2>1 DEF Inv, Mounts, RowsOwnDrives, DrivesHold
<1>3. QED
  BY <1>1, <1>2

\* A command that makes another drive the open one mounts its disk again.
LEMMA TakeMounts ==
  ASSUME Inv, NEW d \in Drive, d = cmd.drive, Take
  PROVE  /\ Mounts'
         /\ drives'[d] # NoFile /\ d # opendrive =>
              SameLayout(geom', Home(content[drives'[d]]))
<1>1. files' = files /\ content' = content /\ Become(Opened(d))
  BY DEF Take
<1>2. CASE d = opendrive
  <2>1. drives' = drives /\ info' = info
    BY <1>1, <1>2 DEF Opened, Become, Globals
  <2>2. RowsOwnDrives'
    BY <1>1, <2>1 DEF Inv, Mounts, RowsOwnDrives
  <2>3. DrivesHold'
    BY <1>1, <2>1 DEF Inv, Mounts, DrivesHold
  <2>4. QED
    BY <1>2, <2>2, <2>3 DEF Mounts
<1>3. CASE d # opendrive
  <2> DEFINE st == SetDriveStatus(Globals, content, d, drives[d])
  <2>1. drives' = st.drives /\ info' = st.info /\ geom' = st.geom
    BY <1>1, <1>3 DEF Opened, Become
  <2>2. /\ Globals \in GlobalsType
        /\ content \in ContentType
        /\ drives[d] \in Slot \cup {NoFile}
        /\ header \in [Image -> Header]
        /\ HeadersKnown
    BY GlobalsOK DEF Inv, TypeOK, ContentType
  <2> HIDE DEF st
  <2>3. /\ \A e \in Drive : e # d => /\ st.drives[e] = Globals.drives[e]
                                     /\ st.info[e] = Globals.info[e]
        /\ st.drives[d] \in {NoFile, drives[d]}
        /\ st.drives[d] # NoFile => /\ Holds(content[drives[d]], st.info[d])
                                    /\ SameLayout(st.geom, Home(content[drives[d]]))
    BY <2>2, SetDriveStatusHolds DEF st
  <2>4. /\ \A e \in Drive : e # d => drives'[e] = drives[e] /\ info'[e] = info[e]
        /\ drives'[d] \in {NoFile, drives[d]}
        /\ drives'[d] # NoFile => /\ Holds(content[drives[d]], info'[d])
                                  /\ SameLayout(geom', Home(content[drives[d]]))
    BY <2>1, <2>3 DEF Globals
  <2>5. RowsOwnDrives'
    BY <1>1, <2>4 DEF Inv, Mounts, RowsOwnDrives
  <2>6. DrivesHold'
    BY <1>1, <2>4 DEF Inv, Mounts, DrivesHold
  <2>7. QED
    BY <2>4, <2>5, <2>6 DEF Mounts
<1>4. QED
  BY <1>2, <1>3

LEMMA OverwrittenKnown ==
  ASSUME header \in [Image -> Header], HeadersKnown, NEW i \in Image, NEW h \in Header,
         h.magic \notin {AtrMagic, XexMagic},
         NEW loc, NEW len, Overwritten(i, loc, len, h)
  PROVE  HeadersKnown'
BY DEF Overwritten, HeadersKnown

LEMMA HandleFormatHeaders ==
  ASSUME Inv, NEW d \in Drive, HandleFormat(d)
  PROVE  HeadersKnown'
<1> DEFINE g == Opened(d).geom
           i == ImageIn(d)
           written == i # NoImage /\ ~FileReadonly(FileOf(d))
           loc == IF g.offset < 0 THEN 0 ELSE g.offset
           len == IF FormatEnd(g) < loc THEN 0 ELSE FormatEnd(g) - loc
           First(b) == [magic |-> b, pars |-> 0, secSize |-> 0, flags |-> 0]
           Bytes == IF cmd.intact THEN {49 + d} ELSE ScratchByte
<1>1. \/ UNCHANGED header
      \/ written /\ \E b \in Bytes : Overwritten(i, loc, len, First(b))
  BY DEF HandleFormat
<1>2. i \in Image \cup {NoImage}
  BY OpenedType DEF Inv
<1>3. d \in 0 .. 3
  BY DriveAssumption DEF Drive
<1>4. Bytes \subseteq 0 .. 255
  BY <1>3, DriveAssumption
<1>5. \A b \in Bytes : First(b) \in Header /\ First(b).magic \notin {AtrMagic, XexMagic}
  <2> HIDE DEF Bytes
  <2>1. QED
    BY <1>4, SMT DEF Header, AtrMagic, XexMagic
<1>6. header \in [Image -> Header] /\ HeadersKnown
  BY DEF Inv, TypeOK
<1>7. CASE UNCHANGED header
  BY <1>6, <1>7 DEF HeadersKnown
<1>8. CASE written /\ \E b \in Bytes : Overwritten(i, loc, len, First(b))
  <2>1. i \in Image
    BY <1>2, <1>8
  <2> HIDE DEF i, loc, len, First, Bytes
  <2>2. QED
    BY <1>5, <1>6, <1>8, <2>1, OverwrittenKnown
<1>9. QED
  BY <1>1, <1>7, <1>8

LEMMA WriteDoneHeaders ==
  ASSUME Inv, WriteDone
  PROVE  HeadersKnown'
<1> DEFINE written == rx.file # NoFile /\ ~FileReadonly(rx.file)
           i == IF written THEN content[rx.file] ELSE NoImage
           loc == IF written THEN Seek(i, WriteLocation) ELSE 0
<1>1. \/ UNCHANGED header
      \/ written /\ \E h \in Scribble : Overwritten(i, loc, rx.len, h)
  BY DEF WriteDone
<1>2. header \in [Image -> Header] /\ HeadersKnown
  BY DEF Inv, TypeOK
<1>3. CASE UNCHANGED header
  BY <1>2, <1>3 DEF HeadersKnown
<1>4. CASE written /\ \E h \in Scribble : Overwritten(i, loc, rx.len, h)
  <2>1. i \in Image
    BY <1>4 DEF Inv, TypeOK, Rx, FileReadonly
  <2> HIDE DEF i, loc
  <2>2. QED
    BY <1>2, <1>4, <2>1, ScribbleAssumption, OverwrittenKnown
<1>5. QED
  BY <1>1, <1>3, <1>4

\* The steps of a command that is acknowledged, for drive d.
Handled(d) ==
  \/ HandleGetStatus(d)
  \/ HandleReadPercomBlock(d)
  \/ HandleFormat(d)
  \/ \E s \in Sector : \/ HandleSpeed(d, s)
                       \/ HandleRead(d, s)
                       \/ HandleWrite(d, s)

LEMMA HandleCases ==
  ASSUME TypeOK, Handle
  PROVE  \E d \in Drive : d = cmd.drive /\ Handled(d)
BY DEF Handle, Handled, TypeOK, Cmd

LEMMA HandledTakes ==
  ASSUME NEW d \in Drive, Handled(d)
  PROVE  Take
BY DEF Handled, HandleGetStatus, HandleReadPercomBlock, HandleFormat, HandleSpeed,
       HandleRead, HandleWrite, WriteRefused, WriteStart

\* Nothing but a format and a write received touches the headers.
LEMMA OthersKeepHeaders ==
  ASSUME Inv,
         \/ Actions
         \/ ProcessCommand
         \/ \E d \in Drive : Handled(d) /\ ~HandleFormat(d)
         \/ \E good \in BOOLEAN : Receive(good)
  PROVE  HeadersKnown'
<1>1. UNCHANGED header
  BY DEF Actions, MenuSelect, MenuRemove, MenuSwap, PullCard, CardRemoved, CardInserted, Hang,
         ProcessCommand, Accept, Refuse, Handled, HandleGetStatus, HandleReadPercomBlock,
         HandleSpeed, HandleRead, HandleWrite, WriteRefused, WriteStart,
         Receive, ReceiveData, WriteNacked, FrameTaken
<1>2. QED
  BY <1>1 DEF Inv, HeadersKnown

LEMMA NextInv == Inv /\ [Next]_vars => Inv'
<1> SUFFICES ASSUME Inv, [Next]_vars PROVE Inv'
  OBVIOUS
<1>1. TypeOK'
  BY NextTypeOK DEF Inv
<1>2. CASE Actions
  <2>1. Mounts'
    BY <1>2, MenuSelectMounts, MenuRemoveMounts, MenuSwapMounts, CardMounts DEF Actions
  <2>2. HeadersKnown'
    BY <1>2, OthersKeepHeaders
  <2>3. QED
    BY <1>1, <2>1, <2>2 DEF Inv
<1>3. CASE Handle
  <2>1. PICK d \in Drive : d = cmd.drive /\ Handled(d)
    BY <1>3, HandleCases DEF Inv
  <2>2. Mounts'
    BY <2>1, HandledTakes, TakeMounts
  <2>3. HeadersKnown'
    BY <2>1, HandleFormatHeaders, OthersKeepHeaders
  <2>4. QED
    BY <1>1, <2>2, <2>3 DEF Inv
<1>4. CASE ProcessCommand \/ Transfer \/ UNCHANGED vars
  <2>1. UNCHANGED <<files, content, drives, info>>
    BY <1>4 DEF ProcessCommand, Accept, Refuse, Transfer, Receive, ReceiveData, WriteNacked,
         FrameTaken, WriteDone, vars
  <2>2. Mounts'
    BY <2>1 DEF Inv, Mounts, RowsOwnDrives, DrivesHold
  <2>3. HeadersKnown'
    BY <1>4, WriteDoneHeaders, OthersKeepHeaders DEF Transfer, vars, Inv, HeadersKnown
  <2>4. QED
    BY <1>1, <2>2, <2>3 DEF Inv
<1>5. QED
  BY <1>2, <1>3, <1>4 DEF Next

LEMMA Invariant == Spec => []Inv
<1>1. QED
  BY InitInv, NextInv, PTL DEF Spec

\* No two rows share a SimpleFile, and a drive holds its own row's file.
THEOREM RowsStayTheirDrives == Spec => []RowsOwnDrives
<1>1. Inv => RowsOwnDrives
  BY DEF Inv, Mounts
<1>2. QED
  BY <1>1, Invariant, PTL

\* describe_disk is true of the image in the drive, for any images.
THEOREM MenuStaysTruthful == Spec => []MenuTellsTruth
<1>1. Inv => MenuTellsTruth
  BY DEF Inv, Mounts, DrivesHold, Holds, MenuTellsTruth
<1>2. QED
  BY <1>1, Invariant, PTL

\* Taking the card out or putting it in empties the drives.
LEMMA CardFits ==
  ASSUME CardRemoved \/ CardInserted
  PROVE  FitsOpenDrive'
<1>1. \A d \in Drive : drives'[d] = NoFile
  BY DEF CardRemoved, CardInserted, Restart
<1>2. QED
  BY <1>1 DEF FitsOpenDrive

\* A command for another drive loads that drive's layout.
LEMMA HandledFits ==
  ASSUME Inv, FitsOpenDrive, NEW d \in Drive, d = cmd.drive, Handled(d)
  PROVE  FitsOpenDrive'
<1>1. Take
  BY HandledTakes
<1>2. opendrive' = d /\ content' = content
  BY <1>1 DEF Take
<1>3. Mounts'
  BY <1>1, TakeMounts
<1>4. CASE d # opendrive
  <2>1. drives'[d] # NoFile => SameLayout(geom', Home(content[drives'[d]]))
    BY <1>1, <1>4, TakeMounts
  <2>2. drives'[d] # NoFile => content'[drives'[d]] # NoImage
    BY <1>3 DEF Mounts, DrivesHold, Holds
  <2>3. QED
    BY <1>2, <2>1, <2>2 DEF FitsOpenDrive
<1>5. CASE d = opendrive
  <2>1. UNCHANGED <<drives, geom, content, opendrive>>
    BY <1>1, <1>5 DEF Take, Opened, Become, Globals
  <2>2. QED
    BY <2>1 DEF FitsOpenDrive
<1>6. QED
  BY <1>4, <1>5

\* The other steps outside the menu leave drives and globals alone.
LEMMA OthersFit ==
  ASSUME FitsOpenDrive,
         PullCard \/ Hang \/ ProcessCommand \/ Transfer \/ UNCHANGED vars
  PROVE  FitsOpenDrive'
<1>1. UNCHANGED <<drives, geom, content, opendrive>>
  BY DEF PullCard, Hang, ProcessCommand, Accept, Refuse, Transfer, Receive, ReceiveData,
         WriteNacked, FrameTaken, WriteDone, vars
<1>2. QED
  BY <1>1 DEF FitsOpenDrive

\* No command, reception or change of card leaves the one set of geometry
\* globals describing another disk than the open drive's.
THEOREM StaleOnlyByMenu == Spec => OnlyMenuMakesStale
<1> DEFINE Quiet == UNCHANGED <<opendrive, pc, header>> /\ io' = NoIo
           Step == FitsOpenDrive /\ ~FitsOpenDrive' => Quiet
<1>1. ASSUME Inv, [Next]_vars PROVE [Step]_vars
  <2>1. CASE \E d \in Drive : \/ \E i \in Image \cup {NoImage} : MenuSelect(d, i)
                              \/ MenuRemove(d)
                              \/ MenuSwap(d)
    BY <2>1 DEF MenuSelect, MenuRemove, MenuSwap
  <2>2. CASE CardRemoved \/ CardInserted
    BY <2>2, CardFits
  <2>3. ASSUME Handle, FitsOpenDrive PROVE FitsOpenDrive'
    BY <1>1, <2>3, HandleCases, HandledFits DEF Inv
  <2>4. CASE PullCard \/ Hang \/ ProcessCommand \/ Transfer \/ UNCHANGED vars
    BY <2>4, OthersFit
  <2>5. QED
    BY <1>1, <2>1, <2>2, <2>3, <2>4 DEF Next, Actions
<1>2. QED
  BY <1>1, Invariant, PTL DEF Spec, OnlyMenuMakesStale

-----------------------------------------------------------------------------
(* What a write does.                                                       *)

\* Until a request is answered nothing is said of one.
LEMMA QuietIo ==
  ASSUME \/ Actions
         \/ ProcessCommand
         \/ \E good \in BOOLEAN : ReceiveData(good) \/ FrameTaken(good)
  PROVE  io' = NoIo
BY DEF Actions, MenuSelect, MenuRemove, MenuSwap, PullCard, CardRemoved, CardInserted, Hang,
       ProcessCommand, Accept, Refuse, ReceiveData, FrameTaken

LEMMA TransferCases ==
  ASSUME Transfer
  PROVE  \/ \E good \in BOOLEAN : ReceiveData(good) \/ FrameTaken(good)
         \/ \E good \in BOOLEAN : WriteNacked(good)
         \/ WriteDone
BY DEF Transfer, Receive

\* No step writes or formats an image the card marks read-only.
LEMMA NextReadOnly ==
  ASSUME Inv, ReadOnlyNeverWritten, [Next]_vars
  PROVE  ReadOnlyNeverWritten'
<1>1. CASE \/ Actions
           \/ ProcessCommand
           \/ \E good \in BOOLEAN : ReceiveData(good) \/ FrameTaken(good)
  BY <1>1, QuietIo DEF NoIo, ReadOnlyNeverWritten
<1>2. ASSUME NEW d \in Drive, HandleFormat(d) PROVE ReadOnlyNeverWritten'
  <2> DEFINE i == ImageIn(d)
             written == i # NoImage /\ ~FileReadonly(FileOf(d))
  <2>1. io'.image # NoImage => written /\ io'.image = i
    BY <1>2 DEF HandleFormat, Reply, Access
  <2>2. written => ~ReadOnly[i]
    BY DEF FileReadonly, ImageIn
  <2> HIDE DEF i, written
  <2>3. QED
    BY <2>1, <2>2 DEF ReadOnlyNeverWritten
<1>3. ASSUME NEW d \in Drive, Handled(d), ~HandleFormat(d) PROVE ReadOnlyNeverWritten'
  <2>1. \/ io'.op \notin {"write", "format"}
        \/ io'.image = NoImage
    BY <1>3 DEF Handled, HandleGetStatus, HandleReadPercomBlock, HandleSpeed, HandleRead,
         ReadSector, ReadLoader, ReadAtx, HandleWrite, WriteRefused, WriteStart, Reply, Access,
         NoIo
  <2>2. QED
    BY <2>1 DEF ReadOnlyNeverWritten
<1>4. CASE Handle
  BY <1>2, <1>3, <1>4, HandleCases DEF Inv
<1>5. CASE \E good \in BOOLEAN : WriteNacked(good)
  BY <1>5 DEF WriteNacked, WriteReply, ReadOnlyNeverWritten
<1>6. CASE WriteDone
  <2> DEFINE written == rx.file # NoFile /\ ~FileReadonly(rx.file)
  <2>1. io'.image = IF written THEN content[rx.file] ELSE NoImage
    BY <1>6 DEF WriteDone, WriteReply
  <2>2. QED
    BY <2>1 DEF FileReadonly, ReadOnlyNeverWritten
<1>7. CASE UNCHANGED vars
  BY <1>7 DEF vars, ReadOnlyNeverWritten
<1>8. QED
  BY <1>1, <1>4, <1>5, <1>6, <1>7, TransferCases DEF Next

\* The card's read-only attribute holds whatever is selected, swapped or ejected
\* while data frames come in.
THEOREM ReadOnlyStaysUnwritten == Spec => []ReadOnlyNeverWritten
<1>1. Init => ReadOnlyNeverWritten
  BY DEF Init, NoIo, ReadOnlyNeverWritten
<1>2. QED
  BY <1>1, NextReadOnly, Invariant, PTL DEF Spec

\* A handler is given the drive's file or none.
LEMMA FileKept ==
  ASSUME Inv, NEW d \in Drive
  PROVE  FileOf(d) \in {NoFile, drives[d]}
<1>1. CASE d = opendrive
  BY <1>1 DEF FileOf, Opened, Globals
<1>2. CASE d # opendrive
  <2>1. /\ Globals \in GlobalsType
        /\ content \in ContentType
        /\ drives[d] \in Slot \cup {NoFile}
        /\ header \in [Image -> Header]
        /\ HeadersKnown
    BY GlobalsOK DEF Inv, TypeOK, ContentType
  <2>2. SetDriveStatus(Globals, content, d, drives[d]).drives[d] \in {NoFile, drives[d]}
    BY <2>1, SetDriveStatusHolds
  <2>3. QED
    BY <1>2, <2>2 DEF FileOf, Opened
<1>3. QED
  BY <1>1, <1>2

\* Image i is no longer as the card was prepared.
Damaged(i) == i # NoImage /\ header[i] # CardHeader[i]

\* It is given none of a disk that has been in the drive since the command came
\* only if that disk's header was overwritten.
LEMMA NoFileDamaged ==
  ASSUME Inv, NEW d \in Drive, Same(d), FileOf(d) = NoFile
  PROVE  Damaged(cmd.asked)
<1> DEFINE i == content[drives[d]]
<1>1. drives[d] # NoFile /\ i = cmd.asked
  BY DEF Same
<1>2. Holds(i, info[d]) /\ drives[d] \in Slot
  BY <1>1 DEF Inv, Mounts, DrivesHold, TypeOK
<1>3. d # opendrive
  BY <1>1 DEF FileOf, Opened, Globals
<1>4. SetDriveStatus(Globals, content, d, drives[d]).drives[d] = NoFile
  BY <1>3 DEF FileOf, Opened
<1>5. /\ Globals \in GlobalsType
      /\ content \in ContentType
      /\ header \in [Image -> Header]
      /\ HeadersKnown
  BY GlobalsOK DEF Inv, TypeOK, ContentType
<1>6. ~Recognised(i, header[i])
  BY <1>1, <1>2, <1>4, <1>5, SetDriveStatusAgain
<1>7. Recognised(i, CardHeader[i])
  BY <1>2 DEF Holds, Accepted
<1>8. i # NoImage
  BY <1>2 DEF Holds
<1> HIDE DEF i
<1>9. QED
  BY <1>1, <1>6, <1>7, <1>8 DEF Damaged

\* What handleWrite found out before it waited, for the frame and for room to
\* acknowledge it: of its file, and where the sector is.
PendingFile ==
  rx.same => /\ rx.file # NoFile => rx.asked # NoImage /\ ~ReadOnly[rx.asked]
             /\ rx.file = NoFile => Damaged(rx.asked)
PendingPlace ==
  rx.fits => /\ rx.asked \in Image
             /\ rx.loc = Location(Home(rx.asked), rx.sector)
             /\ rx.len = Length(Home(rx.asked), rx.sector)
Pending == pc \in {"data", "store"} => PendingFile /\ PendingPlace

LEMMA WriteStartPending ==
  ASSUME Inv, NEW d \in Drive, NEW s \in Sector, NEW v \in BOOLEAN, WriteStart(d, s, v)
  PROVE  Pending'
<1> DEFINE g == Opened(d).geom
<1>1. /\ rx'.file = FileOf(d) /\ rx'.asked = cmd.asked /\ rx'.same = Same(d)
      /\ rx'.sector = s /\ rx'.loc = Location(g, s) /\ rx'.len = Length(g, s)
      /\ rx'.fits = (cmd.asked \in Image /\ SameLayout(g, Home(cmd.asked)))
      /\ header' = header
  BY DEF WriteStart
<1> HIDE DEF g
<1>2. ASSUME Same(d), FileOf(d) # NoFile
      PROVE  cmd.asked # NoImage /\ ~ReadOnly[cmd.asked]
  <2>1. FileOf(d) = drives[d] /\ ~FileReadonly(FileOf(d))
    BY <1>2, FileKept DEF WriteStart, MayWrite
  <2>2. QED
    BY <1>2, <2>1 DEF FileReadonly, Same
<1>3. ASSUME Same(d), FileOf(d) = NoFile
      PROVE  cmd.asked # NoImage /\ header[cmd.asked] # CardHeader[cmd.asked]
  BY <1>3, NoFileDamaged DEF Damaged
<1>4. PendingFile'
  BY <1>1, <1>2, <1>3 DEF PendingFile, Damaged
<1>5. ASSUME cmd.asked \in Image, SameLayout(g, Home(cmd.asked))
      PROVE  /\ Location(g, s) = Location(Home(cmd.asked), s)
             /\ Length(g, s) = Length(Home(cmd.asked), s)
  BY <1>5 DEF SameLayout, Location, Length
<1>6. PendingPlace'
  BY <1>1, <1>5 DEF PendingPlace
<1>7. QED
  BY <1>4, <1>6 DEF Pending

LEMMA NextPending ==
  ASSUME Inv, Pending, [Next]_vars
  PROVE  Pending'
<1> DEFINE Kept == /\ header' = header
                   /\ rx'.file = rx.file /\ rx'.asked = rx.asked /\ rx'.same = rx.same
                   /\ rx'.sector = rx.sector /\ rx'.loc = rx.loc /\ rx'.len = rx.len
                   /\ rx'.fits = rx.fits
<1>1. ASSUME Kept, pc' = pc \/ pc = "data" PROVE Pending'
  <2>1. pc' \in {"data", "store"} => pc \in {"data", "store"}
    BY <1>1
  <2>2. PendingFile => PendingFile'
    BY <1>1 DEF PendingFile, Damaged
  <2>3. PendingPlace => PendingPlace'
    BY <1>1 DEF PendingPlace
  <2>4. QED
    BY <2>1, <2>2, <2>3 DEF Pending
<1>2. CASE Actions /\ ~Hang
  <2>1. rx' = rx \/ rx' = [rx EXCEPT !.intact = FALSE]
    BY <1>2 DEF Actions, MenuSelect, MenuRemove, MenuSwap, PullCard, CardRemoved, CardInserted,
                FrameAfter
  <2>2. header' = header /\ pc' = pc
    BY <1>2 DEF Actions, MenuSelect, MenuRemove, MenuSwap, PullCard, CardRemoved, CardInserted
  <2>3. Kept
    BY <2>1, <2>2 DEF Inv, TypeOK, Rx
  <2>4. QED
    BY <1>1, <2>2, <2>3
<1>3. CASE \/ Hang \/ ProcessCommand \/ WriteDone
           \/ \E good \in BOOLEAN : WriteNacked(good)
  <2>1. pc' \notin {"data", "store"}
    BY <1>3 DEF Hang, ProcessCommand, Accept, Refuse, WriteDone, WriteNacked
  <2>2. QED
    BY <2>1 DEF Pending
<1>4. ASSUME NEW d \in Drive, Handled(d), \A s \in Sector : ~HandleWrite(d, s)
      PROVE  Pending'
  <2>1. pc' \notin {"data", "store"}
    BY <1>4 DEF Handled, HandleGetStatus, HandleReadPercomBlock, HandleFormat,
                HandleSpeed, HandleRead
  <2>2. QED
    BY <2>1 DEF Pending
<1>5. ASSUME NEW d \in Drive, NEW s \in Sector, HandleWrite(d, s) PROVE Pending'
  <2>1. CASE WriteRefused(d, s)
    BY <2>1 DEF WriteRefused, Pending
  <2>2. QED
    BY <1>5, <2>1, WriteStartPending DEF HandleWrite
<1>6. CASE Handle
  BY <1>4, <1>5, <1>6, HandleCases DEF Inv
<1>7. CASE \E good \in BOOLEAN : ReceiveData(good) \/ FrameTaken(good)
  <2>1. Kept /\ pc = "data"
    BY <1>7 DEF ReceiveData, FrameTaken, Inv, TypeOK, Rx
  <2>2. QED
    BY <1>1, <2>1
<1>8. CASE UNCHANGED vars
  <2>1. Kept /\ pc' = pc
    BY <1>8 DEF vars
  <2>2. QED
    BY <1>1, <2>1
<1>9. QED
  BY <1>2, <1>3, <1>6, <1>7, <1>8, TransferCases DEF Next

\* The write itself: to the file and to the place found before the waits.
LEMMA WriteDoneLanded ==
  ASSUME Inv, Pending, WriteDone
  PROVE  CompletedWriteLanded'
<1> DEFINE written == rx.file # NoFile /\ ~FileReadonly(rx.file)
           i == IF written THEN content[rx.file] ELSE NoImage
           loc == Location(Home(rx.asked), rx.sector)
           len == Length(Home(rx.asked), rx.sector)
<1>1. /\ io'.asked = rx.asked /\ io'.sector = rx.sector
      /\ io'.null = (rx.file = NoFile)
      /\ io'.same = (rx.same /\ (rx.file # NoFile => content[rx.file] = rx.asked))
      /\ io'.fits = rx.fits
      /\ io'.image = i /\ io'.len = rx.len
      /\ io'.loc = IF written THEN Seek(i, rx.loc) ELSE 0
      /\ pc = "store"
  BY DEF WriteDone, WriteReply, WriteLocation
<1> SUFFICES ASSUME rx.same, rx.fits, rx.file # NoFile, content[rx.file] = rx.asked,
                    Inside(rx.asked, loc, len)
             PROVE  io'.image = rx.asked /\ io'.loc = loc /\ io'.len = len
  <2> HIDE DEF written, i
  <2> QED BY <1>1 DEF CompletedWriteLanded
<1>2. /\ rx.asked \in Image /\ ~ReadOnly[rx.asked]
      /\ rx.loc = loc /\ rx.len = len
  BY <1>1 DEF Pending, PendingFile, PendingPlace
<1>3. written /\ i = rx.asked
  BY <1>2, DriveAssumption DEF FileReadonly
<1>4. rx.loc \in Int /\ rx.len \in Nat /\ Size[rx.asked] \in Nat
  BY <1>2, DriveAssumption DEF Inv, TypeOK, Rx
<1> HIDE DEF written, i, loc, len
<1>5. Seek(i, rx.loc) = rx.loc
  BY <1>2, <1>3, <1>4 DEF Seek, Inside
<1>6. QED
  BY <1>1, <1>2, <1>3, <1>5

LEMMA NextLanded ==
  ASSUME Inv, Pending, CompletedWriteLanded, [Next]_vars
  PROVE  CompletedWriteLanded'
<1>1. CASE \/ Actions
           \/ ProcessCommand
           \/ \E good \in BOOLEAN : ReceiveData(good) \/ FrameTaken(good)
  BY <1>1, QuietIo DEF NoIo, CompletedWriteLanded
<1>2. ASSUME NEW d \in Drive, Handled(d) PROVE CompletedWriteLanded'
  <2>1. io'.op # "write" \/ io'.answer # "complete"
    BY <1>2 DEF Handled, HandleGetStatus, HandleReadPercomBlock, HandleFormat, HandleSpeed,
         HandleRead, ReadSector, ReadLoader, ReadAtx, HandleWrite, WriteRefused, WriteStart,
         Reply, Access, NoIo
  <2>2. QED
    BY <2>1 DEF CompletedWriteLanded
<1>3. CASE \E good \in BOOLEAN : WriteNacked(good)
  BY <1>3 DEF WriteNacked, WriteReply, CompletedWriteLanded
<1>4. CASE UNCHANGED vars
  BY <1>4 DEF vars, CompletedWriteLanded
<1>5. QED
  BY <1>1, <1>2, <1>3, <1>4, WriteDoneLanded, HandleCases, TransferCases DEF Next, Inv

\* COMPLETE means that the frame is in the image the Atari addressed, all of it
\* and where that image has the sector, but for the exceptions the property
\* lists: file_write's result need not be looked at for that.
THEOREM CompletedWritesLand == Spec => []CompletedWriteLanded
<1>1. Init => Pending /\ CompletedWriteLanded
  BY DEF Init, NoIo, Pending, CompletedWriteLanded
<1>2. QED
  BY <1>1, NextPending, NextLanded, Invariant, PTL DEF Spec

-----------------------------------------------------------------------------
(* When a handler can be given a null file.                                 *)

LEMMA NextNullFile ==
  ASSUME Inv, Pending, NullFileOnlyIfOverwritten, [Next]_vars
  PROVE  NullFileOnlyIfOverwritten'
<1>1. CASE \/ Actions
           \/ ProcessCommand
           \/ \E good \in BOOLEAN : ReceiveData(good) \/ FrameTaken(good)
  BY <1>1, QuietIo DEF NoIo, NullFileOnlyIfOverwritten
<1>2. ASSUME NEW d \in Drive, Handled(d) PROVE NullFileOnlyIfOverwritten'
  <2>1. \/ io'.null = FALSE
        \/ io'.null = (FileOf(d) = NoFile) /\ io'.asked = cmd.asked /\ io'.same = Same(d)
    BY <1>2 DEF Handled, HandleGetStatus, HandleReadPercomBlock, HandleFormat, HandleSpeed,
         HandleRead, ReadSector, ReadLoader, ReadAtx, HandleWrite, WriteRefused, WriteStart,
         Reply, Access, NoIo
  <2>2. ASSUME FileOf(d) = NoFile
        PROVE  UNCHANGED header
    <3>1. ImageIn(d) = NoImage
      BY <2>2 DEF ImageIn
    <3>2. QED
      BY <1>2, <3>1 DEF Handled, HandleGetStatus, HandleReadPercomBlock, HandleFormat,
           HandleSpeed, HandleRead, HandleWrite, WriteRefused, WriteStart
  <2>3. QED
    BY <2>1, <2>2, NoFileDamaged DEF NullFileOnlyIfOverwritten, Damaged
<1>3. CASE WriteDone \/ \E good \in BOOLEAN : WriteNacked(good)
  <2>1. /\ io'.null = (rx.file = NoFile) /\ io'.asked = rx.asked
        /\ io'.same = (rx.same /\ (rx.file # NoFile => content[rx.file] = rx.asked))
        /\ pc \in {"data", "store"}
    <3>1. CASE WriteDone
      BY <3>1 DEF WriteDone, WriteReply
    <3>2. CASE \E good \in BOOLEAN : WriteNacked(good)
      BY <3>2 DEF WriteNacked, WriteReply
    <3>3. QED
      BY <1>3, <3>1, <3>2
  <2>2. rx.file = NoFile => UNCHANGED header
    BY <1>3 DEF WriteDone, WriteNacked
  <2>3. QED
    BY <2>1, <2>2 DEF Pending, PendingFile, Damaged, NullFileOnlyIfOverwritten
<1>4. CASE UNCHANGED vars
  BY <1>4 DEF vars, NullFileOnlyIfOverwritten
<1>5. QED
  BY <1>1, <1>2, <1>3, <1>4, HandleCases, TransferCases DEF Next, Inv

\* A handler loses its file only after the image in that drive was damaged, or
\* when the user changed the drive while the ACK of the command waited.
THEOREM NullFileMeansOverwritten == Spec => []NullFileOnlyIfOverwritten
<1>1. Init => Pending /\ NullFileOnlyIfOverwritten
  BY DEF Init, NoIo, Pending, NullFileOnlyIfOverwritten
<1>2. QED
  BY <1>1, NextPending, NextNullFile, Invariant, PTL DEF Spec
=============================================================================
