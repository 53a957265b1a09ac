--------------------------- MODULE DriveEmulator ---------------------------
(***************************************************************************)
(* The SIO disk drive emulator of the ZPU firmware                         *)
(* (firmware_eclairexl/atari_drive_emulator.c) together with the disk part *)
(* of the menu (a800/mainmenu.c), which runs inside the emulator: while    *)
(* the UART is waited for, uart.c calls actions(), and actions() may open  *)
(* the menu and change the disks in the middle of a transfer.              *)
(*                                                                         *)
(* The firmware is single threaded.  What happens between two waits for    *)
(* the UART is one step here; every step of the menu is an action of its   *)
(* own, enabled wherever the emulator waits for the UART and uses          *)
(* afterwards what the menu may change: for a command frame (pc = "idle"), *)
(* for room to acknowledge it ("ack"), for the data frame of a write       *)
(* ("data"), for room to acknowledge that ("store").                       *)
(*                                                                         *)
(* Definitions named ...Mutant are mistakes one could make in the code;    *)
(* PROJECT.json names the property that tells each from the real thing.    *)
(***************************************************************************)
EXTENDS Integers

CONSTANTS
  MaxDrives,    \* MAX_DRIVES
  Image,        \* the disk images on the SD card
  NoImage,      \* a SimpleFile whose path is empty
  Ext,          \* Image -> "XFD", "ATX" or "other": what compare_ext tells apart
  Size,         \* Image -> bytes in the file
  ReadOnly,     \* Image -> the read-only attribute of the directory entry
  CardHeader,   \* Image -> its first 16 bytes, as the card was prepared
  Scribble,     \* the headers that sector data may leave when it is written over one
  ScratchByte,  \* what loading an ATX may leave in byte 0 of atari_sector_buffer
  Sector,       \* the sector numbers the Atari asks for (aux1 + 256 * aux2)
  FrameUnits    \* receive steps that make up a data frame and its checksum

Drive   == 0 .. MaxDrives - 1
Slot    == Drive              \* the SimpleFile structs files[0..] points at
NoFile  == -1                 \* a null struct SimpleFile *
NoDrive == -1                 \* opendrive = -1

WordValues == 65536
Word     == 0 .. WordValues - 1      \* u16
Header   == [magic : Nat, pars : Nat, secSize : Nat, flags : {0, 1}]
Geometry == [offset : Int, loader : 0 .. 2, pars : Nat, secSize : Nat, wp : BOOLEAN]
Info     == [density : {"XD", "SD", "MD", "DD"}, ro : BOOLEAN]

AtrMagic == 662               \* 0x296
XexMagic == 65535

ASSUME DriveAssumption ==
  /\ MaxDrives \in 1 .. 4           \* device ids 0x31 to 0x34
  /\ NoImage \notin Image
  /\ Ext \in [Image -> {"XFD", "ATX", "other"}]
  /\ Size \in [Image -> Nat]
  /\ ReadOnly \in [Image -> BOOLEAN]
  /\ CardHeader \in [Image -> Header]
  /\ \A s \in Sector : s \in Word
  /\ ScratchByte \subseteq 0 .. 255
  /\ FrameUnits \in Nat \ {0}

\* What ends up in the first bytes of an image does not by chance look like
\* the header of another kind of image.
ASSUME ScribbleAssumption ==
  \A h \in Scribble : h \in Header /\ h.magic \notin {AtrMagic, XexMagic}

VARIABLES
  sd,          \* sd_present
  ready,       \* the card in the slot is the one initialised: it answers
  files,       \* files[]: which SimpleFile each menu row points at
  content,     \* Slot -> the image whose path the SimpleFile holds
  header,      \* Image -> its first 16 bytes as they are on the card now
  drives,      \* drives[]
  info,        \* drive_info[]
  geom,        \* atr_header, offset, custom_loader: ONE set for all drives
  table,       \* the image gTrackInfo[0] was loaded from
  opendrive,
  speed,       \* the UART rate last asked for
  pc,          \* "idle": in getCommand; "ack": processCommand waits to send its ACK;
               \* "data": in handleWrite's receive loop; "store": it waits to send
               \* its ACK; "hung": in mmcReadCached for ever; "lost": in
               \* handleFormat's runaway loop, all memory overwritten
  cmd,         \* processCommand's locals while it waits to send its ACK
  rx,          \* handleWrite's locals while it waits
  io           \* the request answered by the last step, if any (history)

vars == <<sd, ready, files, content, header, drives, info, geom, table, opendrive,
          speed, pc, cmd, rx, io>>

-----------------------------------------------------------------------------
(* set_drive_status: read the image's first 16 bytes into the globals.      *)

\* Fewer than 16 bytes come back: no path, or a file that short, whose bytes
\* are then in atr_header as they are, not swapped.
Unreadable(i) == i = NoImage \/ Size[i] < 16

Swapped(w) == 256 * (w % 256) + (w \div 256)
Torn(i, g) ==
  IF i = NoImage THEN g
  ELSE LET h == header[i] IN
       [g EXCEPT !.pars = IF Size[i] >= 4 THEN Swapped(h.pars)
                          ELSE IF Size[i] = 3 THEN 256 * (h.pars % 256) + (g.pars % 256)
                          ELSE g.pars,
                 !.secSize = IF Size[i] >= 6 THEN Swapped(h.secSize)
                             ELSE IF Size[i] = 5 THEN 256 * (h.secSize % 256) + (g.secSize % 256)
                             ELSE g.secSize]

\* The globals after set_drive_status has looked at image i whose header is
\* h; g is their value before.  An XFD or an executable gets a made-up header,
\* but btFlags is OR-ed onto byte 15 of the file in the XFD case too.  An
\* unknown type leaves its raw header in place and the old offset.
Loaded(i, h, g) ==
  LET paragraphs == (Size[i] \div 16) % WordValues
      protected  == h.flags = 1 \/ ReadOnly[i]
      Executable(n) == [offset |-> -256, loader |-> n, pars |-> paragraphs,
                        secSize |-> 128, wp |-> TRUE]
  IN CASE Ext[i] = "XFD" ->
            [offset |-> 0, loader |-> 0, pars |-> paragraphs,
             secSize |-> 128, wp |-> protected]
       [] Ext[i] = "ATX" -> Executable(2)
       [] Ext[i] = "other" /\ h.magic = XexMagic -> Executable(1)
       [] Ext[i] = "other" /\ h.magic = AtrMagic ->
            [offset |-> 16, loader |-> 0, pars |-> h.pars,
             secSize |-> h.secSize, wp |-> protected]
       [] OTHER ->
            [offset |-> g.offset, loader |-> 0, pars |-> h.pars,
             secSize |-> h.secSize, wp |-> h.flags = 1]

Recognised(i, h) == Ext[i] \in {"XFD", "ATX"} \/ h.magic \in {AtrMagic, XexMagic}

\* "Bad sector size" only above 256: anything smaller is taken ("XD").
AcceptedMutant(i, h, g) == Recognised(i, h)
Accepted(i, h, g) == Recognised(i, h) /\ Loaded(i, h, g).secSize <= 256

DensityOf(g) == IF g.secSize = 128
                THEN IF g.pars > 5760 THEN "MD" ELSE "SD"
                ELSE IF g.secSize = 256 THEN "DD" ELSE "XD"

NoGeometry == [offset |-> 0, loader |-> 0, pars |-> 0, secSize |-> 0, wp |-> FALSE]
NoInfo == [density |-> "XD", ro |-> FALSE]
InfoOf(g) == [density |-> DensityOf(g), ro |-> g.wp]

\* The emulator's globals, as set_drive_status gets and leaves them.
Globals == [drives |-> drives, info |-> info, geom |-> geom, table |-> table,
            scratched |-> FALSE]

\* An image it does not understand leaves the drive as it was.
SetDriveStatusMutant(st, c, d, f) ==
  IF f = NoFile \/ Unreadable(c[f]) \/ ~Accepted(c[f], header[c[f]], st.geom)
  THEN st
  ELSE [st EXCEPT !.drives[d] = f, !.info[d] = InfoOf(Loaded(c[f], header[c[f]], st.geom)),
                  !.geom = Loaded(c[f], header[c[f]], st.geom)]

\* set_drive_status(d, f) when the file structs hold the paths c.  The drive
\* is emptied first, and refilled only if the image is one it understands;
\* the geometry globals are overwritten either way.  Loading an ATX uses
\* atari_sector_buffer as scratch.
SetDriveStatus(st, c, d, f) ==
  IF f = NoFile THEN [st EXCEPT !.drives[d] = NoFile, !.info[d] = NoInfo]
  ELSE IF Unreadable(c[f])
  THEN [st EXCEPT !.drives[d] = NoFile, !.info[d] = NoInfo, !.geom = Torn(c[f], st.geom)]
  ELSE LET i == c[f]
           h == header[i]
           g == Loaded(i, h, st.geom)
           ok == Accepted(i, h, st.geom)
       IN [drives |-> [st.drives EXCEPT ![d] = IF ok THEN f ELSE NoFile],
           info   |-> [st.info EXCEPT ![d] = IF ok THEN InfoOf(g) ELSE NoInfo],
           geom   |-> g,
           table  |-> IF Ext[i] = "ATX" THEN i ELSE st.table,
           scratched |-> st.scratched \/ Ext[i] = "ATX"]

Become(st) ==
  /\ drives' = st.drives
  /\ info' = st.info
  /\ geom' = st.geom
  /\ table' = st.table

-----------------------------------------------------------------------------
(* Where a sector is.                                                       *)

\* The first three sectors have 128 bytes, whatever the disk's sector size.
Location(g, s) == IF s > 3 THEN g.offset + 384 + (s - 4) * g.secSize
                           ELSE g.offset + 128 * (s - 1)
Length(g, s)   == IF s > 3 THEN g.secSize ELSE 128

\* file_seek: pf_lseek takes an unsigned offset and clips it to the file.
Seek(i, loc) == IF loc < 0 \/ loc > Size[i] THEN Size[i] ELSE loc

\* The bytes from loc on are in the file.
Inside(i, loc, len) == 0 <= loc /\ loc + len <= Size[i]

\* file_readonly, false only for an open file the card lets us write.
FileReadonlyMutant(f) == content[f] = NoImage
FileReadonly(f) == content[f] = NoImage \/ ReadOnly[content[f]]

\* Bytes loc .. loc+len-1 of image i have been written: h is left of its header.
Overwritten(i, loc, len, h) ==
  header' = IF 0 <= loc /\ loc < 16 /\ len > 0 THEN [header EXCEPT ![i] = h] ELSE header

Answer == {"none", "complete", "error", "nack"}
Operation == {"none", "speed", "status", "percom", "format", "read", "atx",
              "loader", "write"}

\* A request answered.
Io == [op : Operation, drive : Drive, sector : Nat,
       asked : Image \cup {NoImage},   \* in the drive when the command came
       image : Image \cup {NoImage},   \* the one read or written, if any
       via : Image \cup {NoImage},     \* atx: whose track table was used
       loc : Int, len : Nat,           \* the bytes of the file
       bytes : Nat,                    \* the bytes of atari_sector_buffer
       wp : BOOLEAN, null : BOOLEAN,   \* the handler saw btFlags & 1, a null file
       same : BOOLEAN,                 \* the disk was left alone meanwhile
       fits : BOOLEAN,                 \* write: the globals described it at first
       intact : BOOLEAN,               \* write: the buffer was left alone meanwhile
       answer : Answer]

NoIo == [op |-> "none", drive |-> 0, sector |-> 0, asked |-> NoImage,
         image |-> NoImage, via |-> NoImage, loc |-> 0, len |-> 0, bytes |-> 0,
         wp |-> FALSE, null |-> FALSE, same |-> TRUE, fits |-> TRUE,
         intact |-> TRUE, answer |-> "none"]

NoCmd == [drive |-> 0, asked |-> NoImage, intact |-> TRUE]

NoRx == [drive |-> 0, file |-> NoFile, sector |-> 0, loc |-> 0, len |-> 0,
         wp |-> FALSE, verify |-> FALSE, got |-> 0, intact |-> TRUE,
         asked |-> NoImage, same |-> TRUE, fits |-> TRUE]

-----------------------------------------------------------------------------
(* Boot: mainmenu() ends in init_drive_emulator(); atr_header is zero bss.  *)

Init ==
  /\ sd \in BOOLEAN
  /\ ready = sd
  /\ files = [d \in Drive |-> d]
  /\ content = [f \in Slot |-> NoImage]
  /\ header = CardHeader
  /\ drives = [d \in Drive |-> NoFile]
  /\ info = [d \in Drive |-> NoInfo]
  /\ geom = NoGeometry
  /\ table = NoImage
  /\ opendrive = NoDrive
  /\ speed = "slow"
  /\ pc = "idle"
  /\ cmd = NoCmd
  /\ rx = NoRx
  /\ io = NoIo

-----------------------------------------------------------------------------
(* The menu and the card slot: what actions() does while the UART is        *)
(* waited for.                                                              *)

\* Loading an ATX scribbles over atari_sector_buffer: over byte 0, which holds
\* the device id until the handler runs, and over the bytes of a frame received
\* so far or about to be written.
FrameAfter(scratched) ==
  /\ cmd' = IF pc = "ack" /\ scratched THEN [cmd EXCEPT !.intact = FALSE] ELSE cmd
  /\ rx' = IF scratched /\ ((pc = "data" /\ rx.got > 0) \/ pc = "store")
           THEN [rx EXCEPT !.intact = FALSE] ELSE rx

\* menuDrive, right: file_selector reopens the row's SimpleFile in place on
\* image i, or leaves it as it is (escape; no card), and the drive is loaded
\* from it in either case.
MenuSelect(d, i) ==
  /\ i = content[files[d]] \/ (sd /\ i \in Image)
  /\ content' = [content EXCEPT ![files[d]] = i]
  /\ LET st == SetDriveStatus(Globals, content', d, files[d])
     IN Become(st) /\ FrameAfter(st.scratched)
  /\ UNCHANGED <<sd, ready, files, header, opendrive, speed, pc>>
  /\ io' = NoIo

\* menuDrive, left: the SimpleFile is emptied in place.
MenuRemoveMutant(d) ==                     \* ... and the drive is not told
  /\ sd
  /\ content' = [content EXCEPT ![files[d]] = NoImage]
  /\ UNCHANGED <<sd, ready, files, header, drives, info, geom, table, opendrive, speed, pc,
                 cmd, rx>>
  /\ io' = NoIo

MenuRemove(d) ==
  /\ sd
  /\ content' = [content EXCEPT ![files[d]] = NoImage]
  /\ Become(SetDriveStatus(Globals, content', d, NoFile))
  /\ UNCHANGED <<sd, ready, files, header, opendrive, speed, pc, cmd, rx>>
  /\ io' = NoIo

\* menuDrive, fire: exchange with the first drive, the row's drive first.
MenuSwapMutant(d) ==                       \* ... the drives but not the rows
  /\ sd
  /\ LET st == SetDriveStatus(SetDriveStatus(Globals, content, d, drives[0]),
                              content, 0, drives[d])
     IN Become(st) /\ FrameAfter(st.scratched)
  /\ UNCHANGED <<sd, ready, files, content, header, opendrive, speed, pc>>
  /\ io' = NoIo

MenuSwapOrderMutant(d) ==                  \* ... the first drive first
  /\ sd
  /\ files' = [files EXCEPT ![d] = files[0], ![0] = files[d]]
  /\ LET st == SetDriveStatus(SetDriveStatus(Globals, content, 0, drives[d]),
                              content, d, drives[0])
     IN Become(st) /\ FrameAfter(st.scratched)
  /\ UNCHANGED <<sd, ready, content, header, opendrive, speed, pc>>
  /\ io' = NoIo

MenuSwap(d) ==
  /\ sd
  /\ files' = [files EXCEPT ![d] = files[0], ![0] = files[d]]
  /\ LET st == SetDriveStatus(SetDriveStatus(Globals, content, d, drives[0]),
                              content, 0, drives[d])
     IN Become(st) /\ FrameAfter(st.scratched)
  /\ UNCHANGED <<sd, ready, content, header, opendrive, speed, pc>>
  /\ io' = NoIo

\* init_drive_emulator; drive_info and the geometry keep their values.
RestartMutant ==                           \* ... and the drives theirs
  opendrive' = NoDrive /\ speed' = "slow" /\ UNCHANGED <<drives, info, geom, table>>
Restart ==
  /\ opendrive' = NoDrive
  /\ speed' = "slow"
  /\ drives' = [d \in Drive |-> NoFile]
  /\ UNCHANGED <<info, geom, table>>

\* The card is pulled.  Until the firmware sees it gone it goes on as before,
\* also if the card is put back meanwhile: it does not answer then either.
PullCard ==
  /\ ready
  /\ ready' = FALSE
  /\ UNCHANGED <<sd, files, content, header, drives, info, geom, table, opendrive, speed,
                 pc, cmd, rx>>
  /\ io' = NoIo

\* actions() sees the card gone: the emulator restarts, all files are closed.
CardRemoved ==
  /\ sd /\ ~ready
  /\ sd' = FALSE
  /\ Restart
  /\ content' = [f \in Slot |-> NoImage]
  /\ UNCHANGED <<ready, files, header, pc, cmd, rx>>
  /\ io' = NoIo

\* actions() sees a card and dir_init succeeds.
CardInserted ==
  /\ ~sd
  /\ sd' = TRUE /\ ready' = TRUE
  /\ Restart
  /\ UNCHANGED <<files, content, header, pc, cmd, rx>>
  /\ io' = NoIo

\* The step under way, of the menu or of a request, reads a sector that is not
\* the one in the buffer from a card that does not answer: mmcReadCached never
\* returns.  (Where the buffer has all it needs, the step goes on as it would.)
Hang ==
  /\ ~ready
  /\ pc' = "hung" /\ cmd' = NoCmd /\ rx' = NoRx
  /\ UNCHANGED <<sd, ready, files, content, header, drives, info, geom, table, opendrive,
                 speed>>
  /\ io' = NoIo

-----------------------------------------------------------------------------
(* processCommand and the handlers.  A frame that is malformed, has a bad   *)
(* checksum, or names an absent drive changes nothing and gets no answer.   *)

\* A good command frame for a drive that holds a disk and for which there is a
\* handler.  send_ACK waits for room in the FIFO, and calls actions() meanwhile.
\* Which command it is and for which sector makes no difference until then, so
\* that is chosen where the handler is called.
Accept(d) ==
  /\ pc = "idle"
  /\ drives[d] # NoFile
  /\ pc' = "ack"
  /\ cmd' = [drive |-> d, asked |-> content[drives[d]], intact |-> TRUE]
  /\ io' = NoIo
  /\ UNCHANGED <<sd, ready, files, content, header, drives, info, geom, table, opendrive,
                 speed, rx>>

\* getCommandHandler has none: an unknown command, or sector 0.  NACK, before
\* the drive is made the open one.
Refuse(d) ==
  /\ pc = "idle"
  /\ drives[d] # NoFile
  /\ io' = NoIo
  /\ UNCHANGED <<sd, ready, files, content, header, drives, info, geom, table,
                 opendrive, speed, pc, cmd, rx>>

\* The globals the handler sees: changing drive loads the new one's header.
OpenedMutant(d) == Globals                 \* ... were it not for that
Opened(d) == IF d = opendrive THEN Globals
             ELSE SetDriveStatus(Globals, content, d, drives[d])
FileOf(d) == Opened(d).drives[d]
ImageInMutant(d) ==                        \* drives[opendrive], as read before it changes
  IF \E e \in Drive : opendrive = e /\ drives[e] # NoFile
  THEN content[drives[opendrive]] ELSE NoImage
ImageIn(d) == IF FileOf(d) = NoFile THEN NoImage ELSE content[FileOf(d)]

\* The ACK is sent, and the handler is called with what is in the drive now.
Take ==
  /\ pc = "ack"
  /\ opendrive' = cmd.drive
  /\ Become(Opened(cmd.drive))
  /\ cmd' = NoCmd
  /\ UNCHANGED <<sd, ready, files, content>>

\* The drive still holds the disk that it held when the command came.
Same(d) == drives[d] # NoFile /\ content[drives[d]] = cmd.asked

\* The answer to a command for drive d that used len bytes at loc of image i.
Access(d, s, op, answer, bytes, i, via, loc, len) ==
  [op |-> op, drive |-> d, sector |-> s, asked |-> cmd.asked,
   image |-> i, via |-> via, loc |-> loc, len |-> len, bytes |-> bytes,
   wp |-> Opened(d).geom.wp, null |-> (FileOf(d) = NoFile), same |-> Same(d),
   fits |-> TRUE, intact |-> TRUE, answer |-> answer]

\* The answer to one that used no file.
Reply(d, s, op, answer, bytes) ==
  Access(d, s, op, answer, bytes, NoImage, NoImage, 0, 0)

HandleSpeed(d, s) ==
  /\ Take
  /\ speed' = IF s \div 256 = 0 THEN "fast" ELSE "slow"
  /\ io' = Reply(d, s, "speed", "complete", 1)
  /\ pc' = "idle"
  /\ UNCHANGED <<header, rx>>

HandleGetStatus(d) ==
  /\ Take
  /\ io' = Reply(d, 0, "status", "complete", 4)
  /\ pc' = "idle"
  /\ UNCHANGED <<header, speed, rx>>

\* The counts in the reply's twelve bytes are left out.
HandleReadPercomBlock(d) ==
  /\ Take
  /\ io' = Reply(d, 0, "percom", "complete", 12)
  /\ pc' = "idle"
  /\ UNCHANGED <<header, speed, rx>>

\* 128 bytes for every eight paragraphs.
FormatEndMutant(g) == g.offset + 128 * (g.pars \div 8 + 1)
FormatEnd(g) == g.offset + 128 * (g.pars \div 8)

\* One 128-byte record of the buffer after another, from the start of the
\* data.  The buffer's byte 0, which clearAtariSectorBuffer does not reach, still
\* holds the device id, unless the menu loaded an ATX meanwhile.  The loop that
\* clears the reply from byte 2 up to the sector size never ends on 0 or 1.
HandleFormat(d) ==
  LET g == Opened(d).geom
      i == ImageIn(d)
      written == i # NoImage /\ ~FileReadonly(FileOf(d))
      loc == IF g.offset < 0 THEN 0 ELSE g.offset
      len == IF FormatEnd(g) < loc THEN 0 ELSE FormatEnd(g) - loc
  IN
  /\ Take
  /\ \/ /\ g.wp
        /\ io' = Reply(d, 0, "format", "error", 0)
        /\ pc' = "idle"
        /\ UNCHANGED header
     \/ /\ ~g.wp
        /\ io' = Access(d, 0, "format", IF g.secSize < 2 THEN "none" ELSE "complete",
                        g.secSize, IF written THEN i ELSE NoImage, NoImage, loc, len)
        /\ pc' = IF g.secSize < 2 THEN "lost" ELSE "idle"
        /\ IF written
           THEN \E b \in IF cmd.intact THEN {49 + d} ELSE ScratchByte :
                  Overwritten(i, loc, len, [magic |-> b, pars |-> 0,
                                            secSize |-> 0, flags |-> 0])
           ELSE UNCHANGED header
  /\ UNCHANGED <<speed, rx>>

\* custom_loader = 0: the sector's bytes from the image.
ReadSector(d, s) ==
  LET g == Opened(d).geom
      i == ImageIn(d)
  IN
  /\ g.loader = 0
  /\ io' = Access(d, s, "read", "complete", Length(g, s), i, NoImage,
                  IF i = NoImage THEN 0 ELSE Seek(i, Location(g, s)), Length(g, s))

\* custom_loader = 1: sectors 1 and 2 are the boot loader, 0x168 and 0x169 the
\* made-up directory, from 0x171 on 125 bytes each of the executable.
ReadLoader(d, s) ==
  LET i == ImageIn(d)
      data == s >= 369 /\ i # NoImage
  IN
  /\ Opened(d).geom.loader = 1
  /\ io' = IF data
           THEN Access(d, s, "loader", "complete", 128, i, NoImage,
                       Seek(i, 125 * (s - 369)), 125)
           ELSE Reply(d, s, "loader", "complete", 128)

\* custom_loader = 2: gAtxFile is the drive's file, the track table and the
\* sector size are whatever loadAtxFile(0) left in gTrackInfo[0] and
\* gBytesPerSector.
ReadAtx(d, s) ==
  /\ Opened(d).geom.loader = 2
  /\ \E answer \in {"complete", "error"}, bytes \in {128, 256} :
       io' = Access(d, s, "atx", answer, bytes, ImageIn(d), Opened(d).table, 0, 0)

HandleRead(d, s) ==
  /\ s # 0
  /\ Take
  /\ ReadSector(d, s) \/ ReadLoader(d, s) \/ ReadAtx(d, s)
  /\ pc' = "idle"
  /\ UNCHANGED <<header, speed, rx>>

\* handleWrite up to its receive loop: only the file's own attribute is asked.
\* A null pointer reads as either.
MayWrite(d) == FileOf(d) # NoFile => ~FileReadonly(FileOf(d))

\* How image i was laid out when the card was prepared.
Home(i) == Loaded(i, CardHeader[i], NoGeometry)
SameLayout(g, h) == /\ g.offset = h.offset
                    /\ g.loader = h.loader
                    /\ g.pars = h.pars
                    /\ g.secSize = h.secSize

WriteRefused(d, s) ==
  /\ s # 0
  /\ Take
  /\ FileOf(d) # NoFile => FileReadonly(FileOf(d))
  /\ io' = Reply(d, s, "write", "error", 0)
  /\ pc' = "idle"
  /\ UNCHANGED <<header, speed, rx>>

WriteStart(d, s, verify) ==
  LET g == Opened(d).geom IN
  /\ s # 0
  /\ Take
  /\ MayWrite(d)
  /\ pc' = "data"
  /\ rx' = [drive |-> d, file |-> FileOf(d), sector |-> s,
            loc |-> Location(g, s), len |-> Length(g, s), wp |-> g.wp,
            verify |-> verify, got |-> 0, intact |-> TRUE,
            asked |-> cmd.asked, same |-> Same(d),
            fits |-> (cmd.asked \in Image /\ SameLayout(g, Home(cmd.asked)))]
  /\ io' = NoIo
  /\ UNCHANGED <<header, speed>>

HandleWrite(d, s) == WriteRefused(d, s) \/ \E v \in BOOLEAN : WriteStart(d, s, v)

\* A part of the data frame comes in: as the Atari sent it, or damaged.  The
\* loop has no time-out and does not look at the command line, so the bytes
\* of a command the Atari retries meanwhile are taken for data as well.
ReceiveDataMutant(good) ==                 \* one part too many
  /\ pc = "data"
  /\ rx.got < FrameUnits
  /\ rx' = [rx EXCEPT !.got = rx.got + 1, !.intact = rx.intact /\ good]
  /\ UNCHANGED <<sd, ready, files, content, header, drives, info, geom, table,
                 opendrive, speed, pc, cmd>>
  /\ io' = NoIo

ReceiveData(good) ==
  /\ pc = "data"
  /\ rx.got < FrameUnits - 1
  /\ rx' = [rx EXCEPT !.got = rx.got + 1, !.intact = rx.intact /\ good]
  /\ UNCHANGED <<sd, ready, files, content, header, drives, info, geom, table,
                 opendrive, speed, pc, cmd>>
  /\ io' = NoIo

\* The answer to a write: the disk was left alone if the handler was called with
\* the disk asked for, and the file that it was given, if any, still has that path.
WriteReply(answer, i, loc) ==
  [op |-> "write", drive |-> rx.drive, sector |-> rx.sector, asked |-> rx.asked,
   image |-> i, via |-> NoImage, loc |-> loc, len |-> rx.len, bytes |-> rx.len,
   wp |-> rx.wp, null |-> (rx.file = NoFile),
   same |-> (rx.same /\ (rx.file # NoFile => content[rx.file] = rx.asked)),
   fits |-> rx.fits, intact |-> rx.intact, answer |-> answer]

\* The checksum does not match: NACK, nothing written.
WriteNacked(good) ==
  /\ pc = "data"
  /\ rx.got = FrameUnits - 1
  /\ ~(rx.intact /\ good)
  /\ io' = WriteReply("nack", NoImage, 0)
  /\ pc' = "idle"
  /\ rx' = NoRx
  /\ UNCHANGED <<sd, ready, files, content, header, drives, info, geom, table,
                 opendrive, speed, cmd>>

\* The checksum matches.  send_ACK may have to wait again.
FrameTaken(good) ==
  /\ pc = "data"
  /\ rx.got = FrameUnits - 1
  /\ rx.intact /\ good
  /\ pc' = "store"
  /\ UNCHANGED <<sd, ready, files, content, header, drives, info, geom, table,
                 opendrive, speed, cmd, rx>>
  /\ io' = NoIo

WriteLocationMutant == Location(geom, rx.sector)   \* worked out only now
WriteLocation == rx.loc

\* The ACK is sent and the buffer written, with whatever is in it.  file_write
\* fails on a file that has become read-only or was closed; its result is not
\* looked at.  With verify the sector is read back; what comes back for bytes
\* the file does not have is uninitialised.
WriteDone ==
  LET written == rx.file # NoFile /\ ~FileReadonly(rx.file)
      i == IF written THEN content[rx.file] ELSE NoImage
      loc == IF written THEN Seek(i, WriteLocation) ELSE 0
      landed == written /\ Inside(i, loc, rx.len)
  IN
  /\ pc = "store"
  /\ \E answer \in IF rx.verify /\ ~landed THEN {"complete", "error"}
                   ELSE {"complete"} :
       io' = WriteReply(answer, i, loc)
  /\ IF written THEN \E h \in Scribble : Overwritten(i, loc, rx.len, h)
                ELSE UNCHANGED header
  /\ pc' = "idle"
  /\ rx' = NoRx
  /\ UNCHANGED <<sd, ready, files, content, drives, info, geom, table, opendrive, speed, cmd>>

ReceiveMutant(good) == ReceiveData(good) \/ FrameTaken(good)   \* no NACK
Receive(good) == ReceiveData(good) \/ WriteNacked(good) \/ FrameTaken(good)

-----------------------------------------------------------------------------

Actions ==
  /\ pc \notin {"hung", "lost"}
  /\ \/ \E d \in Drive : \/ \E i \in Image \cup {NoImage} : MenuSelect(d, i)
                         \/ MenuRemove(d)
                         \/ MenuSwap(d)
     \/ PullCard
     \/ CardRemoved
     \/ CardInserted
     \/ Hang

ProcessCommand == \E d \in Drive : Accept(d) \/ Refuse(d)

Handle ==
  \/ HandleGetStatus(cmd.drive)
  \/ HandleReadPercomBlock(cmd.drive)
  \/ HandleFormat(cmd.drive)
  \/ \E s \in Sector : \/ HandleSpeed(cmd.drive, s)
                       \/ HandleRead(cmd.drive, s)
                       \/ HandleWrite(cmd.drive, s)

Transfer == (\E good \in BOOLEAN : Receive(good)) \/ WriteDone

Next == Actions \/ ProcessCommand \/ Handle \/ Transfer

Spec == Init /\ [][Next]_vars

\* While the drive waits for data, bytes keep coming: the Atari sends its
\* frame, or gives up and sends its commands again.  The UART goes on sending,
\* so there is room for an ACK in the end.
FairSpec == Spec /\ WF_vars(Transfer)

-----------------------------------------------------------------------------
(* Properties.                                                              *)

Cmd == [drive : Drive, asked : Image \cup {NoImage}, intact : BOOLEAN]

Rx == [drive : Drive, file : Slot \cup {NoFile}, sector : Nat, loc : Int,
       len : Nat, wp : BOOLEAN, verify : BOOLEAN, got : 0 .. FrameUnits - 1,
       intact : BOOLEAN, asked : Image \cup {NoImage}, same : BOOLEAN, fits : BOOLEAN]

\* Every variable keeps its type.
TypeOK ==
  /\ sd \in BOOLEAN
  /\ ready \in BOOLEAN
  /\ files \in [Drive -> Slot]
  /\ content \in [Slot -> Image \cup {NoImage}]
  /\ header \in [Image -> Header]
  /\ drives \in [Drive -> Slot \cup {NoFile}]
  /\ info \in [Drive -> Info]
  /\ geom \in Geometry
  /\ table \in Image \cup {NoImage}
  /\ opendrive \in Drive \cup {NoDrive}
  /\ speed \in {"slow", "fast"}
  /\ pc \in {"idle", "ack", "data", "store", "hung", "lost"}
  /\ cmd \in Cmd
  /\ rx \in Rx
  /\ io \in Io

\* No two menu rows point at the same SimpleFile, and a drive that holds a disk
\* holds the file its own row shows: menuDrive exchanges files[] and drives[]
\* separately, and opens and closes the structs in place.
RowsOwnDrives ==
  /\ \A d, e \in Drive : files[d] = files[e] => d = e
  /\ \A d \in Drive : drives[d] \in {NoFile, files[d]}

\* Whether the globals describe the disk in the open drive.
FitsOpenDrive ==
  \A d \in Drive : opendrive = d /\ drives[d] # NoFile =>
    /\ content[drives[d]] # NoImage
    /\ SameLayout(geom, Home(content[drives[d]]))

\* What the menu says of a drive that holds a disk (describe_disk) is true of
\* the image whose path the drive's file holds, whatever was mounted, swapped,
\* ejected or overwritten meanwhile: an image that opens, of that density.
MenuTellsTruth ==
  \A d \in Drive : drives[d] # NoFile =>
    LET i == content[drives[d]]
    IN i # NoImage /\ info[d].density = DensityOf(Home(i))

\* One set of globals serves all drives.  No command leaves them describing
\* another disk than the one it was for: they stop fitting the open drive only
\* in a step of the menu, which changes neither opendrive nor a transfer.
OnlyMenuMakesStale ==
  [][FitsOpenDrive /\ ~FitsOpenDrive' =>
       UNCHANGED <<opendrive, pc, header>> /\ io' = NoIo]_vars

\* An image the card marks read-only is never written or formatted, even if it
\* is selected into the drive while a frame for another disk is coming in.
ReadOnlyNeverWritten ==
  io.op \in {"write", "format"} /\ io.image # NoImage => ~ReadOnly[io.image]

\* COMPLETE for a write, with verify or without, means that what the Atari sent
\* is in the image it addressed, all of it and where that image has the sector,
\* although the file, the place and the length are chosen before the frame is
\* waited for and nothing that file_write returns is looked at.  It means less
\* in six cases, which are excepted: the user changed that disk since the
\* command came; the globals described another disk by then (run drive_stale);
\* an ATX was loaded into the buffer while the ACK of the frame waited; the
\* handler was given no file (NullFileOnlyIfOverwritten); the disk is an
\* executable or an ATX, which have no sectors of their own; the image ends
\* before that sector does.
CompletedWriteLanded ==
  /\ io.op = "write" /\ io.answer = "complete"
  /\ io.same /\ io.fits /\ io.intact /\ ~io.null
  => LET g == Home(io.asked)
         loc == Location(g, io.sector)
         len == Length(g, io.sector)
     IN g.loader = 0 /\ Inside(io.asked, loc, len) =>
          io.image = io.asked /\ io.loc = loc /\ io.len = len

\* A handler is given a null file only if the image in that drive has had its
\* own header overwritten by an earlier sector write or format; or if the user
\* emptied or changed the drive while the ACK of the command waited to be sent,
\* for processCommand looks at drives[] before that and does not look again.
NullFileOnlyIfOverwritten ==
  io.null /\ io.same =>
    io.asked # NoImage /\ header[io.asked] # CardHeader[io.asked]

\* Every write whose command the drive has acknowledged is answered in the end,
\* and it is listening for commands again, unless the card was pulled and the
\* firmware waits for it for ever.
WriteAnswered ==
  pc \in {"data", "store"} ~> pc = "idle" \/ (pc = "hung" /\ ~ready)

-----------------------------------------------------------------------------
(* What the repository says, and the code does not do.                      *)

\* instructions.txt lists images with a header ("single/medium/double
\* density"), images without and executables as supported: a sector is then
\* read or written where that image's own layout has it.
ServedByOwnLayout ==
  io.op \in {"read", "write"} /\ io.image # NoImage /\ io.image = io.asked =>
    LET g == Home(io.image)
    IN g.loader = 0 => /\ io.loc = Seek(io.image, Location(g, io.sector))
                       /\ io.len = Length(g, io.sector)

\* "write protected; // no write support yet...": an image the status reply
\* and the menu report as write protected is not written.
WriteProtectHonoured ==
  io.op = "write" /\ io.wp => io.image = NoImage

\* "fill image with zeros": a format that starts with the first bytes of the
\* image leaves zeros there.
FormatFillsWithZeros ==
  io.op = "format" /\ io.image # NoImage /\ io.loc = 0 /\ io.len > 0 =>
    header[io.image].magic = 0

\* ".XFD - Atari disk image without header": no byte of the image says whether
\* it is write protected, the card's attribute does.
XfdHasNoHeader ==
  \A d \in Drive : drives[d] # NoFile =>
    LET i == content[drives[d]]
    IN i # NoImage /\ Ext[i] = "XFD" => info[d].ro = ReadOnly[i]
=============================================================================
