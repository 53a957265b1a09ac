# Verification of the atari_xl_fpga firmware

The repository is an FPGA Atari 800XL. Most of it is hardware description: board
top levels, vendor IP, chip replacements. The core and the ZPU are in a submodule
that is not part of the tree. What decides things is the firmware of the ZPU
soft processor, `src/atari_800xl/firmware_eclairexl/`: it emulates disk drives on
the Atari's serial bus from images on an SD card, and it has a menu, a USB host
and a flash of settings. This project models that firmware in TLA+, checks it with
TLC and proves what matters with TLAPS. `FW/` below stands for the firmware
directory.

## 1. The system

| Component | Source | State it keeps | Operations | Module |
|---|---|---|---|---|
| SIO drive emulator | `FW/atari_drive_emulator.c`, `FW/uart/uart.c` | `drives[]`, `drive_info[]`, ONE `atr_header`/`offset`/`custom_loader`, `opendrive`, `speed`, the 256-byte `atari_sector_buffer` | `processCommand` and its handlers, `set_drive_status` | DriveEmulator |
| Disk menu, card slot | `FW/a800/mainmenu.c`, `FW/fileselector.c` | `files[]`, `sd_present` | `menuDrive` (select, remove, swap), the card part of `actions()` | DriveEmulator, Menus |
| File layer, sector cache | `FW/fat/pff_file.c`, `FW/fat/pff.c`, `FW/sd_direct/` | `openfile`, `write_pending`, the open file's pointer and cluster, one 512-byte buffer and its sector number | seek, read, write, flush, open, directory listing, mount | FileLayer |
| USB host | `FW/usb/usb.c`, `hub.c`, `hid.c` | device slots, states of the root ports, `bResetInitiated`, joystick numbers | poll, configure, release, hub events, rotation of sticks | UsbHost |
| Menus, freezer, reboot | `FW/a800/mainmenu.c`, `FW/menu.c`, `FW/a800/freeze.c` | saved Atari memory, pause and freezer bits, the calls of `actions()` under way | hot keys, freeze, restore, display_menu, reboot | Menus |
| Settings and profiles | `FW/main.h`, `FW/spiflash/spiflash.c` | flash sectors, the settings registers | load, save, program a core | FlashProfiles, Menus |
| Cartridges | `FW/cartridge.c` | `CARTRIDGE_MEM`, `files[4]` | select, load, remove | Menus |
| ATX images | `FW/atx.c` | track table, head position, sectors per track | load, read a sector with retries | the table only |
| HID reports, keyboard, video tables, MiST files, 5200, older firmware | `FW/usb/hidparser.c`, `FW/video_modes.c`, `FW/mist/`, `FW/5200/`, ... | | | none |

The firmware has one thread. There are no interrupts; concurrency comes from the
places where it waits and looks after something else meanwhile, and from what
happens outside:

- **while the UART has nothing to receive, `USART_Receive_Byte` calls `actions()`, and
  while it has no room to send, so does `USART_Transmit_Byte`** (`uart.c:28-31, 38-41`).
  `actions()` notices that the card was pulled or put in, and opens the menu, and the
  menu changes `files[]`, the SimpleFile structs, `drives[]` and the geometry globals
  under the feet of whatever was waiting: `getCommand`, `processCommand` between its
  check of `drives[]` and its use (`:397`, `:423`, `:438`), or a write that has
  still to receive its data (`:598`) or to acknowledge them (`:611`);
- **`display_menu` calls `actions()` too** (`menu.c:92`), so a menu can open over a
  menu, and a reset can be asked for while the machine is frozen;
- `actions()` polls USB, and devices come and go between any two transfers of a poll;
- the card leaves its slot between any two sectors, and power goes between any two
  erasures or writes;
- the 6502 runs beside all this unless it is paused, and the Atari at the other end
  of the serial line retries and gives up as it likes; frames are damaged or cut short.

What makes this hard, and hard to test:

- one set of geometry globals for four drives, reloaded when the drive number of a
  command changes, and overwritten by the menu for any drive at any moment;
- a drive is found to hold a disk before the command is acknowledged, and used after
  it; the file, the offset and the length of a write are chosen before its data frame
  is waited for, and used after it;
- the menu changes SimpleFile structs in place while `drives[]` points to them,
  and exchanges the two arrays separately;
- writes can destroy the header the emulator will read the next time;
- a chain of decisions on write protection from two sources;
- one write-back buffer for file data, FAT and directories, and a library below it
  that keeps its place in the cluster chain from call to call;
- a static flag for "a reset is under way" shared by all ports of all hubs, and
  joystick numbers that are moved whenever one goes;
- one buffer in which freeze saves the machine, however many menus are open;
- a flash that has to be erased with all profiles in it to change one of them.

`PROJECT.json` lists these under `hazards`, each at its line.

## 2. What makes each component correct

- **Drive emulator**: a sector is read or written on the disk in the addressed
  drive, where that disk keeps it; a transfer fits the buffer; a COMPLETE means the
  data is there; a read-only image is never written; the menu shows what is
  mounted; every acknowledged write is answered. (The code keeps only some of this
  without exceptions: see section 4.)
- **File layer**: reads see earlier writes to the same file, whatever was opened or
  listed between; no write reaches a sector of another file; what is lost is lost
  with the card or the power.
- **USB**: a plugged device that is supported is configured in the end; no two
  devices listen to address 0; entries and joystick numbers are those of the devices
  present.
- **Menus**: the machine stands still while a menu is open, and goes on with its own
  memory (again with exceptions in the code, section 4); the cartridge that is
  switched on is the one selected, whole.
- **Flash**: what is not changed is what it was; each profile holds what was saved
  last in it.
- **ATX**: the sector found is the next under the head among those with that number
  (not modelled).

## 3. Modules

### DriveEmulator

The whole of `atari_drive_emulator.c` and what the disk menu does to it. Variables
carry the names of the C globals:

| Variable | Code |
|---|---|
| `sd` | `sd_present` |
| `files`, `content` | `files[]` (a pointer) and the path in the struct it points to |
| `header` | the first 16 bytes of each image on the card, which writes can change |
| `drives`, `info` | `drives[]` and `drive_info[]` |
| `geom` | `atr_header.wPars/wSecSize/btFlags`, `offset`, `custom_loader` |
| `table` | the image `gTrackInfo[0]` was loaded from |
| `opendrive`, `speed` | the same |
| `ready` | whether the card in the slot is the one initialised, and so answers |
| `pc` | where the firmware waits: `"idle"` in `getCommand`, `"ack"` in `processCommand`'s `send_ACK`, `"data"` in `handleWrite`'s receive loop, `"store"` in its `send_ACK`; or where it stays: `"hung"` in `mmcReadCached`, `"lost"` in a format that overwrote all memory |
| `cmd`, `rx` | `processCommand`'s locals while it waits, `handleWrite`'s while it does |
| `io` | history: the request answered by the last step, for the properties |

One action is everything the firmware does between two waits for the UART. A command
takes two: `Accept` is `processCommand` up to the ACK, with the check that the drive
holds a disk, and one of `HandleSpeed`, `HandleGetStatus`, `HandleReadPercomBlock`,
`HandleFormat`, `HandleRead` and `HandleWrite` the rest, with what is in the drive by
then (`Take`) and preceded by the reload of the drive if it is not the open one
(`Opened`). A write takes more: `WriteStart` is `handleWrite` up to its loop,
`ReceiveData` a part of the frame, `WriteNacked` a frame that does not match its
checksum, `FrameTaken` one that does, `WriteDone` the write itself, after the ACK.
`Refuse` is the NACK of `processCommand`. The menu's steps (`MenuSelect`,
`MenuRemove`, `MenuSwap`) and the card's (`PullCard`, `CardRemoved`, `CardInserted`)
are enabled at all four waits. `SetDriveStatus` is the C function of that name as a
function on the globals, so that a swap is its composition with itself, in the code's
order. Between `PullCard` and `CardRemoved` the firmware does not know that
the card is gone: any step may then end in `Hang` instead, where it needs a sector
that is not in the buffer; `Hang` takes no step back, and no menu opens.

Abstractions, and why they are sound here:

- A sector's bytes are left out. What a write leaves in the first 16 bytes of an
  image is any member of `Scribble`; `ScribbleAssumption` excludes data that
  happens to look like the header of another kind of image.
- The checksum is exact: a damaged frame does not match, an intact one does.
- A data frame is `FrameUnits` pieces, not 129 or 257 bytes.
- Which command it is and for which sector is chosen when the handler is called, not
  when the command is accepted: nothing depends on it until then.
- `file_read` and `file_write` act at the clipped position `Seek`; the cache below
  is the subject of FileLayer. In particular a write is in the image when
  `file_write` returns; that it may be lost before it reaches the card is said there.
- `disk_initialize` succeeds or fails; that it may hang is not modelled.
- A null file (`processCommand` does not check after the reload) reads as read-only
  or not; a write through it reaches no image.
- A verify that reads fewer bytes than it compares sees uninitialised memory: either
  answer.
- `handleFormat`'s reply loop on a sector size below 2 overwrites all memory: the
  state `pc = "lost"`, with no further step.
- Sector sizes above 256 overrun the buffer; the model records the length
  (`io.bytes`) and goes on, without the overwritten memory.
- The waits of the replies, of COMPLETE and of NACK are not split off: they are the last thing
  that a command does, and what is modelled is not used after them. What is left out
  with them is that loading an ATX from the menu then changes bytes of the reply.
- An image of 1 to 15 bytes leaves what it has in `atr_header`, not byte-swapped (`Torn`).
- A card put in again has the same images.
- An ATX image is well formed; whether its sector is found is a free choice.

### DiskService and DriveService

`DiskService` is what a set of drives promises, in thirty lines: each drive holds a
disk or none, the user changes disks, and a sector asked of a drive is accessed on
the disk in it, at `Place(disk, sector)`.

The emulator does not implement this: see the findings. `DriveService` states what
has to be added. **Careful use**: the menu and the card slot are used while no command is
under way, disks are changed only in the open drive, or while the open drive is empty, or by
the exchange with drive 1 while drive 1 is the open drive; the Atari does not write
to a disk reported as protected. The exchange being safe is not obvious: it loads
drive 1 last, so the globals fit drive 1 afterwards. `CarefulSpec` implements
`DiskService` under the refinement mapping `Disks`, `Accesses`; `HomePlace` gives
the place of a sector by counting the sectors before it, independent of the
arithmetic of the handlers.

### FileLayer, FileStore, FileRefinement

`FileLayer` is everything between the calls of `simplefile.h` and the card.

| Variable | Code |
|---|---|
| `card`, `slot` | the sectors of the card, and whether it is in and initialised |
| `cache` | `mmc_sector_buffer`, `n_actual_mmc_sector`, and whether `mmcReadCached` spins for ever |
| `path` | which file the path of each SimpleFile names |
| `openfile`, `write_pending` | the same |
| `fatfs` | the fields of `FATFS` that change: `flag`, the file opened, `fptr`, `curr_clust`, `dsect` |
| `call` | the loop under way in `pf_read` or `file_write`: bytes left |
| `got` | history: the bytes read by the last step |

A call is one action, except that the loops of `pf_read` and `file_write` take one
step per sector, so that the card can be pulled and the power fail in between. The
library's functions are operators on `[fs, cache]`, composed in the order of the
code: `file_write_sector` is the flush, the seek (`Sought`), the read of one byte
(`ReadOn`) and the addition to `fptr` of one turn of `file_write`'s loop, so that
what pff.c knows of its place is what it really knows, not what it ought to.

Abstractions: a file's clusters are numbered along its chain, so the FAT is one sector
that is read when a link is followed, and its contents do not matter; if a write
ends up in it, the model stops (`Intact`), because what the firmware would do then
is arbitrary. The directory is one sector too. A sector is `SecSize` bytes,
a cluster `csize` sectors. Sectors are read whole or not at all. No caller reads at a position
past the end. A card put in again is the same card.

`load_roms` lists a directory without asking whether a card is there
(`mainmenu.c:295`). With no card mounted since the power came (`NotMounted`: `FatFs`
is 0) it reads nothing, but it flushes, which is why nothing waits after `PowerCycle` with an
empty slot.

`FileStore` is the promise: each file has contents as reads see them (`now`) and as
the card has them (`durable`); a write changes `now` and reaches `durable` later;
everything else leaves `now` alone. It spells out what may go wrong, and nothing
else may: `Restart` (power or card) loses what is not durable; `Overrun`, a write past
the end, may change one sector, of that file or of another; `Slip`, the seek of finding
`lost`, loses the sector that waits, and only if its number is the offset sought, be it a
sector of the open file or the one that an overrun hit; `Stall` is a call that never returns.
`FileRefinement` maps the layer to it: contents are read through the cache.

### UsbHost

The table of devices, the state of each root port, the status and change bits of
each port of a hub, and what the devices themselves remember (power, addresses).
`pc` says where `usb_poll` is: the loop over devices, the first and the second loop of
`usb_hub_check_hub_status`, or a release, whose recursion is a stack of entries. Each
look at a port and each release is a step, so that plugs and unplugs fall between
them; an event is a combination of all bits of status and change, as in the code, so
that combinations which match no event do nothing, for ever if need be.

`past` records what excuses a property: `lapse`, a transfer failed, the table was full,
or a device left while a reset was under way; `swapped`, a device was exchanged before
`usb_poll` saw the first one go; `stray`, a device of no class was configured on a hub, and
its entry stays in the way (the end of section 5); `moved`, a lone stick was rotated; `leaked`, the numbers
given to sticks whose initialisation then failed. Each of these is a hazard listed at
its line: with it, the code really does go wrong.

Left out: reports and keyboard events, speeds, endpoints, and the values of timers
(a timer may have elapsed or not whenever the code asks). In one poll, the 2-second
timer lets each hub be looked at once; the model lets it be.

### FlashProfiles, Menus

`FlashProfiles` is the chip: `flash` maps each profile's settings and ROM, the freezer,
the PLL's tables and the core to contents; `job` is what `save_settings` or `flash_rpd`
has still to do, a sequence of erasures and writes, each a step. An erasure takes whole
sectors of 64 or 256 KB, or nothing on a chip that `flashSectorSize` does not know; a
write over what is not erased leaves something mixed. The erasure or the write of all
192 KB is one step, so power fails before or after it and not between two of its
sectors or pages; and the wait for the chip (`spiflash.c:70`, which ends only when the
whole status register is 0) is taken to end.

`Menus` is the rest of the firmware's main thread. The menus that are open are a
stack, `at` is where the innermost is: waiting for its user, in `actions()`, at the entry
chosen, or flashing. The Atari's memory and chips and the copies of them in `store_mem`
are told apart by age only: "own", "old", "menu". The 6502 is the action `Run`, which
makes memory its own and copies old; that is what makes a restore of an old
copy, or a machine that runs under a menu, visible. `load_car` starts where the file
stands, as in the code, so an image chosen twice reads its header at its end.

Two parts of `past` say what happens when a hot key is taken in a menu, since
`display_menu` calls `actions()`. `past.released`: the 6502 was let go since a menu was
last opened, by a reset key in it or because a menu over it was left, so it runs
although a menu is open. `past.disturbed`: a hot key was taken in a menu, so that a second
`freeze()` has saved the first menu's screen over the saved machine, or a reset has let the
machine run before the old copy is put back over it; this ends when the machine has
run, or is started, without a menu. Both are what the code does; `PausedInMenu` and
`ResumesIntact` except exactly these.
`past.overwritten`: `flash_rpd` read a core back into `CARTRIDGE_MEM`.
`past.kept` is what the flash should hold, taken from the saves asked for, and, after a
loss of power in the middle of one, from what that left.

The disk entries of the devices menu are `OtherEntry` here and actions of DriveEmulator;
the two modules share no variable but `sd_present`, and are checked apart.

### MC modules

`MCDrive` has the images on the model's card (an ATR in single and in double density,
one read-only, one with 512-byte sectors, one whose header claims more paragraphs than
the file has, one of 8 bytes, two headerless ones, an executable, two ATX, of which one
is read-only);
`MCFiles` two files; `MCUsb` the devices and where they fit; `MCMenu` what the flash
holds when the board is new.

### Proof modules

DriveEmulator_proofs, DriveService_proofs, DiskService_proofs, FileLayer_proofs,
FileRefinement_proofs, Menus_proofs, UsbHost_proofs, UsbWiring_proofs: section 6.

## 4. Runs

| Run | Question | Bounds | States |
|---|---|---|---|
| `any` | What holds with no discipline at all? | 2 drives, an ATR and an executable, sector 3, one thing that data may leave over a header, 1 frame unit | 401 000 |
| `frames` | Can a transfer hit a disk it was not for, and is it answered? | 2 drives, a writable ATR and a read-only ATX, sectors 5 and 9 (the latter behind the end of the ATR), 2 frame units | 268 000 |
| `careful` | Does careful use give DiskService? | 2 drives, seven images: one of each layout, one with sectors of 512 bytes, one whose header claims more than the file has, one of 8 bytes; sectors 1, 5, 369, 1 frame unit | 224 000 |
| `files` | Does the file layer keep the promise of FileStore? | 2 handles (symmetric), files of 4 sectors and of half a sector, sectors of 2 bytes, clusters of 1 sector, offsets 0, 3 and 4, counts 1 and 3, `MaxWritten` = 0 | 362 000 |
| `usb` | Are addresses, entries and numbers right, and is what is plugged served? | 2 root ports, a hub on a hub, 2 devices with 3 sticks, a device of no class, 4 slots, 4 plugs or unplugs | 74 000 |
| `menu` | Does the machine survive its menus, and the flash its saves? | 2 profiles, 2 cartridges (one short), a core, sectors of 64 and 256 KB, menus 2 deep, 1 save | 1 341 000 |
| `stale`, `protect`, `format`, `xfd`, `lost`, `core` | Section 5 | as above | found within seconds |

Why these are enough. *Drives* are symmetric except for drive 1 in a swap, so drive 1
and another one, one of which is open, give all cases of "the other drive". Sectors
1 (a short one), 5 (the second one behind the short ones) and 369 (0x171, the first
data sector of a loader), 3 of an executable (offset -256 puts it at byte 0) reach
every branch of the location arithmetic. Two frame units leave a point inside a
frame at which the menu opens. What data may leave over a header
is two headers in `careful`, with and without the protection flag; in `any` and
`frames` one, with the flag, to make room for the interleavings, for nothing there
depends on the other. The constants are integers as in the code (`wPars`
is cut to 16 bits, `WordValues`).
*Files*: offset 3 is in the middle of a sector, in another cluster than 0, and equals the
number of a sector; a count of 3 from there crosses a cluster and, from the end,
passes it; offset 4 equals the number of the sector that a write past the end leaves waiting
(in `lost` offsets 0 and 3 are enough); B is smaller than a sector, so its first write is in a partial one.
`MaxWritten` = 0 lets a write begin only while the card holds no new byte, so a second
write can start while the first one waits, and no third.
*USB*: four events bring the hub, the hub behind it and a stick, and take one of them
away, or plug, exchange and move; the invariants were also checked with five events
(551 000 states). Four slots are just enough for the four devices that four events can
plug, so an entry that leaks fills the table.
*Menus*: a menu over a menu is the whole hazard of nesting; a third one repeats it. One
save meets every crash point; two saves in a row are covered by the theorem. Settings
and a freezer on the card are left to the theorem, to keep the run short; of a chip whose sectors have
no known size nothing is claimed (`spiflash.c:116` skips the erasure and the write goes on).

Deadlock is checked in `usb` and `menu`. It is not in the drive runs, where a card pulled
unseen leaves the firmware in `mmcReadCached` for ever and a runaway format is a real stop,
nor in `files` and `lost`, where it is the same inside a call and the model ends where a write
has hit the file system.

Fairness:

- `frames`: `WF` on `Transfer`: receiving, and the write after it. While the drive waits
  for data, bytes keep arriving, because the Atari either sends its frame or times out and
  repeats its commands, whose bytes the loop takes for data; while it waits for room to
  send, the UART goes on sending. Nothing is assumed of the menu, which may be opened
  for ever between two bytes, nor of the card, which may be pulled.
- `usb`: the loops of the firmware call `usb_poll` for both ports for ever (`WF` on the
  steps of a poll), a timer that is asked again and again has elapsed in the end, and a
  transfer that is repeated for ever succeeds in the end (`SF` on the reset and the
  configuration of a port, for the request is repeated at each poll of the hub). Nothing
  makes anyone plug anything; `MaxPlugs` ends the plugging.

What the passing runs show.

- *Drives*: menu rows and drives never disagree on files, whatever the order of swaps,
  ejects and mounts; the menu's description is true even of an image overwritten in the
  meantime; a handler gets a null file only if the image's own header was overwritten, or if
  the user changed that drive while the ACK of the command waited to be sent; only the menu
  makes the globals stale; a read-only image is never written. A COMPLETE for a write means
  that all of the data is in the disk addressed, where that disk has the sector, with six
  exceptions, which are true of the code: the user changed that disk since the command came;
  the globals described another disk by then (finding `stale`); an ATX was loaded into the
  buffer while the ACK of the frame waited; there was no file; the disk is an executable or
  an ATX, which have no sectors of their own; the image ends before the sector does. The
  first three take the menu or the card slot. The last three do not, and there the code does
  answer COMPLETE to a write that is not where it should be: `handleWrite` ignores what
  `file_write` returns, and a verify may compare with what happens to be on the stack. Every
  write whose command was acknowledged is answered, unless the card was pulled and the
  firmware waits for it for ever. Used with care, the globals always fit, nothing overruns
  the buffer, a format ends, leaves the header alone and stays inside the file if the header
  claims no more than the file has, and each access is where it should be.
- *Files*: but for the losses that FileStore spells out, the one buffer is invisible: no
  read returns stale bytes, no sector reaches another sector's place, and the handle that is
  taken for open is open.
- *USB*: nothing but the excused events (`past`, section 3: each is a hazard which these
  properties do not catch, as the code does go wrong there) confuses addresses, entries or
  numbers, and without them all that is plugged is configured and stays so.
- *Menus*: the 6502 stands still under a menu until a reset key is pressed in it or a menu
  opened over it is left, for then the code lets it run; memory comes back whole unless a
  hot key was taken in a menu, for then a menu's screen, or a copy that is too old, comes
  back in its place (`menu.c:92`); a cartridge that is on is whole; and a save changes one
  profile only, except that with sectors of 256 KB it erases the PLL's tables behind the
  profiles (`main.h:554` takes that block to be unused, `clkgen/pll2.c:87` reads it).

## 5. Where the code and its documents disagree

Each is a run that expects a violation; `PROJECT.json` quotes the lines.

- `stale`: mounting a disk in D2 makes the next access to D1, the open drive, use
  D2's layout. Reads return other bytes; writes go to a wrong place of the image.
- `protect`: a disk shown as RO and reported as write protected is written:
  `handleWrite` asks for the directory attribute only.
- `format`: a format does not fill with zeros. The first byte of every record is the
  device id, since `clearAtariSectorBuffer` stops before byte 0.
- `xfd`: bit 0 of byte 15 of a headerless image write-protects it.
- `lost`: a seek compares the number of the sector that waits with an offset in bytes
  (`pff_file.c:183`). If they are equal the sector is not flushed, and if the seek
  follows the cluster chain the FAT is read over it. The flush that "is done
  automatically on next read" never happens.
- `core`: leaving the selector of "Program RBD" by escape programs whatever the
  cartridge entry chose before into the part of the flash the FPGA starts from.

One more has no run of its own. An empty root port is to "just remove everything ..."
(`usb.c:705`), but the loop skips entries without a class (`:707`), which a device that no
class accepts, or whose initialisation fails, leaves with an address. They use up the
table. If such a device was on a hub, its entry is also taken for that of the next
device in the same port, and released in place of it: this is why `OneEntryPerPort` excuses
`past.stray`. It came up in the proof, as a case in which the invariant could not be kept; TLC
found the way there with eight plugs of a hub and a device of kind "other".

## 6. Proofs

`tlapm` checks every theorem for every value of the constants that the named
assumptions allow: any `MaxDrives` in 1..4, any set of images, headers, sizes and sectors
(`DriveAssumption`, `ScribbleAssumption`); any handles, files, sizes of file, sector and
cluster, offsets and counts (`FileAssumption`); any number of profiles, cartridges and
cores, any contents of flash and card, menus and saves without a bound that matters
(`FlashAssumption`, `MenuAssumption`); any number of root ports, devices, hubs and entries
(`UsbAssumption`). None of them needs fairness.

**Without discipline** (`DriveEmulator_proofs`). The invariant is
`Inv == TypeOK /\ HeadersKnown /\ Mounts`. `RowsOwnDrives` and `MenuTellsTruth` are
not inductive alone: a drive's density is computed from the header as it is when it
is mounted, and told of the image for as long as it stays, so one needs that a header
that was overwritten differs from the card's by `Scribble` or format only
(`HeadersKnown`) and cannot be accepted as another kind (`AcceptedAlike`), and that
the struct a mounted drive points to still has the path it had when mounted
(`DrivesHold`, part of `Mounts`). `SetDriveStatusHolds` says this for one call of
`set_drive_status`, and each menu step composes it. From `Inv` follow
`TypeCorrect`, `RowsStayTheirDrives`, `MenuStaysTruthful`, `StaleOnlyByMenu`,
`ReadOnlyStaysUnwritten`, and, with `Pending` as a further conjunct,
`CompletedWritesLand` and `NullFileMeansOverwritten`. `Pending` is what is known of a
write that waits: if the disk is still the one asked for, its file can be written or its
header is damaged (`PendingFile`), and if the globals described it when the handler began,
place and length are those of its own layout (`PendingPlace`). That place is computed once,
before the data come, which is why a menu that reloads the globals meanwhile does no harm.

**With care** (`DriveService_proofs`). `CareInv` adds that the globals fit the open
drive, that an image with a header still has it (`ImagesIntact`), that a loader in
the globals comes with the protection flag (`LoaderProtected`, the reason why a
careful Atari never writes at offset -256), that the drive of a command whose ACK waits
still holds the disk it held (`PendingCommand`), and that a pending write starts behind
the header (`PendingFits`). The argument is circular on purpose: globals fit because reloading succeeds,
reloading succeeds because headers are intact, headers are intact because writes go
by globals that fit. It gives `CarefulUseFits`, `BufferNeverOverrun`,
`FileAlwaysThere`, `FormatInsideImage` and `FormatEnds`. Of these `FormatInsideImage`
is the one about the file's real size: the paragraphs formatted are those of the open
drive's own header, and where the header is truthful they are in the file.

**The promise of the drives** (`DiskService_proofs`). `DisksAreServed` is the whole
refinement `CarefulSpec => ServesDisks`. `ServiceInv` adds to `CareInv` that the track
table is the one of an ATX in the open drive (`TableFits`) and that a pending write goes
where the disk it is for keeps the sector (`PendingSector`). `StartsAtLocation` shows that
counting the sectors before one, which is how `HomePlace` says where a sector is, gives
what the handlers compute; `HandlerKeepsDisks` that reloading a header ejects nothing;
after that each handler is a `Serve` or a `NoTouch`, each step of the menu a `Change`.

**The file layer** (`FileLayer_proofs`). `FileInv` is TypeOK, the four invariants and three
conjuncts they need. `PlaceKept`, that pff.c's cluster and sector are those of the position,
is not inductive because `file_write` moves the position behind the library's back: it is
true again only because the next turn of the loop seeks, unless the sector is the one that
waits, whose place is the one kept (`PlaceOfWaiting`), or lies past the end (`PlaceBeyond`).
`WaitingSectorStays` needs that no read is under way while a sector waits
(`CallInProgress`). `LastHandleIsOpen` is carried over a change of cards by
`NamesOnlyWithCard`: while no card is known no handle names a file, so the file that was open
under the old card is never taken for open. The proof is one lemma per call, and for
the two loops one per operator of the library (`Sought`, `ReadOn`), as arithmetic of
clusters. It gives `FileTypes`, `PlaceIsKept`, `WaitingSectorIsSafe`, `CacheIsCoherent`,
`OpenHandleIsOpen`.

**The promise of the file layer** (`FileRefinement_proofs`). `StoreIsKept` is the whole
refinement, for any sizes. What is read is `View(card, cache)`, the card with the cache laid
over it. `From(c, crd)` says that the cache `c` is as it was or was filled from `crd`;
`CachedFrom` to `FetchedFrom` carry it through the operators of the library, and
`SettledView` shows that a flush followed by such a cache leaves the view alone. So there
are three kinds of steps: those that settle (`SettleStep`), those that patch the sector in
the cache, which is the next piece of the open file (`WriteView`, by the arithmetic of
`PieceBytes`) or any one sector (`OverrunView`), and those that lose the cache
(`RestartStore`, `SlipStore`). Besides `FileInv` it needs `LoopInv`: a write that goes on in
the sector that waits finds that sector in the cache, and not the FAT that a seek
without a flush may have put there, because such a seek leaves the position in another sector.

**Menus and flash** (`Menus_proofs`). `MenuInv` adds to the properties: what sort of steps a
job can have (`JobType`); that the place `at` agrees with the stack of menus (`StackInv`); that
while no hot key has been taken in a menu there is at most one menu, the 6502 is paused under it
and `store_mem` holds the machine's own memory, that with no menu open memory is
then its own, and that under any menu the 6502 is paused until it is let go (`MachineInv`); that a core which a job will still read back
into `CARTRIDGE_MEM` is known to overwrite the cartridge (`CartInv`); and, for the flash,
`FlashInv`, which follows each item through the steps of the job that are left:
`Lands(steps, i, v, want)` says that an item with contents `v` ends up as `want`, because
every step that writes it writes `want`, over `want` or over what a step before has
erased, and because whatever is erased is written later. `LandsStep` carries this over one step
of the chip, and `SaveJobLands` and `RpdJobLands` show that it holds when a job is made: for an erasure
of more than 192 KB only the PLL's tables are lost. From it follow `MenuTypes`,
`MenuPausesMachine`, `MachineResumes`, `CartridgeIsFile` and `FlashIsKept`.

**The USB host** (`UsbHost_proofs`). `Inv` adds to TypeOK and `SticksNumbered` where
`usb_poll` is (`PcInv`) and that only a used entry of the HID class has numbers, at most
`MAX_IFACES` (`NumbersInv`): an entry may still stand on the stack of a release after it
was released, and a second release must find nothing to take back. The numbers are
treated as a function of the entries (`Stick`, `Number`, `Numbered`), so that the four
ways they change are four lemmas about it: `NumbersGiven` (up to two interfaces at once,
counted one by one), `NumberTakenBack` (one goes, those above move down),
`NumbersRotated`, and `NumbersLost` (a failed initialisation, which `past.leaked`
counts). From `Inv` follow `TypeCorrect` and `SticksStayNumbered`.

**Hubs and resets** (`UsbWiring_proofs`). The four other invariants of UsbHost relate the
tables of the firmware to what is plugged. `Related` adds four parts to `Inv`, which are
proved together, action by action (`NextRelated`):

- `WiringInv`: a device is in one socket; a hub has power only if it has an address and
  every port up to it is enabled; what is in a root port that does not run has no address. So
  when a hub loses its power nothing below it keeps power (`BelowUnpowered`; `Below` is the
  least set closed under the wiring, and `BelowLeast` is all of it that is needed), and on
  a bus that is not running nobody answers (`NoneAnswers`).
- `EntriesInv`: entries of a class have a parent that is a hub of the same host
  (`HubsKept`), except on a bus that is just being cleared, where `Initialize` takes
  entries in the order of the table, hubs first. That a release is complete needs that
  entries are not below one another in a circle. `Grounded` says so without recursion: any
  set of them has one whose parent is outside. The entries on the stack of a release are a
  line that ends below the hub polled (`StackInv`), so an entry without kids can be freed without
  making an orphan, and the hub polled is never freed under its own poll (`KidBelow`).
- `ResetInv`, while nothing lapsed: of all ports of all hubs at most one is between its
  reset and its configuration (`Resetting`, `OneReset`), and then the flag is set. A device
  in a port listens to address 0 only there; one in a root port only while no hub there
  has power. It needs that a configured hub has power (`ConfiguredPowered`), that ports without
  power are quiet, and that the bits of a port agree with its socket (`PortBits`).
- `ListInv`, while no exchange went unseen: an entry below a hub that is still configured
  is that of the device in its port, or the port is empty and the hub still has that to
  report, or the entry is at the bottom of the stack of the release (`Shows`). So when a
  port is configured no other entry stands for it.

From them follow `OneListensToZero`, `FlagMeansReset`, `EntriesStayBelowHubs` and
`OneEntryStays`. The excuses `lapse`, `swapped` and `stray` are premises of the properties
themselves, each a hazard at its line; `WiringInv` and `EntriesInv` have none.

**Only model-checked**: the liveness properties `WriteAnswered` and `PluggedIsServed`.
Liveness under fairness is out of the prover's reach, and so are the values of recursive
definitions. Every safety property of a passing run is a theorem.

## 7. Not modelled, and what is left

Not modelled, and why:

- the SPI protocol of the card (`mmc2.c`): errors inside a sector are timing and bytes on
  a wire; FileLayer reads a sector or hangs;
- FAT and directory contents, long names, `sort_ll`: data, without interleaving;
- the search for a sector in `atx.c`: arithmetic of head timing, which depends on the
  hardware's timer;
- `hidparser.c`, key maps, video tables, PLL settings: pure tables and parsers;
- `FW/mist`, `FW/5200`, `firmware_legacy`, the SoCKit's Linux wrappers: other or older
  builds of the same ideas;
- board top levels, vendor IP and chip replacements in VHDL and Verilog: wiring and
  clocked data paths; the Atari core and the ZPU are in a submodule that is not there.
  Most of the tree's lines are of this sort.

Left to do, most useful first: DriveEmulator on top of FileStore instead of whole files;
the sector search of `atx.c` against a reference definition; the timer's wrap and the
counts of the PERCOM block as pure functions; the file cache of the MiST port.

## 8. Running

`tlc -config drive_any.cfg MCDrive` and so on: `drive_*.cfg` with `MCDrive`, `files.cfg` and
`lost.cfg` with `MCFiles`, `usb.cfg` with `MCUsb`, `menu.cfg` and `core.cfg` with `MCMenu`;
`tlapm M.tla` for the eight modules `M` that end in `_proofs`. The longest
run takes about two minutes, each proof a few minutes at most. Definitions whose name
ends in `Mutant` are mistakes one could make in the code; `PROJECT.json` pairs each with the property that notices it.
