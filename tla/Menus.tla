------------------------------- MODULE Menus -------------------------------
(***************************************************************************)
(* The hot keys, the freezer, the menus and the start of the firmware:     *)
(* actions() and the menus of a800/mainmenu.c, display_menu (menu.c),      *)
(* freeze and restore (a800/freeze.c), reboot and the settings (main.h),   *)
(* load_car (cartridge.c).  The disk entries are in DiskService.           *)
(*                                                                         *)
(* One thread runs all of it.  A menu is opened by actions() and calls     *)
(* actions() itself each time that its user does something, so the calls   *)
(* under way are a stack.  The 6502 runs beside it unless it is paused.    *)
(* The card may be pulled and power may go at any moment.                  *)
(*                                                                         *)
(* What the memory and the chips hold is told apart by age only: "own", as *)
(* the running machine left it last; "old", from before; "menu", what a    *)
(* menu drew.                                                              *)
(***************************************************************************)
EXTENDS FlashProfiles

CONSTANTS
  NoFile,
  Car, Rpd,        \* the cartridge images and the cores on the card
  Short,           \* the cartridge images that end early
  Os, Other,       \* the ROMs; the settings but for the bits that load_settings keeps
  CardOs, CardOther, CardFreezer, \* what the ROM, settings and freezer files of the card come to
  MaxDepth,        \* bound: menus on menus
  MaxSaves         \* bound: how often a profile is saved or a core programmed

\* What is four long in the flash is a word of settings.
SettingsWord == BOOLEAN \X BOOLEAN \X ({"off"} \cup Car) \X (Other \cup {"junk"})

ASSUME MenuAssumption ==
  /\ NoFile \notin Car \cup Rpd /\ Car \cap Rpd = {} /\ Short \subseteq Car
  /\ CardOs \subseteq Os /\ CardOther \subseteq Other /\ CardFreezer \subseteq BOOLEAN
  /\ Factory = [i \in Item |-> Factory[i]]
  /\ \A v \in Os \cup {Factory[i] : i \in Item} : Len(v) = 4 => v \in SettingsWord
  /\ MaxDepth \in Nat /\ MaxSaves \in Nat

VARIABLES
  out,             \* zpu_out1 and zpu_out6: [paused, freezer, cart, other]
  ram, chips,      \* of the Atari
  rom,             \* os_addr(), a contents of the flash
  cartmem,         \* CARTRIDGE_MEM
  store,           \* store_mem: [ram, chips]
  freezer_rom_present,
  card,            \* a card is in
  sd_present, sel_profile,
  file4,           \* files[4]: [name, done], done: read to the end
  menus,           \* the menus open, the innermost first
  at,              \* where the innermost is
  past             \* [saves, released, disturbed, overwritten, kept]: see the actions
                   \* that set them

machine == <<out, ram, chips, rom, cartmem>>
firmware == <<store, freezer_rom_present, sd_present, sel_profile, file4>>
vars == <<machine, firmware, card, menus, at, past, flashVars>>

File == Car \cup Rpd

Older(x) == IF x = "own" THEN "old" ELSE x
Aged(s) == [ram |-> Older(s.ram), chips |-> Older(s.chips)]

-----------------------------------------------------------------------------
(* The machine.                                                            *)

\* The 6502 runs: what it leaves is its own, and all copies are old.
Run ==
  /\ ~out.paused
  /\ ram' = "own" /\ chips' = "own" /\ store' = Aged(store)
  /\ past' = [past EXCEPT !.disturbed = @ /\ menus # <<>>]
  /\ UNCHANGED <<out, rom, cartmem, freezer_rom_present, sd_present, sel_profile, file4, card,
                 menus, at, flashVars>>

\* reboot: after a cold start the machine sets up all of its memory.
Reboot(cold) ==
  /\ out' = [out EXCEPT !.paused = FALSE, !.freezer = IF cold THEN freezer_rom_present ELSE @]
  /\ chips' = "own"
  /\ ram' = IF cold THEN "own" ELSE ram
  /\ store' = Aged(store)

\* freeze, and the menu that is drawn then
FreezeMutant ==
  /\ store' = [ram |-> ram, chips |-> store.chips]
  /\ ram' = "menu" /\ chips' = "menu"
Freeze ==
  /\ store' = [ram |-> ram, chips |-> chips]
  /\ ram' = "menu" /\ chips' = "menu"

\* load_settings, whose mask keeps the bits of the running machine
MaskedMutant(o, v) ==
  IF Len(v) = 4 THEN [paused |-> v[1], freezer |-> v[2], cart |-> v[3], other |-> v[4]]
  ELSE [o EXCEPT !.other = "junk"]
ShortMaskMutant(o, v) ==
  [o EXCEPT !.cart = IF Len(v) = 4 THEN v[3] ELSE "junk", !.other = IF Len(v) = 4 THEN v[4] ELSE "junk"]
Masked(o, v) == [o EXCEPT !.other = IF Len(v) = 4 THEN v[4] ELSE "junk"]

Settings == <<out.paused, out.freezer, out.cart, out.other>>

\* What main() and mainmenu() may come to: profile 0, then the card's files
FromFlash == Masked([paused |-> TRUE, freezer |-> FALSE, cart |-> "off", other |-> "junk"],
                    flash[SettingsAt(0)])
IfPresent(present, S) == IF present THEN S ELSE {}
Booted(present, o, r, f) ==
  /\ f \in {TRUE} \cup IfPresent(present, CardFreezer)
  /\ r \in {flash[OsAt(0)]} \cup IfPresent(present, CardOs)
  /\ \E x \in {FromFlash.other} \cup IfPresent(present, CardOther) :
       o = [paused |-> FALSE, freezer |-> f, cart |-> FromFlash.cart, other |-> x]

Unread == [name |-> NoFile, done |-> FALSE]

Init ==
  /\ FlashInit
  /\ card \in BOOLEAN /\ sd_present \in {FALSE, card}
  /\ Booted(sd_present, out, rom, freezer_rom_present)
  /\ ram = "own" /\ chips = "own" /\ store = [ram |-> "old", chips |-> "old"]
  /\ cartmem = NoFile /\ file4 = Unread /\ sel_profile = 1
  /\ menus = <<>> /\ at = "loop"
  /\ past = [saves |-> 0, released |-> TRUE, disturbed |-> FALSE, overwritten |-> FALSE,
             kept |-> Factory]

\* Power goes and comes back.  What it leaves in the flash is all that can be
\* kept.
PowerLoss ==
  /\ sd_present' \in {FALSE, card}
  /\ Booted(sd_present', out', rom', freezer_rom_present')
  /\ ram' = "own" /\ chips' = "own" /\ store' = [ram |-> "old", chips |-> "old"]
  /\ cartmem' = NoFile /\ file4' = Unread /\ sel_profile' = 1
  /\ menus' = <<>> /\ at' = "loop" /\ job' = <<>>
  /\ past' = [past EXCEPT !.released = TRUE, !.disturbed = FALSE, !.overwritten = FALSE,
                          !.kept = IF job = <<>> THEN @ ELSE flash]
  /\ UNCHANGED <<card, flash, sector>>

MoveCard ==
  /\ card' = ~card
  /\ UNCHANGED <<machine, firmware, menus, at, past, flashVars>>

-----------------------------------------------------------------------------
(* actions(), called from the main loop and from every menu.               *)

Acting == at \in {"loop", "actions"}
Proceed == at' = IF at = "actions" THEN "entry" ELSE at

\* The card is looked at first: a new one may be unreadable; without one all
\* files are forgotten.
CardSeen ==
  /\ sd_present' \in IF card /\ ~sd_present THEN BOOLEAN ELSE {card}
  /\ file4' = IF sd_present /\ ~card THEN Unread ELSE file4

NoHotkey ==
  /\ Acting /\ CardSeen /\ Proceed
  /\ UNCHANGED <<machine, store, freezer_rom_present, card, sel_profile, menus, past, flashVars>>

\* past.released: the 6502 was let go since a menu was last opened.
\* past.disturbed: a hot key was taken in a menu, and since then the machine
\* has neither run without a menu nor been started there from cold.
SoftBoot ==
  /\ Acting /\ CardSeen /\ Proceed
  /\ Reboot(FALSE)
  /\ past' = [past EXCEPT !.released = TRUE, !.disturbed = @ \/ menus # <<>>]
  /\ UNCHANGED <<rom, cartmem, freezer_rom_present, card, sel_profile, menus, flashVars>>

ColdBoot ==
  /\ Acting /\ CardSeen /\ Proceed
  /\ Reboot(TRUE)
  /\ past' = [past EXCEPT !.released = TRUE, !.disturbed = menus # <<>>]
  /\ UNCHANGED <<rom, cartmem, freezer_rom_present, card, sel_profile, menus, flashVars>>

\* A menu opens, over the machine or over another menu.
Enter(menu) ==
  /\ Acting /\ CardSeen /\ Len(menus) < MaxDepth
  /\ out' = [out EXCEPT !.paused = TRUE, !.freezer = FALSE]
  /\ Freeze
  /\ menus' = <<menu>> \o menus /\ at' = "wait"
  /\ past' = [past EXCEPT !.released = FALSE, !.disturbed = @ \/ menus # <<>>]
  /\ UNCHANGED <<rom, cartmem, freezer_rom_present, card, sel_profile, flashVars>>

\* display_menu has returned: restore, and on with what called actions()
Leave ==
  /\ menus' = Tail(menus)
  /\ at' = IF Len(menus) = 1 THEN "loop" ELSE "entry"
Resume ==
  /\ Leave
  /\ ram' = store.ram /\ chips' = store.chips
  /\ out' = [out EXCEPT !.paused = FALSE, !.freezer = freezer_rom_present]
  /\ past' = [past EXCEPT !.released = TRUE]
  /\ UNCHANGED <<rom, cartmem, firmware, card, flashVars>>

-----------------------------------------------------------------------------
(* The menus.                                                              *)

In(menu, place) == menus # <<>> /\ Head(menus) = menu /\ at = place

\* Something was pressed: escape, or something for actions() and the entry
Escape == at = "wait" /\ Resume
Wake ==
  /\ at = "wait" /\ at' = "actions"
  /\ UNCHANGED <<machine, firmware, card, menus, past, flashVars>>

Exit == at = "entry" /\ Resume

\* The entries that change nothing here: the disks, the joysticks, the settings
\* file on the card
OtherEntry ==
  /\ at = "entry" /\ at' = "wait"
  /\ UNCHANGED <<machine, firmware, card, menus, past, flashVars>>

\* file_selector: a file of the kind that the filter lets through, or the file
\* as it was if the user escapes or no card is present
Selected(kind) ==
  {file4} \cup {[name |-> f, done |-> FALSE] : f \in IF sd_present THEN kind ELSE {}}

Readable == sd_present => card

\* The firmware waits for ever for a card that was pulled to answer: most entries
\* and keys read it, a profile too (dir_entries in load_roms), whether or not
\* sd_present has been told.
Hang ==
  /\ ~card
  /\ at \in {"wait", "entry"} \/ (at = "flash" /\ Head(job).op = "read")
  /\ at' = "hung"
  /\ UNCHANGED <<machine, firmware, card, menus, past, flashVars>>

\* load_car: the kind of cartridge; it reads on from where the file is.
LoadCarMutant(f) == IF f.name \notin Car \/ f.done THEN "off" ELSE f.name
LoadCar(f) == IF f.name \notin Car \ Short \/ f.done THEN "off" ELSE f.name

\* menuCart to the right; past.overwritten: a core went through CARTRIDGE_MEM
\* since.
InsertCart ==
  /\ Readable
  /\ \E f \in Selected(Car) :
       /\ file4' = [f EXCEPT !.done = @ \/ f.name # NoFile]
       /\ out' = [out EXCEPT !.cart = LoadCar(f)]
       /\ cartmem' = IF f.name \notin Car \/ f.done THEN cartmem
                     ELSE IF f.name \in Short THEN NoFile ELSE f.name
  /\ past' = [past EXCEPT !.overwritten = FALSE]
  /\ UNCHANGED <<rom, freezer_rom_present, sd_present, sel_profile, card, flashVars>>

\* menuCart to the left
RemoveCart ==
  /\ file4' = Unread /\ out' = [out EXCEPT !.cart = "off"]
  /\ UNCHANGED <<rom, cartmem, freezer_rom_present, sd_present, sel_profile, card, past, flashVars>>

\* The entry needs a card.  With a cartridge in, the menu returns 1: restore
\* and a cold start, which a menu below undoes in part when it restores.
CartEntry ==
  /\ In("devices", "entry") /\ sd_present
  /\ \/ /\ InsertCart /\ out'.cart = "off"
        /\ at' = "wait" /\ UNCHANGED <<ram, chips, store, menus>>
     \/ /\ RemoveCart
        /\ at' = "wait" /\ UNCHANGED <<ram, chips, store, menus>>

CartStart ==
  /\ In("devices", "entry") /\ sd_present /\ Readable
  /\ \E f \in Selected(Car) :
       /\ LoadCar(f) # "off"
       /\ file4' = [f EXCEPT !.done = TRUE]
       /\ cartmem' = f.name
       /\ out' = [paused |-> FALSE, freezer |-> freezer_rom_present, cart |-> LoadCar(f),
                  other |-> out.other]
  /\ ram' = "own" /\ chips' = "own" /\ store' = Aged(store)
  /\ Leave
  /\ past' = [past EXCEPT !.overwritten = FALSE, !.released = TRUE, !.disturbed = @ /\ Len(menus) > 1]
  /\ UNCHANGED <<rom, freezer_rom_present, sd_present, sel_profile, card, flashVars>>

\* Key C calls menuCart with no joystick: the byte at address 0 says what to do,
\* and what it returns is not looked at.
CartKey ==
  /\ In("devices", "wait") /\ at' = "actions"
  /\ InsertCart \/ RemoveCart
  /\ UNCHANGED <<ram, chips, store, menus>>

ChangeSetting ==
  /\ menus # <<>> /\ Head(menus) = "settings"
  /\ \/ at = "wait" /\ at' = "actions"
     \/ at = "entry" /\ at' = "wait"
  /\ \E x \in Other : out' = [out EXCEPT !.other = x]
  /\ UNCHANGED <<ram, chips, rom, cartmem, firmware, card, menus, past, flashVars>>

\* menuOS: a ROM of a size that loadosrom knows, or none
ChangeOs ==
  /\ In("settings", "entry") /\ at' = "wait" /\ Readable
  /\ sd_present /\ rom' \in Os
  /\ UNCHANGED <<out, ram, chips, cartmem, firmware, card, menus, past, flashVars>>

SelectProfile ==
  /\ In("settings", "entry") /\ at' = "wait"
  /\ sel_profile' \in 1 .. NbrProfiles
  /\ UNCHANGED <<machine, store, freezer_rom_present, sd_present, file4, card, menus, past, flashVars>>

\* menuProfileLoad of profile p: load_roms, load_settings
ProfileLoaded(p) ==
  /\ rom' = flash[OsAt(p - 1)]
  /\ freezer_rom_present' = TRUE
  /\ out' = [Masked(out, flash[SettingsAt(p - 1)]) EXCEPT !.freezer = TRUE]
  /\ UNCHANGED <<ram, chips, cartmem, store, sd_present, file4, card, menus, past, flashVars>>
LoadProfile ==
  /\ In("settings", "entry") /\ at' = "wait"
  /\ ProfileLoaded(sel_profile) /\ UNCHANGED sel_profile
ProfileKey ==
  /\ In("settings", "wait") /\ at' = "actions"
  /\ sel_profile' \in 1 .. NbrProfiles /\ ProfileLoaded(sel_profile')

\* menuSaveFlash; past.kept: what the flash should hold
SaveFlash ==
  /\ In("settings", "entry") /\ past.saves < MaxSaves
  /\ job' = SaveJob(sel_profile - 1, Settings, rom) /\ at' = "flash"
  /\ past' = [past EXCEPT !.saves = @ + 1, !.kept[SettingsAt(sel_profile - 1)] = Settings,
                          !.kept[OsAt(sel_profile - 1)] = rom]
  /\ UNCHANGED <<machine, firmware, card, menus, flash, sector>>

\* menuProgramRBD: whatever the selector leaves in files[4] is flashed; an empty
\* file does nothing.
ProgramRBD ==
  /\ In("settings", "entry") /\ sd_present /\ Readable
  /\ \E f \in Selected(Rpd) :
       /\ f.name # NoFile /\ past.saves < MaxSaves
       /\ file4' = [f EXCEPT !.done = TRUE]
       /\ job' = RpdJob(f.name) /\ at' = "flash"
       /\ past' = [past EXCEPT !.saves = @ + 1, !.overwritten = TRUE,
                     !.kept = [i \in Item |-> IF i \in CoreChunk THEN <<f.name>> ELSE @[i]]]
  /\ UNCHANGED <<machine, store, freezer_rom_present, sd_present, sel_profile, card, menus,
                 flash, sector>>

\* flash_rpd reads each chunk back into CARTRIDGE_MEM.
IsCoreWrite(step) == step.op = "write" /\ DOMAIN step.contents \subseteq CoreChunk
Flash ==
  /\ at = "flash" /\ FlashStep
  /\ Head(job).op = "read" => Readable
  /\ at' = IF job' = <<>> THEN "wait" ELSE "flash"
  /\ cartmem' = IF IsCoreWrite(Head(job)) THEN NoFile ELSE cartmem
  /\ UNCHANGED <<out, ram, chips, rom, firmware, card, menus, past>>

Next ==
  \/ Run \/ PowerLoss \/ MoveCard
  \/ NoHotkey \/ SoftBoot \/ ColdBoot \/ \E menu \in {"devices", "settings"} : Enter(menu)
  \/ Escape \/ Wake \/ Exit \/ OtherEntry \/ Hang
  \/ CartEntry \/ CartStart \/ CartKey
  \/ ChangeSetting \/ ChangeOs \/ SelectProfile \/ LoadProfile \/ ProfileKey
  \/ SaveFlash \/ ProgramRBD \/ Flash

Spec == Init /\ [][Next]_vars

-----------------------------------------------------------------------------
(* Properties.                                                             *)

Age == {"own", "old", "menu"}
Contents == {Erased, Mixed} \cup SettingsWord \cup Os \cup {<<f>> : f \in File}
              \cup {Factory[i] : i \in Item}
OutSet == [paused : BOOLEAN, freezer : BOOLEAN, cart : {"off"} \cup Car, other : Other \cup {"junk"}]
FileSet == [name : File \cup {NoFile}, done : BOOLEAN]
PastSet == [saves : 0 .. MaxSaves, released : BOOLEAN, disturbed : BOOLEAN, overwritten : BOOLEAN,
            kept : [Item -> Contents]]

\* The type invariant: what each register, file and part of the flash may hold.
\* A profile that a loss of power left erased never selects a kind of cartridge
\* that there is not (the mask of load_settings).
TypeOK ==
  /\ out \in OutSet
  /\ ram \in Age /\ chips \in Age /\ store \in [ram : Age, chips : Age]
  /\ rom \in Contents /\ cartmem \in Car \cup {NoFile}
  /\ freezer_rom_present \in BOOLEAN /\ card \in BOOLEAN /\ sd_present \in BOOLEAN
  /\ sel_profile \in 1 .. NbrProfiles
  /\ file4 \in FileSet
  /\ menus \in Seq({"devices", "settings"})
  /\ at \in {"loop", "wait", "actions", "entry", "flash", "hung"}
  /\ past \in PastSet
  /\ flash \in [Item -> Contents] /\ sector \in SectorBlocks

\* In a menu the 6502 stands still, whatever is chosen there: a profile loaded,
\* a cartridge taken out, the flash written.  There are two exceptions, in which
\* actions() has let it go although the menu is still open: a reset key was
\* pressed in it, or a menu that was opened over it was left (menu.c:92).
PausedInMenu == menus # <<>> /\ ~past.released => out.paused

\* Once the menus are left, the machine goes on with its own memory and chips,
\* not with what a menu drew nor with an earlier copy (freeze, restore).  The
\* exception is a hot key that was taken in a menu: a second menu saves the
\* first one's screen over the machine's memory, and a reset lets the machine
\* run before the copy is put back.  It holds again once the machine has run
\* without a menu, on what it got, or is started there from cold.
ResumesIntact == at = "loop" /\ ~past.disturbed => ram = "own" /\ chips = "own"

\* A cartridge that is switched on is whole in CARTRIDGE_MEM, and is the file
\* that the menu names, if it names one: until a core is read back there.
CartIsFile ==
  out.cart # "off" /\ ~past.overwritten => cartmem = out.cart /\ file4.name \in {out.cart, NoFile}

\* When the flash is not being written, it holds what was last saved in each
\* profile, the freezer and the core, or what a loss of power left, although
\* all profiles are erased each time; but for the tables of clkgen/pll2.c if
\* sectors are of 256 KB, and if the chip is of a kind that is known.
FlashKept ==
  job = <<>> /\ sector # 0 =>
    \A i \in Item : flash[i] # past.kept[i] => i = PllTables /\ sector = 4

\* "Flashing core" (mainmenu.c:136), of files of type RPD (1121): the part of
\* the flash that the FPGA starts from never holds a file of another type.
OnlyCoresFlashed == \A i \in CoreChunk, f \in Car : flash[i] # <<f>>
=============================================================================
