--------------------------- MODULE FlashProfiles ---------------------------
(***************************************************************************)
(* The flash chip of the board, with the core of the FPGA and, from        *)
(* romstart on, the ROMs and settings of the profiles (spiflash.c,         *)
(* save_settings in main.h and flash_rpd, for the EclaireXL, where         *)
(* romstart is aligned).                                                   *)
(*                                                                         *)
(* Only whole sectors can be erased and only erased bytes can be written,  *)
(* so the firmware reads 192 KB, erases them and writes them back.         *)
(***************************************************************************)
EXTENDS Integers, Sequences

CONSTANTS
  NbrProfiles,
  Factory,         \* what the board came with: Item -> contents
  SectorBlocks     \* sizes that a sector may have, in blocks of 64 KB; 0, an id that is not known

Profile == 0 .. NbrProfiles - 1

\* What the flash holds, and the block that it is in, counted from romstart.
\* BASIC is left out: it goes with the settings.
SettingsAt(p) == <<"settings", p>>
OsAt(p)       == <<"os", p>>
FreezerRom    == <<"freezer", 0>>
PllTables     == <<"pll", 0>>         \* what clkgen/pll2.c reads
CoreChunk     == {<<"core", 0>>, <<"core", 1>>}
Item == {SettingsAt(p) : p \in Profile} \cup {OsAt(p) : p \in Profile}
          \cup {FreezerRom, PllTables} \cup CoreChunk
Block(item) == CASE item[1] = "settings" -> 0 [] item[1] = "os" -> 1 [] item[1] = "freezer" -> 2
                 [] item[1] = "pll" -> 3 [] item[1] = "core" -> 4 * item[2] - 8

\* Contents are tuples; a word of settings is <<paused, freezer, cart, other>>.
Erased == <<>>
Mixed  == <<"mixed">>

ASSUME FlashAssumption == NbrProfiles \in Nat \ {0} /\ SectorBlocks \subseteq {0, 1, 4}

VARIABLES
  flash,           \* Item -> contents
  sector,          \* the size of a sector of this chip, in SectorBlocks
  job              \* what save_settings or flash_rpd has still to do

flashVars == <<flash, sector, job>>

ReadFile == [op |-> "read"]
Erase(blocks) == [op |-> "erase", blocks |-> blocks]
Write(contents) == [op |-> "write", contents |-> contents]

\* eraseFlash from a block on, for a number of blocks: as many sectors as it
\* takes; none if the size of a sector is not known.
EraseFlash(first, number) ==
  Erase(IF sector = 0 THEN {}
        ELSE first .. first + sector * ((number + sector - 1) \div sector) - 1)

\* save_settings: the region as it was read, but for profile p.
Region == {i \in Item : Block(i) \in 0 .. 2}
Changed(p, settings, os) == [flash EXCEPT ![SettingsAt(p)] = settings, ![OsAt(p)] = os]
SaveJobMutant(p, settings, os) ==
  <<EraseFlash(0, 3), Write([i \in {SettingsAt(p), OsAt(p)} |-> Changed(p, settings, os)[i]])>>

SaveJob(p, settings, os) ==
  <<EraseFlash(0, 3), Write([i \in Region |-> Changed(p, settings, os)[i]])>>

\* flash_rpd of a file of two chunks
EraseChunk(k) == EraseFlash(4 * k - 8, 4)
WriteChunk(k, file) == Write([i \in {<<"core", k>>} |-> <<file>>])
RpdJob(file) == <<ReadFile, EraseChunk(0), WriteChunk(0, file),
                  ReadFile, EraseChunk(1), WriteChunk(1, file)>>

\* What is in the chip once contents were written over old
Programmed(old, contents) ==
  IF old = Erased \/ old = contents THEN contents
  ELSE IF contents = Erased THEN old ELSE Mixed

\* What a step of a job makes of an item of the flash
After(step, i) ==
  CASE step.op = "read" -> flash[i]
    [] step.op = "erase" -> IF Block(i) \in step.blocks THEN Erased ELSE flash[i]
    [] step.op = "write" -> IF i \in DOMAIN step.contents
                            THEN Programmed(flash[i], step.contents[i]) ELSE flash[i]

FlashInit ==
  /\ flash = Factory
  /\ sector \in SectorBlocks
  /\ job = <<>>

\* One erasure or write of the chip, all its sectors or pages, to its end, or a
\* chunk read from the card.  The wait for the chip is taken to end: its loop
\* ends only when the whole status register is 0.
FlashStep ==
  /\ job # <<>>
  /\ flash' = [i \in Item |-> After(Head(job), i)]
  /\ job' = Tail(job)
  /\ UNCHANGED sector
=============================================================================
