---------------------------- MODULE Menus_proofs ----------------------------
(***************************************************************************)
(* Theorems about Menus, for any number of profiles, of files and of menus *)
(* on menus, and for the three sizes of sector.                            *)
(*                                                                         *)
(* The invariant has four parts: what the stack of menus says of at, the   *)
(* copies of the machine (MachineInv), the cartridge (CartInv) and the     *)
(* flash (FlashInv), where an item is followed through what is still to be *)
(* erased and written.                                                     *)
(***************************************************************************)
EXTENDS Menus, SequenceTheorems, TLAPS

LEMMA TailOfStack ==
  ASSUME NEW S, NEW s \in Seq(S), s # <<>>
  PROVE  /\ Tail(s) \in Seq(S) /\ Len(Tail(s)) = Len(s) - 1 /\ Len(s) \in Nat \ {0}
         /\ Head(s) \in S
         /\ \A k \in 1 .. Len(s) - 1 : Tail(s)[k] = s[k + 1]
         /\ Head(s) = s[1]
  OBVIOUS

-----------------------------------------------------------------------------
(* What the operators return.                                              *)

LEMMA FactoryType == Factory \in [Item -> Contents]
BY MenuAssumption DEF Contents

LEMMA SettingsType == ASSUME out \in OutSet PROVE Settings \in SettingsWord /\ Settings \in Contents
BY DEF OutSet, Settings, SettingsWord, Contents

LEMMA MaskedType ==
  ASSUME NEW o \in OutSet, NEW v \in Contents
  PROVE  Masked(o, v) \in OutSet /\ \A fld \in {"paused", "freezer", "cart"} : Masked(o, v)[fld] = o[fld]
<1>1. Len(v) = 4 => v \in SettingsWord
  <2>1. CASE v \in {Erased, Mixed}
    <3>1. Len(Erased) = 0 /\ Len(Mixed) = 1
      BY DEF Erased, Mixed
    <3>2. Len(v) \in {0, 1}
      BY <2>1, <3>1
    <3> QED BY <3>2
  <2>2. CASE v \in {<<f>> : f \in File}
    <3>1. Len(v) = 1
      BY <2>2
    <3> QED BY <3>1
  <2>3. CASE v \in Os \cup {Factory[i] : i \in Item} BY <2>3, MenuAssumption
  <2> QED BY <2>1, <2>2, <2>3 DEF Contents
<1>2. v \in SettingsWord => v[4] \in Other \cup {"junk"}
  BY DEF SettingsWord
<1> DEFINE x == IF Len(v) = 4 THEN v[4] ELSE "junk"
<1>3. x \in Other \cup {"junk"}
  BY <1>1, <1>2
<1>4. Masked(o, v) = [o EXCEPT !.other = x]
  BY DEF Masked
<1> HIDE DEF x
<1> QED BY <1>3, <1>4 DEF OutSet

LEMMA BootedType ==
  ASSUME flash \in [Item -> Contents], NEW present \in BOOLEAN, NEW o, NEW r, NEW f,
         Booted(present, o, r, f)
  PROVE  /\ o \in OutSet /\ r \in Contents /\ f \in BOOLEAN
         /\ ~o.paused /\ o.cart = "off"
<1> DEFINE m == [paused |-> TRUE, freezer |-> FALSE, cart |-> "off", other |-> "junk"]
<1>1. SettingsAt(0) \in Item /\ OsAt(0) \in Item
  BY FlashAssumption DEF Item, Profile
<1>2. m \in OutSet
  BY DEF OutSet
<1>3. FromFlash \in OutSet /\ FromFlash.cart = "off"
  BY <1>1, <1>2, MaskedType DEF FromFlash
<1>4. f \in BOOLEAN
  BY MenuAssumption DEF Booted, IfPresent
<1>5. r \in Contents
  BY <1>1, MenuAssumption DEF Booted, IfPresent, Contents
<1>6. PICK x \in {FromFlash.other} \cup IfPresent(present, CardOther) :
         o = [paused |-> FALSE, freezer |-> f, cart |-> FromFlash.cart, other |-> x]
  BY DEF Booted
<1>7. x \in Other \cup {"junk"}
  BY <1>3, MenuAssumption DEF OutSet, IfPresent
<1> QED BY <1>3, <1>4, <1>5, <1>6, <1>7 DEF OutSet

LEMMA ProgrammedType ==
  ASSUME NEW old \in Contents, NEW c \in Contents PROVE Programmed(old, c) \in Contents
BY Zenon DEF Programmed, Contents

LEMMA SelectedType ==
  ASSUME file4 \in FileSet, NEW kind \in {Car, Rpd}, NEW f \in Selected(kind)
  PROVE  f \in FileSet /\ (f = file4 \/ (~f.done /\ f.name \in kind))
<1>1. f = file4 \/ \E x \in kind : f = [name |-> x, done |-> FALSE]
  BY Zenon DEF Selected
<1>2. kind \subseteq File
  BY DEF File
<1>3. CASE f = file4 BY <1>3
<1>4. CASE f # file4
  <2>1. PICK x \in kind : f = [name |-> x, done |-> FALSE]
    BY <1>1, <1>4
  <2> QED BY <1>2, <2>1 DEF FileSet
<1> QED BY <1>3, <1>4

LEMMA LoadCarType ==
  ASSUME NEW f \in FileSet PROVE LoadCar(f) \in {"off"} \cup Car
BY DEF LoadCar

-----------------------------------------------------------------------------
(* The stack of menus.                                                     *)

\* There is a menu open but in the main loop, and the flash is written from one.
StackInv ==
  /\ menus \in Seq({"devices", "settings"})
  /\ at = "loop" <=> menus = <<>>
  /\ job # <<>> => at \in {"flash", "hung"}

LEMMA PushMenu ==
  ASSUME NEW m \in {"devices", "settings"}, NEW s \in Seq({"devices", "settings"})
  PROVE  /\ <<m>> \o s \in Seq({"devices", "settings"}) /\ <<m>> \o s # <<>>
         /\ Len(<<m>> \o s) = Len(s) + 1
  OBVIOUS

LEMMA StackStep == ASSUME StackInv, [Next]_vars PROVE StackInv'
<1>s. ASSUME menus # <<>>
      PROVE  /\ Tail(menus) \in Seq({"devices", "settings"})
             /\ Tail(menus) = <<>> <=> Len(menus) = 1
  <2>1. Tail(menus) \in Seq({"devices", "settings"}) /\ Len(Tail(menus)) = Len(menus) - 1
    BY <1>s, TailOfStack DEF StackInv
  <2>2. Tail(menus) = <<>> <=> Len(Tail(menus)) = 0
    BY <2>1, EmptySeq
  <2> QED BY <2>1, <2>2 DEF StackInv
<1> USE DEF StackInv
<1>1. CASE Run BY <1>1 DEF Run, Acting, machine, firmware, flashVars
<1>2. CASE PowerLoss BY <1>2 DEF PowerLoss, Acting, machine, firmware, flashVars
<1>3. CASE MoveCard BY <1>3 DEF MoveCard, Acting, machine, firmware, flashVars
<1>4. CASE NoHotkey BY <1>4 DEF NoHotkey, Acting, machine, firmware, flashVars, CardSeen, Proceed
<1>5. CASE SoftBoot BY <1>5 DEF SoftBoot, Acting, machine, firmware, flashVars, Reboot, CardSeen, Proceed
<1>6. CASE ColdBoot BY <1>6 DEF ColdBoot, Acting, machine, firmware, flashVars, Reboot, CardSeen, Proceed
<1>7. CASE \E menu \in {"devices", "settings"} : Enter(menu) BY PushMenu, <1>7 DEF Enter, Acting, machine, firmware, flashVars, CardSeen, Freeze
<1>8. CASE Escape BY <1>s, <1>8 DEF Escape, Acting, machine, firmware, flashVars, Resume, Leave
<1>9. CASE Wake BY <1>9 DEF Wake, Acting, machine, firmware, flashVars
<1>10. CASE Exit BY <1>s, <1>10 DEF Exit, Acting, machine, firmware, flashVars, Resume, Leave
<1>11. CASE OtherEntry BY <1>11 DEF OtherEntry, Acting, machine, firmware, flashVars
<1>12. CASE Hang BY <1>12 DEF Hang, Acting, machine, firmware, flashVars
<1>13. CASE CartEntry BY <1>13 DEF CartEntry, Acting, machine, firmware, flashVars, InsertCart, RemoveCart, In
<1>14. CASE CartStart BY <1>s, <1>14 DEF CartStart, Acting, machine, firmware, flashVars, Leave, In
<1>15. CASE CartKey BY <1>15 DEF CartKey, Acting, machine, firmware, flashVars, InsertCart, RemoveCart, In
<1>16. CASE ChangeSetting BY <1>16 DEF ChangeSetting, Acting, machine, firmware, flashVars
<1>17. CASE ChangeOs BY <1>17 DEF ChangeOs, Acting, machine, firmware, flashVars, In
<1>18. CASE SelectProfile BY <1>18 DEF SelectProfile, Acting, machine, firmware, flashVars, In
<1>19. CASE LoadProfile BY <1>19 DEF LoadProfile, Acting, machine, firmware, flashVars, In, ProfileLoaded
<1>20. CASE ProfileKey BY <1>20 DEF ProfileKey, Acting, machine, firmware, flashVars, In, ProfileLoaded
<1>21. CASE SaveFlash BY <1>21 DEF SaveFlash, Acting, machine, firmware, flashVars, In
<1>22. CASE ProgramRBD BY <1>22 DEF ProgramRBD, Acting, machine, firmware, flashVars, In
<1>23. CASE Flash BY <1>23 DEF Flash, Acting, machine, firmware, flashVars, FlashStep
<1>24. CASE UNCHANGED vars BY <1>24 DEF vars, machine, firmware, flashVars
<1> QED BY <1>1, <1>2, <1>3, <1>4, <1>5, <1>6, <1>7, <1>8, <1>9, <1>10, <1>11, <1>12, <1>13, <1>14, <1>15, <1>16, <1>17, <1>18, <1>19, <1>20, <1>21, <1>22, <1>23, <1>24 DEF Next

-----------------------------------------------------------------------------
(* The jobs, and what they may still do to an item of the flash.           *)

IsPart(c) == DOMAIN c \subseteq Item /\ \A i \in DOMAIN c : c[i] \in Contents
Step == {ReadFile} \cup {Erase(blocks) : blocks \in SUBSET Int}
          \cup {Write(c) : c \in UNION {[D -> Contents] : D \in SUBSET Item}}
JobType == job \in Seq(Step)

Writes(step, i) == step.op = "write" /\ i \in DOMAIN step.contents
Erases(step, i) == step.op = "erase" /\ Block(i) \in step.blocks

\* The steps that are left will make want of an item that is now v.
Lands(steps, i, v, want) ==
  /\ (\A k \in 1 .. Len(steps) : ~Writes(steps[k], i)) => v = want
  /\ \A k \in 1 .. Len(steps) : Writes(steps[k], i) =>
       /\ steps[k].contents[i] = want
       /\ v \in {Erased, want} \/ \E j \in 1 .. k - 1 : Erases(steps[j], i)
  /\ \A k \in 1 .. Len(steps) : Erases(steps[k], i) =>
       \E m \in k + 1 .. Len(steps) : Writes(steps[m], i)

LEMMA StepCases ==
  ASSUME NEW s \in Step
  PROVE  \/ s = ReadFile
         \/ \E blocks \in SUBSET Int : s = Erase(blocks)
         \/ \E c : s = Write(c) /\ IsPart(c)
<1>1. CASE s = ReadFile BY <1>1
<1>2. CASE \E blocks \in SUBSET Int : s = Erase(blocks) BY <1>2
<1>3. CASE \E c \in UNION {[D -> Contents] : D \in SUBSET Item} : s = Write(c)
  <2>1. PICK c \in UNION {[D -> Contents] : D \in SUBSET Item} : s = Write(c)
    BY <1>3
  <2>2. PICK D \in SUBSET Item : c \in [D -> Contents]
    BY <2>1
  <2> QED BY <2>1, <2>2 DEF IsPart
<1> QED BY <1>1, <1>2, <1>3, Zenon DEF Step

\* A step brings an item nearer to where the job lands.
LEMMA LandsStep ==
  ASSUME job \in Seq(Step), job # <<>>, NEW i \in Item, NEW want, Lands(job, i, flash[i], want)
  PROVE  Lands(Tail(job), i, After(Head(job), i), want)
<1> DEFINE v == After(Head(job), i)
           rest == Tail(job)
<1>1. /\ rest \in Seq(Step) /\ Len(rest) = Len(job) - 1 /\ Len(job) \in Nat \ {0}
      /\ Head(job) = job[1] /\ job[1] \in Step
      /\ \A k \in 1 .. Len(job) - 1 : rest[k] = job[k + 1]
  BY TailOfStack
<1>2. \A k \in 1 .. Len(rest) : k + 1 \in 2 .. Len(job) /\ rest[k] = job[k + 1]
  BY <1>1
<1>3. \A k \in 2 .. Len(job) : k - 1 \in 1 .. Len(rest) /\ rest[k - 1] = job[k]
  <2>1. \A k \in 2 .. Len(job) : k - 1 \in 1 .. Len(rest) /\ (k - 1) + 1 = k
    BY <1>1
  <2> QED BY <1>2, <2>1
<1>4. Erases(job[1], i) => v = Erased
  BY <1>1 DEF After, Erases
<1>5. Writes(job[1], i) => v = want
  <2>1. ASSUME Writes(job[1], i)
        PROVE  job[1].contents[i] = want /\ flash[i] \in {Erased, want}
    BY <1>1, <2>1 DEF Lands
  <2>2. Writes(job[1], i) => v = Programmed(flash[i], job[1].contents[i])
    BY <1>1 DEF After, Writes
  <2> QED BY <2>1, <2>2 DEF Programmed
<1>6. ~Erases(job[1], i) /\ ~Writes(job[1], i) => v = flash[i]
  <2>1. CASE job[1] = ReadFile
    BY <1>1, <2>1 DEF After, ReadFile
  <2>2. CASE \E blocks \in SUBSET Int : job[1] = Erase(blocks)
    <3>1. job[1].op = "erase"
      BY <2>2 DEF Erase
    <3> QED BY <1>1, <3>1 DEF After, Erases
  <2>3. CASE \E c : job[1] = Write(c) /\ IsPart(c)
    <3>1. job[1].op = "write"
      BY <2>3 DEF Write
    <3> QED BY <1>1, <3>1 DEF After, Writes
  <2> QED BY <1>1, <2>1, <2>2, <2>3, StepCases
<1> HIDE DEF v, rest
<1>7. ASSUME \A k \in 1 .. Len(rest) : ~Writes(rest[k], i)
      PROVE  v = want
  <2>1. \A k \in 2 .. Len(job) : ~Writes(job[k], i)
    BY <1>3, <1>7
  <2>2. ~Erases(job[1], i)
    BY <1>1, <2>1 DEF Lands
  <2>3. CASE Writes(job[1], i) BY <1>5, <2>3
  <2>4. CASE ~Writes(job[1], i)
    <3>1. \A k \in 1 .. Len(job) : ~Writes(job[k], i)
      BY <1>1, <2>1, <2>4
    <3> QED BY <1>6, <2>2, <2>4, <3>1 DEF Lands
  <2> QED BY <2>3, <2>4
<1>8. ASSUME NEW k \in 1 .. Len(rest), Writes(rest[k], i)
      PROVE  /\ rest[k].contents[i] = want
             /\ v \in {Erased, want} \/ \E j \in 1 .. k - 1 : Erases(rest[j], i)
  <2>1. /\ job[k + 1].contents[i] = want
        /\ flash[i] \in {Erased, want} \/ \E j \in 1 .. (k + 1) - 1 : Erases(job[j], i)
    BY <1>1, <1>2, <1>8 DEF Lands
  <2>2. rest[k].contents[i] = want
    BY <1>2, <2>1
  <2>3. CASE Erases(job[1], i) \/ Writes(job[1], i)
    BY <1>4, <1>5, <2>2, <2>3
  <2>4. CASE ~Erases(job[1], i) /\ ~Writes(job[1], i)
    <3>1. CASE flash[i] \in {Erased, want} BY <1>6, <2>2, <2>4, <3>1
    <3>2. CASE \E j \in 1 .. (k + 1) - 1 : Erases(job[j], i)
      <4>1. PICK j \in 1 .. (k + 1) - 1 : Erases(job[j], i)
        BY <3>2
      <4>2. j \in 2 .. Len(job) /\ j - 1 \in 1 .. k - 1
        BY <1>1, <2>4, <4>1
      <4>3. Erases(rest[j - 1], i)
        BY <1>3, <4>1, <4>2
      <4> QED BY <2>2, <4>2, <4>3
    <3> QED BY <2>1, <3>1, <3>2
  <2> QED BY <2>3, <2>4
<1>9. ASSUME NEW k \in 1 .. Len(rest), Erases(rest[k], i)
      PROVE  \E m \in k + 1 .. Len(rest) : Writes(rest[m], i)
  <2>1. PICK m \in (k + 1) + 1 .. Len(job) : Writes(job[m], i)
    BY <1>1, <1>2, <1>9 DEF Lands
  <2>2. m \in 2 .. Len(job) /\ m - 1 \in k + 1 .. Len(rest)
    BY <1>1, <2>1
  <2> QED BY <1>3, <2>1, <2>2
<1> QED BY <1>7, <1>8, <1>9 DEF Lands, v, rest

LEMMA Blocks ==
  ASSUME NEW i \in Item
  PROVE  \/ i \in Region /\ Block(i) \in 0 .. 2
         \/ i = PllTables /\ Block(i) = 3 /\ i \notin CoreChunk /\ i \notin Region
         \/ \E k \in {0, 1} : i = <<"core", k>> /\ Block(i) = 4 * k - 8 /\ i \notin Region
<1>1. CASE \E q \in Profile : i = SettingsAt(q)
  BY <1>1 DEF Region, Block, SettingsAt
<1>2. CASE \E q \in Profile : i = OsAt(q)
  BY <1>2 DEF Region, Block, OsAt
<1>3. CASE i = FreezerRom
  BY <1>3 DEF Region, Block, FreezerRom
<1>4. CASE i = PllTables
  BY <1>4 DEF Region, Block, PllTables, CoreChunk
<1>5. CASE i \in CoreChunk
  BY <1>5 DEF Region, Block, CoreChunk
<1> QED BY <1>1, <1>2, <1>3, <1>4, <1>5 DEF Item

LEMMA ErasedBlocks ==
  ASSUME sector \in {1, 4}, NEW first \in Int
  PROVE  /\ EraseFlash(first, 3).op = "erase" /\ EraseFlash(first, 4).op = "erase"
         /\ sector = 1 => EraseFlash(first, 3).blocks = first .. first + 2
         /\ sector = 4 => EraseFlash(first, 3).blocks = first .. first + 3
         /\ EraseFlash(first, 4).blocks = first .. first + 3
BY DEF EraseFlash, Erase

\* An item that is erased is written next, and only then.
LEMMA TwoStepsLand ==
  ASSUME NEW e, NEW w, NEW i, NEW v, NEW want, ~Writes(e, i), ~Erases(w, i),
         Erases(e, i) <=> Writes(w, i), Writes(w, i) => w.contents[i] = want,
         ~Writes(w, i) => v = want
  PROVE  Lands(<<e, w>>, i, v, want)
<1> DEFINE steps == <<e, w>>
<1>1. Len(steps) = 2 /\ steps[1] = e /\ steps[2] = w
  OBVIOUS
<1> HIDE DEF steps
<1>2. \A k \in 1 .. Len(steps) : k = 1 \/ k = 2
  BY <1>1
<1>3. Lands(steps, i, v, want)
  BY <1>1, <1>2 DEF Lands
<1> QED BY <1>3 DEF steps

LEMMA SixStepsLand ==
  ASSUME NEW r, NEW e0, NEW w0, NEW e1, NEW w1, NEW i, NEW v, NEW want,
         ~Writes(r, i), ~Writes(e0, i), ~Writes(e1, i), ~Erases(r, i), ~Erases(w0, i), ~Erases(w1, i),
         Erases(e0, i) <=> Writes(w0, i), Writes(w0, i) => w0.contents[i] = want,
         Erases(e1, i) <=> Writes(w1, i), Writes(w1, i) => w1.contents[i] = want,
         ~Writes(w0, i) /\ ~Writes(w1, i) => v = want
  PROVE  Lands(<<r, e0, w0, r, e1, w1>>, i, v, want)
<1> DEFINE steps == <<r, e0, w0, r, e1, w1>>
<1>1. /\ Len(steps) = 6 /\ steps[1] = r /\ steps[2] = e0 /\ steps[3] = w0
      /\ steps[4] = r /\ steps[5] = e1 /\ steps[6] = w1
  OBVIOUS
<1> HIDE DEF steps
<1>2. \A k \in 1 .. Len(steps) : Writes(steps[k], i) => k \in {3, 6}
  BY <1>1
<1>3. \A k \in 1 .. Len(steps) : Erases(steps[k], i) => k \in {2, 5}
  BY <1>1
<1>4. (\A k \in 1 .. Len(steps) : ~Writes(steps[k], i)) => v = want
  BY <1>1
<1>5. \A k \in 1 .. Len(steps) : Writes(steps[k], i) =>
        /\ steps[k].contents[i] = want
        /\ \E j \in 1 .. k - 1 : Erases(steps[j], i)
  BY <1>1, <1>2
<1>6. \A k \in 1 .. Len(steps) : Erases(steps[k], i) =>
        \E m \in k + 1 .. Len(steps) : Writes(steps[m], i)
  BY <1>1, <1>3
<1>7. Lands(steps, i, v, want)
  BY <1>4, <1>5, <1>6 DEF Lands
<1> QED BY <1>7 DEF steps

LEMMA SaveJobLands ==
  ASSUME sector \in {1, 4}, flash \in [Item -> Contents], NEW p \in Profile, NEW settings, NEW os,
         NEW i \in Item, ~(i = PllTables /\ sector = 4)
  PROVE  Lands(SaveJob(p, settings, os), i, flash[i], Changed(p, settings, os)[i])
<1> DEFINE E == EraseFlash(0, 3)
           c == [x \in Region |-> Changed(p, settings, os)[x]]
           want == Changed(p, settings, os)[i]
<1>1. SaveJob(p, settings, os) = <<E, Write(c)>>
  BY DEF SaveJob
<1>2. /\ E.op = "erase" /\ 0 .. 2 \subseteq E.blocks
      /\ E.blocks \subseteq 0 .. 3 /\ (sector = 1 => 3 \notin E.blocks)
  <2>1. /\ E.op = "erase" /\ (sector = 1 => E.blocks = 0 .. 0 + 2)
        /\ (sector = 4 => E.blocks = 0 .. 0 + 3)
    BY 0 \in Int, ErasedBlocks, Zenon
  <2> HIDE DEF E
  <2>2. CASE sector = 1 BY <2>1, <2>2
  <2>3. CASE sector = 4 BY <2>1, <2>3
  <2> QED BY <2>2, <2>3
<1>3. Write(c).op = "write" /\ Write(c).contents = c
  BY DEF Write
<1> HIDE DEF E
<1>4. CASE i \in Region
  <2>1. Block(i) \in 0 .. 2
    BY <1>4 DEF Region
  <2>2. Erases(E, i) /\ Writes(Write(c), i) /\ Write(c).contents[i] = want /\ ~Writes(E, i)
        /\ ~Erases(Write(c), i)
    BY <1>2, <1>3, <1>4, <2>1 DEF Erases, Writes
  <2> HIDE DEF c, want
  <2>3. Lands(<<E, Write(c)>>, i, flash[i], want)
    BY <2>2, TwoStepsLand
  <2> QED BY <1>1, <2>3 DEF want
<1>5. CASE i \notin Region
  <2>1. Block(i) \notin E.blocks
    BY <1>2, <1>5, Blocks
  <2>2. ~Erases(E, i) /\ ~Writes(E, i) /\ ~Writes(Write(c), i) /\ ~Erases(Write(c), i)
    BY <1>2, <1>3, <1>5, <2>1 DEF Erases, Writes
  <2>3. SettingsAt(p) \in Region /\ OsAt(p) \in Region
    BY DEF Region, Item, Block, SettingsAt, OsAt
  <2>4. want = flash[i]
    BY <1>5, <2>3 DEF Changed
  <2> HIDE DEF c, want
  <2>5. Lands(<<E, Write(c)>>, i, flash[i], want)
    BY <2>2, <2>4, TwoStepsLand
  <2> QED BY <1>1, <2>5 DEF want
<1> QED BY <1>4, <1>5

LEMMA RpdJobLands ==
  ASSUME sector \in {1, 4}, NEW file, NEW i \in Item
  PROVE  Lands(RpdJob(file), i, flash[i], IF i \in CoreChunk THEN <<file>> ELSE flash[i])
<1> DEFINE want == IF i \in CoreChunk THEN <<file>> ELSE flash[i]
<1>2. ASSUME NEW k \in {0, 1}
      PROVE  /\ Erases(EraseChunk(k), i) <=> i = <<"core", k>>
             /\ Writes(WriteChunk(k, file), i) <=> i = <<"core", k>>
             /\ Writes(WriteChunk(k, file), i) => WriteChunk(k, file).contents[i] = <<file>>
             /\ ~Writes(EraseChunk(k), i) /\ ~Erases(WriteChunk(k, file), i)
  <2>1. EraseChunk(k).op = "erase" /\ EraseChunk(k).blocks = 4 * k - 8 .. (4 * k - 8) + 3
    <3>1. 4 * k - 8 \in Int
      OBVIOUS
    <3> QED BY <3>1, ErasedBlocks DEF EraseChunk
  <2>2. Block(i) \in 4 * k - 8 .. (4 * k - 8) + 3 <=> i = <<"core", k>>
    <3>1. CASE Block(i) \in 0 .. 3
      <4>1. Block(<<"core", k>>) = 4 * k - 8
        BY DEF Block
      <4> QED BY <3>1, <4>1
    <3>2. CASE \E q \in {0, 1} : i = <<"core", q>> /\ Block(i) = 4 * q - 8
      <4>1. PICK q \in {0, 1} : i = <<"core", q>> /\ Block(i) = 4 * q - 8
        BY <3>2
      <4>2. Block(i) \in 4 * k - 8 .. (4 * k - 8) + 3 <=> q = k
        BY <4>1
      <4> QED BY <4>1, <4>2
    <3> QED BY <3>1, <3>2, Blocks
  <2>3. /\ WriteChunk(k, file).op = "write"
        /\ WriteChunk(k, file).contents = [x \in {<<"core", k>>} |-> <<file>>]
    BY DEF Write, WriteChunk
  <2>4. Writes(WriteChunk(k, file), i) <=> i = <<"core", k>>
    BY <2>3 DEF Writes
  <2>5. i = <<"core", k>> => WriteChunk(k, file).contents[i] = <<file>>
    BY <2>3
  <2> QED BY <2>1, <2>2, <2>3, <2>4, <2>5 DEF Erases, Writes
<1>3. ~Erases(ReadFile, i) /\ ~Writes(ReadFile, i)
  BY DEF ReadFile, Erases, Writes
<1>4. (i = <<"core", 0>> \/ i = <<"core", 1>>) => want = <<file>>
  BY DEF CoreChunk
<1>5. ~(i = <<"core", 0>> \/ i = <<"core", 1>>) => want = flash[i]
  BY DEF CoreChunk
<1> HIDE DEF want
<1>6. Lands(RpdJob(file), i, flash[i], want)
  BY <1>2, <1>3, <1>4, <1>5, SixStepsLand DEF RpdJob
<1> QED BY <1>6 DEF want

-----------------------------------------------------------------------------
(* Types.                                                                  *)

LEMMA SaveJobType ==
  ASSUME flash \in [Item -> Contents], NEW p \in Profile, NEW w \in Contents, NEW os \in Contents
  PROVE  SaveJob(p, w, os) \in Seq(Step)
<1> DEFINE c == [x \in Region |-> Changed(p, w, os)[x]]
<1>1. Changed(p, w, os) \in [Item -> Contents]
  BY DEF Changed
<1>2. Region \in SUBSET Item
  BY DEF Region
<1>3. c \in [Region -> Contents]
  BY <1>1, <1>2
<1> HIDE DEF c
<1>4. Write(c) \in Step
  BY <1>2, <1>3 DEF Step
<1>5. EraseFlash(0, 3) \in Step
  <2>1. (IF sector = 0 THEN {} ELSE 0 .. 0 + sector * ((3 + sector - 1) \div sector) - 1) \in SUBSET Int
    OBVIOUS
  <2> QED BY <2>1, Zenon DEF EraseFlash, Step
<1> QED BY <1>4, <1>5 DEF SaveJob, c

LEMMA RpdJobType ==
  ASSUME NEW file \in File PROVE RpdJob(file) \in Seq(Step)
<1>1. ASSUME NEW k \in {0, 1} PROVE EraseChunk(k) \in Step /\ WriteChunk(k, file) \in Step
  <2>1. [x \in {<<"core", k>>} |-> <<file>>] \in [{<<"core", k>>} -> Contents]
    BY DEF Contents
  <2>2. {<<"core", k>>} \in SUBSET Item
    BY DEF Item, CoreChunk
  <2>3. WriteChunk(k, file) \in Step
    BY <2>1, <2>2, Zenon DEF WriteChunk, Step
  <2>4. (IF sector = 0 THEN {}
         ELSE 4 * k - 8 .. (4 * k - 8) + sector * ((4 + sector - 1) \div sector) - 1) \in SUBSET Int
    OBVIOUS
  <2>5. EraseChunk(k) \in Step
    BY <2>4, Zenon DEF EraseChunk, EraseFlash, Step
  <2> QED BY <2>3, <2>5
<1>2. ReadFile \in Step
  BY DEF Step
<1> QED BY <1>1, <1>2 DEF RpdJob

LEMMA AfterType ==
  ASSUME flash \in [Item -> Contents], NEW s \in Step, NEW i \in Item
  PROVE  After(s, i) \in Contents
<1>1. Erased \in Contents
  BY DEF Contents
<1>2. CASE s = ReadFile
  BY <1>2 DEF ReadFile, After
<1>3. CASE \E blocks \in SUBSET Int : s = Erase(blocks)
  <2>1. s.op = "erase"
    BY <1>3 DEF Erase
  <2> QED BY <1>1, <2>1 DEF After
<1>4. CASE \E c : s = Write(c) /\ IsPart(c)
  <2>1. PICK c : s = Write(c) /\ IsPart(c)
    BY <1>4
  <2>2. s.op = "write" /\ s.contents = c
    BY <2>1 DEF Write
  <2>3. CASE i \in DOMAIN c
    <3>1. c[i] \in Contents /\ flash[i] \in Contents
      BY <2>1, <2>3 DEF IsPart
    <3>2. Programmed(flash[i], c[i]) \in Contents
      BY <3>1, ProgrammedType
    <3> QED BY <2>2, <2>3, <3>2 DEF After
  <2>4. CASE i \notin DOMAIN c BY <2>2, <2>4 DEF After
  <2> QED BY <2>3, <2>4
<1> QED BY <1>2, <1>3, <1>4, StepCases

LEMMA OutChanged ==
  ASSUME NEW o \in OutSet
  PROVE  /\ \A p, f \in BOOLEAN : [o EXCEPT !.paused = p, !.freezer = f] \in OutSet
         /\ \A f \in BOOLEAN : [o EXCEPT !.freezer = f] \in OutSet
         /\ \A c \in {"off"} \cup Car : [o EXCEPT !.cart = c] \in OutSet
         /\ \A x \in Other : [o EXCEPT !.other = x] \in OutSet
         /\ \A p, f \in BOOLEAN, c \in {"off"} \cup Car :
              [paused |-> p, freezer |-> f, cart |-> c, other |-> o.other] \in OutSet
         /\ o.freezer \in BOOLEAN
BY DEF OutSet

LEMMA FileChanged ==
  /\ \A f \in FileSet, b \in BOOLEAN : [f EXCEPT !.done = b] \in FileSet
  /\ Unread \in FileSet
BY DEF FileSet, Unread

LEMMA PastChanged ==
  ASSUME NEW q \in PastSet
  PROVE  /\ \A d \in BOOLEAN : [q EXCEPT !.disturbed = d] \in PastSet
         /\ \A l \in BOOLEAN : [q EXCEPT !.released = l] \in PastSet
         /\ \A l, d \in BOOLEAN : [q EXCEPT !.released = l, !.disturbed = d] \in PastSet
         /\ \A b \in BOOLEAN : [q EXCEPT !.overwritten = b] \in PastSet
         /\ \A b, l, d \in BOOLEAN :
              [q EXCEPT !.overwritten = b, !.released = l, !.disturbed = d] \in PastSet
         /\ \A l, d, b \in BOOLEAN, kept \in [Item -> Contents] :
              [q EXCEPT !.released = l, !.disturbed = d, !.overwritten = b, !.kept = kept] \in PastSet
         /\ \A n \in 0 .. MaxSaves, kept \in [Item -> Contents] :
              [q EXCEPT !.saves = n, !.kept = kept] \in PastSet
         /\ \A n \in 0 .. MaxSaves, b \in BOOLEAN, kept \in [Item -> Contents] :
              [q EXCEPT !.saves = n, !.overwritten = b, !.kept = kept] \in PastSet
         /\ q.released \in BOOLEAN /\ q.disturbed \in BOOLEAN /\ q.overwritten \in BOOLEAN
         /\ q.saves \in 0 .. MaxSaves /\ q.kept \in [Item -> Contents]
BY DEF PastSet

\* What an action that changes the history leaves of it
LEMMA PastFields ==
  ASSUME NEW q \in PastSet
  PROVE  /\ \A d : LET n == [q EXCEPT !.disturbed = d]
                   IN  n.released = q.released /\ n.disturbed = d /\ n.overwritten = q.overwritten
                       /\ n.kept = q.kept
         /\ \A l : LET n == [q EXCEPT !.released = l]
                   IN  n.released = l /\ n.disturbed = q.disturbed /\ n.overwritten = q.overwritten
                       /\ n.kept = q.kept
         /\ \A l, d : LET n == [q EXCEPT !.released = l, !.disturbed = d]
                      IN  n.released = l /\ n.disturbed = d /\ n.overwritten = q.overwritten
                          /\ n.kept = q.kept
         /\ \A b : LET n == [q EXCEPT !.overwritten = b]
                   IN  n.released = q.released /\ n.disturbed = q.disturbed /\ n.overwritten = b
                       /\ n.kept = q.kept
         /\ \A b, l, d : LET n == [q EXCEPT !.overwritten = b, !.released = l, !.disturbed = d]
                         IN  n.released = l /\ n.disturbed = d /\ n.overwritten = b /\ n.kept = q.kept
         /\ \A v, k : LET n == [q EXCEPT !.saves = v, !.kept = k]
                      IN  n.released = q.released /\ n.disturbed = q.disturbed
                          /\ n.overwritten = q.overwritten
         /\ \A v, b, k : LET n == [q EXCEPT !.saves = v, !.overwritten = b, !.kept = k]
                         IN  n.released = q.released /\ n.disturbed = q.disturbed /\ n.overwritten = b
BY DEF PastSet

\* Every action keeps the types.
LEMMA TypeStep == ASSUME TypeOK, JobType, StackInv, [Next]_vars PROVE TypeOK' /\ JobType'
<1> USE DEF machine, firmware, flashVars
<1>1. CASE Run
  <2>1. (past.disturbed /\ menus # <<>>) \in BOOLEAN
    BY PastChanged DEF TypeOK
  <2>2. past' \in PastSet
    BY <1>1, <2>1, PastChanged DEF Run, TypeOK
  <2> QED BY <1>1, <2>2 DEF Run, TypeOK, JobType, Aged, Older, Age
<1>2. CASE PowerLoss
  <2>1. sd_present' \in BOOLEAN
    BY <1>2 DEF PowerLoss, TypeOK
  <2>2. out' \in OutSet /\ rom' \in Contents /\ freezer_rom_present' \in BOOLEAN
    BY <1>2, <2>1, BootedType DEF PowerLoss, TypeOK
  <2>3. past' \in PastSet
    <3>1. (IF job = <<>> THEN past.kept ELSE flash) \in [Item -> Contents]
      BY PastChanged DEF TypeOK
    <3> QED BY <1>2, <3>1, PastChanged DEF PowerLoss, TypeOK
  <2>4. file4' \in FileSet
    BY <1>2, FileChanged DEF PowerLoss, TypeOK
  <2>5. menus' \in Seq({"devices", "settings"}) /\ job' \in Seq(Step) /\ sel_profile' \in 1 .. NbrProfiles
    BY <1>2, FlashAssumption DEF PowerLoss
  <2> QED BY <1>2, <2>1, <2>2, <2>3, <2>4, <2>5 DEF PowerLoss, TypeOK, JobType, Age
<1>3. CASE MoveCard BY <1>3 DEF MoveCard, TypeOK, JobType
<1>4. ASSUME CardSeen PROVE sd_present' \in BOOLEAN /\ file4' \in FileSet
  BY <1>4, FileChanged DEF CardSeen, TypeOK
<1>5. CASE NoHotkey BY <1>4, <1>5 DEF NoHotkey, Proceed, TypeOK, JobType
<1>6. ASSUME NEW cold \in BOOLEAN, Reboot(cold)
      PROVE  /\ out' \in OutSet /\ ram' \in Age /\ chips' \in Age
             /\ store' \in [ram : Age, chips : Age]
  <2>1. (IF cold THEN freezer_rom_present ELSE out.freezer) \in BOOLEAN
    BY OutChanged DEF TypeOK
  <2>2. out' \in OutSet
    BY <1>6, <2>1, OutChanged DEF Reboot, TypeOK
  <2> QED BY <1>6, <2>2 DEF Reboot, Aged, Older, Age, TypeOK
<1>7. (past.disturbed \/ menus # <<>>) \in BOOLEAN /\ (menus # <<>>) \in BOOLEAN
  OBVIOUS
<1>8. CASE SoftBoot
  <2>1. past' \in PastSet
    BY <1>7, <1>8, PastChanged DEF SoftBoot, TypeOK
  <2> QED BY <1>4, <1>6, <1>8, <2>1 DEF SoftBoot, Proceed, TypeOK, JobType
<1>9. CASE ColdBoot
  <2>1. past' \in PastSet
    BY <1>7, <1>9, PastChanged DEF ColdBoot, TypeOK
  <2> QED BY <1>4, <1>6, <1>9, <2>1 DEF ColdBoot, Proceed, TypeOK, JobType
<1>10. CASE \E menu \in {"devices", "settings"} : Enter(menu)
  <2>1. PICK menu \in {"devices", "settings"} : Enter(menu)
    BY <1>10
  <2>2. past' \in PastSet
    BY <1>7, <2>1, PastChanged DEF Enter, TypeOK
  <2>3. out' \in OutSet
    BY <2>1, OutChanged DEF Enter, TypeOK
  <2>4. menus' \in Seq({"devices", "settings"})
    BY <2>1, PushMenu DEF Enter, TypeOK
  <2>5. store' \in [ram : Age, chips : Age] /\ ram' \in Age /\ chips' \in Age
    BY <2>1 DEF Enter, Freeze, TypeOK, Age
  <2> QED BY <1>4, <2>1, <2>2, <2>3, <2>4, <2>5 DEF Enter, TypeOK, JobType
<1>11. ASSUME Leave, menus # <<>>
       PROVE  menus' \in Seq({"devices", "settings"}) /\ at' \in {"loop", "entry"}
  BY <1>11, TailOfStack DEF Leave, TypeOK
<1>12. ASSUME Resume, menus # <<>> PROVE TypeOK' /\ JobType'
  <2>1. out' \in OutSet
    BY <1>12, OutChanged DEF Resume, TypeOK
  <2>2. past' \in PastSet
    BY <1>12, PastChanged DEF Resume, TypeOK
  <2> QED BY <1>11, <1>12, <2>1, <2>2 DEF Resume, TypeOK, JobType
<1>13. CASE Escape BY <1>12, <1>13 DEF Escape, StackInv
<1>14. CASE Wake BY <1>14 DEF Wake, TypeOK, JobType
<1>15. CASE Exit BY <1>12, <1>15 DEF Exit, StackInv
<1>16. CASE OtherEntry BY <1>16 DEF OtherEntry, TypeOK, JobType
<1>17. CASE Hang BY <1>17 DEF Hang, TypeOK, JobType
<1>18. ASSUME InsertCart \/ RemoveCart
       PROVE  /\ out' \in OutSet /\ file4' \in FileSet /\ cartmem' \in Car \cup {NoFile}
              /\ past' \in PastSet
              /\ UNCHANGED <<rom, freezer_rom_present, sd_present, sel_profile, card, flashVars>>
  <2>1. CASE InsertCart
    <3>1. PICK f \in Selected(Car) :
            /\ file4' = [f EXCEPT !.done = @ \/ f.name # NoFile]
            /\ out' = [out EXCEPT !.cart = LoadCar(f)]
            /\ cartmem' = IF f.name \notin Car \/ f.done THEN cartmem
                          ELSE IF f.name \in Short THEN NoFile ELSE f.name
      BY <2>1 DEF InsertCart
    <3>2. f \in FileSet
      BY <3>1, SelectedType DEF TypeOK
    <3>3. file4' \in FileSet
      <4>1. (f.done \/ f.name # NoFile) \in BOOLEAN
        OBVIOUS
      <4> QED BY <3>1, <3>2, <4>1, FileChanged
    <3>4. out' \in OutSet
      <4>1. LoadCar(f) \in {"off"} \cup Car
        BY <3>2, LoadCarType
      <4> QED BY <3>1, <4>1, OutChanged DEF TypeOK
    <3>5. cartmem' \in Car \cup {NoFile}
      BY <3>1 DEF TypeOK
    <3>6. past' \in PastSet
      BY <2>1, PastChanged DEF InsertCart, TypeOK
    <3> QED BY <2>1, <3>3, <3>4, <3>5, <3>6 DEF InsertCart
  <2>2. CASE RemoveCart
    <3>1. file4' \in FileSet
      BY <2>2, FileChanged DEF RemoveCart, TypeOK
    <3>2. out' \in OutSet
      BY <2>2, OutChanged DEF RemoveCart, TypeOK
    <3> QED BY <2>2, <3>1, <3>2 DEF RemoveCart, TypeOK
  <2> QED BY <1>18, <2>1, <2>2
<1>19. CASE CartEntry BY <1>18, <1>19 DEF CartEntry, TypeOK, JobType
<1>20. CASE CartStart
  <2>1. PICK f \in Selected(Car) :
          /\ LoadCar(f) # "off"
          /\ file4' = [f EXCEPT !.done = TRUE]
          /\ cartmem' = f.name
          /\ out' = [paused |-> FALSE, freezer |-> freezer_rom_present, cart |-> LoadCar(f),
                     other |-> out.other]
    BY <1>20 DEF CartStart
  <2>2. f \in FileSet /\ LoadCar(f) \in {"off"} \cup Car
    BY <2>1, SelectedType, LoadCarType DEF TypeOK
  <2>3. out' \in OutSet /\ file4' \in FileSet
    BY <2>1, <2>2, OutChanged, FileChanged DEF TypeOK
  <2>4. cartmem' \in Car
    BY <2>1 DEF LoadCar
  <2>5. past' \in PastSet
    <3>1. (past.disturbed /\ Len(menus) > 1) \in BOOLEAN
      OBVIOUS
    <3> QED BY <1>20, <3>1, PastChanged DEF CartStart, TypeOK
  <2>6. menus # <<>>
    BY <1>20 DEF CartStart, In
  <2>7. store' \in [ram : Age, chips : Age] /\ ram' \in Age /\ chips' \in Age
    BY <1>20 DEF CartStart, Aged, Older, Age, TypeOK
  <2> QED BY <1>11, <1>20, <2>3, <2>4, <2>5, <2>6, <2>7 DEF CartStart, TypeOK, JobType
<1>21. CASE CartKey BY <1>18, <1>21 DEF CartKey, TypeOK, JobType
<1>22. CASE ChangeSetting
  <2>1. out' \in OutSet
    BY <1>22, OutChanged DEF ChangeSetting, TypeOK
  <2> QED BY <1>22, <2>1 DEF ChangeSetting, TypeOK, JobType
<1>23. CASE ChangeOs BY <1>23 DEF ChangeOs, TypeOK, JobType, Contents
<1>24. CASE SelectProfile BY <1>24 DEF SelectProfile, TypeOK, JobType
<1>25. ASSUME NEW n \in 1 .. NbrProfiles
       PROVE  n - 1 \in Profile /\ SettingsAt(n - 1) \in Item /\ OsAt(n - 1) \in Item
  BY FlashAssumption DEF Profile, Item
<1>26. ASSUME NEW n \in 1 .. NbrProfiles, ProfileLoaded(n)
       PROVE  out' \in OutSet /\ rom' \in Contents /\ freezer_rom_present' \in BOOLEAN
  <2>1. Masked(out, flash[SettingsAt(n - 1)]) \in OutSet
    BY <1>25, MaskedType DEF TypeOK
  <2>2. out' \in OutSet
    BY <1>26, <2>1, OutChanged DEF ProfileLoaded
  <2> QED BY <1>25, <1>26, <2>2 DEF ProfileLoaded, TypeOK
<1>27. CASE LoadProfile BY <1>26, <1>27 DEF LoadProfile, ProfileLoaded, TypeOK, JobType
<1>28. CASE ProfileKey
  <2>1. sel_profile' \in 1 .. NbrProfiles /\ ProfileLoaded(sel_profile')
    BY <1>28 DEF ProfileKey
  <2>2. out' \in OutSet /\ rom' \in Contents /\ freezer_rom_present' \in BOOLEAN
    BY <1>26, <2>1
  <2> QED BY <1>28, <2>1, <2>2 DEF ProfileKey, ProfileLoaded, TypeOK, JobType
<1>29. ASSUME past.saves < MaxSaves PROVE past.saves + 1 \in 0 .. MaxSaves
  <2>1. past.saves \in 0 .. MaxSaves
    BY PastChanged DEF TypeOK
  <2>2. MaxSaves \in Nat
    BY MenuAssumption
  <2> QED BY <1>29, <2>1, <2>2
<1>30. CASE SaveFlash
  <2> DEFINE p == sel_profile - 1
             kept == [past.kept EXCEPT ![SettingsAt(p)] = Settings, ![OsAt(p)] = rom]
  <2>1. p \in Profile /\ Settings \in Contents /\ rom \in Contents
    BY <1>25, SettingsType DEF TypeOK
  <2>2. job' \in Seq(Step)
    BY <1>30, <2>1, SaveJobType DEF SaveFlash, TypeOK
  <2>3. past' = [past EXCEPT !.saves = past.saves + 1, !.kept = kept]
    BY <1>30 DEF SaveFlash, TypeOK, PastSet
  <2>4. kept \in [Item -> Contents]
    BY <2>1, PastChanged DEF TypeOK
  <2>5. past' \in PastSet
    <3>1. past.saves + 1 \in 0 .. MaxSaves
      BY <1>29, <1>30 DEF SaveFlash
    <3> DEFINE n == past.saves + 1
    <3> HIDE DEF kept, n
    <3>2. past' = [past EXCEPT !.saves = n, !.kept = kept] /\ n \in 0 .. MaxSaves
      BY <2>3, <3>1 DEF n
    <3> QED BY <2>4, <3>2, PastChanged DEF TypeOK
  <2> QED BY <1>30, <2>2, <2>5 DEF SaveFlash, TypeOK, JobType
<1>31. CASE ProgramRBD
  <2>1. PICK f \in Selected(Rpd) :
          /\ f.name # NoFile /\ past.saves < MaxSaves
          /\ file4' = [f EXCEPT !.done = TRUE]
          /\ job' = RpdJob(f.name) /\ at' = "flash"
          /\ past' = [past EXCEPT !.saves = @ + 1, !.overwritten = TRUE,
                        !.kept = [i \in Item |-> IF i \in CoreChunk THEN <<f.name>> ELSE @[i]]]
    BY <1>31 DEF ProgramRBD
  <2>2. f \in FileSet
    BY <2>1, SelectedType DEF TypeOK
  <2>3. f.name \in File /\ file4' \in FileSet
    <3>1. f.name \in File \cup {NoFile}
      BY <2>2 DEF FileSet
    <3> QED BY <2>1, <2>2, <3>1, FileChanged
  <2>4. job' \in Seq(Step)
    BY <2>1, <2>3, RpdJobType
  <2> DEFINE kept == [i \in Item |-> IF i \in CoreChunk THEN <<f.name>> ELSE past.kept[i]]
             n == past.saves + 1
  <2>5. n \in 0 .. MaxSaves
    BY <1>29, <2>1
  <2>6. kept \in [Item -> Contents]
    <3>1. <<f.name>> \in Contents
      BY <2>3 DEF Contents
    <3> QED BY <3>1, PastChanged DEF TypeOK
  <2>7. past' = [past EXCEPT !.saves = n, !.overwritten = TRUE, !.kept = kept]
    BY <2>1 DEF TypeOK, PastSet
  <2> HIDE DEF kept, n
  <2>8. past' \in PastSet
    BY <2>5, <2>6, <2>7, PastChanged DEF TypeOK
  <2> QED BY <1>31, <2>1, <2>3, <2>4, <2>8 DEF ProgramRBD, TypeOK, JobType
<1>32. CASE Flash
  <2>1. Head(job) \in Step /\ Tail(job) \in Seq(Step)
    BY <1>32, TailOfStack DEF Flash, FlashStep, JobType
  <2>2. \A i \in Item : After(Head(job), i) \in Contents
    BY <2>1, AfterType DEF TypeOK
  <2>3. flash' \in [Item -> Contents]
    BY <1>32, <2>2 DEF Flash, FlashStep
  <2> QED BY <1>32, <2>1, <2>3 DEF Flash, FlashStep, TypeOK, JobType
<1>33. CASE UNCHANGED vars BY <1>33 DEF vars, TypeOK, JobType
<1> QED BY <1>1, <1>2, <1>3, <1>5, <1>8, <1>9, <1>10, <1>13, <1>14, <1>15, <1>16, <1>17, <1>19, <1>20, <1>21, <1>22, <1>23, <1>24, <1>27, <1>28, <1>30, <1>31, <1>32, <1>33 DEF Next

-----------------------------------------------------------------------------
(* The machine behind the menus.                                           *)

\* In a menu the machine stands still unless it was let go.  If no hot key was
\* taken in a menu, there is one menu at most, the machine was not let go, and
\* the copy in the store is its last.
MachineInv ==
  /\ menus # <<>> /\ ~past.released => out.paused
  /\ menus # <<>> /\ ~past.disturbed =>
       Len(menus) = 1 /\ out.paused /\ store = [ram |-> "own", chips |-> "own"]
  /\ menus = <<>> /\ ~past.disturbed => ram = "own" /\ chips = "own"

LEMMA MachineStep ==
  ASSUME TypeOK, JobType, StackInv, MachineInv, [Next]_vars PROVE MachineInv'
<1> USE DEF machine, firmware, flashVars
<1>0. past \in PastSet /\ out \in OutSet /\ menus \in Seq({"devices", "settings"})
      /\ store \in [ram : Age, chips : Age]
  BY DEF TypeOK
<1>1. ASSUME UNCHANGED <<menus, store, ram, chips>>, past'.released = past.released,
             past'.disturbed = past.disturbed, out'.paused = out.paused
      PROVE  MachineInv'
  BY <1>1 DEF MachineInv
<1>3. \A c : [out EXCEPT !.cart = c].paused = out.paused /\ [out EXCEPT !.other = c].paused = out.paused
  BY <1>0 DEF OutSet
<1>4. menus # <<>> => Len(menus) \in Nat \ {0}
  BY <1>0, EmptySeq
<1>5. CASE Run
  <2>1. past'.released = past.released /\ past'.disturbed = (past.disturbed /\ menus # <<>>)
    BY <1>0, <1>5, PastFields DEF Run
  <2>2. menus # <<>> => past.disturbed /\ past.released
    BY <1>5 DEF Run, MachineInv
  <2> QED BY <1>5, <2>1, <2>2 DEF Run, MachineInv
<1>6. CASE PowerLoss
  <2>1. menus' = <<>> /\ ram' = "own" /\ chips' = "own"
    BY <1>6 DEF PowerLoss
  <2> QED BY <2>1 DEF MachineInv
<1>7. CASE MoveCard BY <1>1, <1>7 DEF MoveCard
<1>8. CASE NoHotkey BY <1>1, <1>8 DEF NoHotkey
<1>9. CASE SoftBoot
  <2>1. past'.released /\ past'.disturbed = (past.disturbed \/ menus # <<>>)
    BY <1>0, <1>9, PastFields DEF SoftBoot
  <2> QED BY <1>9, <2>1 DEF SoftBoot, Reboot, MachineInv
<1>10. CASE ColdBoot
  <2>1. past'.released /\ past'.disturbed = (menus # <<>>)
    BY <1>0, <1>10, PastFields DEF ColdBoot
  <2> QED BY <1>10, <2>1 DEF ColdBoot, Reboot, MachineInv
<1>11. CASE \E menu \in {"devices", "settings"} : Enter(menu)
  <2>1. PICK menu \in {"devices", "settings"} : Enter(menu)
    BY <1>11
  <2>2. past'.disturbed = (past.disturbed \/ menus # <<>>)
    BY <1>0, <2>1, PastFields DEF Enter
  <2>3. menus' # <<>> /\ Len(menus') = Len(menus) + 1 /\ (menus = <<>> => Len(menus) = 0)
    BY <1>0, <2>1, PushMenu, EmptySeq DEF Enter
  <2>4. out'.paused
    BY <1>0, <2>1 DEF Enter, OutSet
  <2>5. store' = [ram |-> ram, chips |-> chips]
    BY <2>1 DEF Enter, Freeze
  <2>6. CASE past.disturbed \/ menus # <<>>
    BY <2>2, <2>3, <2>4, <2>6 DEF MachineInv
  <2>7. CASE ~past.disturbed /\ menus = <<>>
    <3>1. ram = "own" /\ chips = "own" /\ Len(menus') = 1
      BY <2>3, <2>7 DEF MachineInv
    <3>2. store' = [ram |-> "own", chips |-> "own"]
      BY <2>5, <3>1
    <3> QED BY <2>3, <2>4, <3>1, <3>2, Zenon DEF MachineInv
  <2> QED BY <2>6, <2>7
<1>12. ASSUME Leave, menus # <<>>
       PROVE  Len(menus') = Len(menus) - 1 /\ (menus' = <<>> <=> Len(menus) = 1)
  <2>1. menus' \in Seq({"devices", "settings"}) /\ Len(menus') = Len(menus) - 1
    BY <1>0, <1>12, TailOfStack DEF Leave
  <2>2. menus' = <<>> <=> Len(menus') = 0
    BY <2>1, EmptySeq
  <2> QED BY <1>4, <1>12, <2>1, <2>2
<1>13. ASSUME Resume, menus # <<>> PROVE MachineInv'
  <2>1. Leave /\ ram' = store.ram /\ chips' = store.chips
    BY <1>13 DEF Resume
  <2>2. past'.released /\ past'.disturbed = past.disturbed
    BY <1>0, <1>13, PastFields DEF Resume
  <2>3. menus' # <<>> => past.disturbed
    BY <1>12, <1>13, <2>1 DEF MachineInv
  <2> QED BY <1>13, <2>1, <2>2, <2>3 DEF MachineInv
<1>14. CASE Escape BY <1>13, <1>14 DEF Escape, StackInv
<1>15. CASE Wake BY <1>1, <1>15 DEF Wake
<1>16. CASE Exit BY <1>13, <1>16 DEF Exit, StackInv
<1>17. CASE OtherEntry BY <1>1, <1>17 DEF OtherEntry
<1>18. CASE Hang BY <1>1, <1>18 DEF Hang
<1>19. ASSUME InsertCart \/ RemoveCart
       PROVE  /\ past'.released = past.released /\ past'.disturbed = past.disturbed
              /\ out'.paused = out.paused
  <2>1. CASE InsertCart BY <1>0, <1>3, <2>1, PastFields DEF InsertCart
  <2>2. CASE RemoveCart BY <1>3, <2>2 DEF RemoveCart
  <2> QED BY <1>19, <2>1, <2>2
<1>20. CASE CartEntry BY <1>1, <1>19, <1>20 DEF CartEntry
<1>21. CASE CartStart
  <2>1. past'.released /\ past'.disturbed = (past.disturbed /\ Len(menus) > 1)
    BY <1>0, <1>21, PastFields DEF CartStart
  <2>2. Leave /\ menus # <<>> /\ ram' = "own" /\ chips' = "own"
    BY <1>21 DEF CartStart, In
  <2>3. CASE Len(menus) = 1
    <3>1. menus' = <<>> /\ Len(menus') = 0
      BY <1>12, <2>2, <2>3
    <3> QED BY <2>2, <3>1 DEF MachineInv
  <2>4. CASE Len(menus) # 1
    <3>1. Len(menus) > 1 /\ past.disturbed
      <4>1. Len(menus) > 1
        BY <1>4, <2>2, <2>4
      <4>2. past.disturbed
        BY <2>2, <2>4, Zenon DEF MachineInv
      <4> QED BY <4>1, <4>2
    <3>2. past'.disturbed /\ menus' # <<>>
      BY <1>12, <2>1, <2>2, <2>4, <3>1
    <3> QED BY <2>1, <3>2, Zenon DEF MachineInv
  <2> QED BY <2>3, <2>4
<1>22. CASE CartKey BY <1>1, <1>19, <1>22 DEF CartKey
<1>23. CASE ChangeSetting BY <1>1, <1>3, <1>23 DEF ChangeSetting
<1>24. CASE ChangeOs BY <1>1, <1>24 DEF ChangeOs
<1>25. CASE SelectProfile BY <1>1, <1>25 DEF SelectProfile
<1>26. ASSUME NEW n \in 1 .. NbrProfiles, ProfileLoaded(n) PROVE MachineInv'
  <2>1. SettingsAt(n - 1) \in Item
    BY FlashAssumption DEF Item, Profile
  <2>2. /\ Masked(out, flash[SettingsAt(n - 1)]) \in OutSet
        /\ Masked(out, flash[SettingsAt(n - 1)])["paused"] = out["paused"]
    BY <1>0, <2>1, MaskedType DEF TypeOK
  <2>3. out'.paused = out.paused
    BY <1>26, <2>2 DEF ProfileLoaded, OutSet
  <2> QED BY <1>1, <1>26, <2>3 DEF ProfileLoaded
<1>27. CASE LoadProfile BY <1>26, <1>27 DEF LoadProfile, TypeOK
<1>28. CASE ProfileKey BY <1>26, <1>28 DEF ProfileKey
<1>29. CASE SaveFlash
  <2>1. past'.released = past.released /\ past'.disturbed = past.disturbed
    BY <1>0, <1>29, PastFields DEF SaveFlash
  <2> QED BY <1>1, <1>29, <2>1 DEF SaveFlash
<1>30. CASE ProgramRBD
  <2>1. past'.released = past.released /\ past'.disturbed = past.disturbed
    BY <1>0, <1>30, PastFields DEF ProgramRBD
  <2> QED BY <1>1, <1>30, <2>1 DEF ProgramRBD
<1>31. CASE Flash BY <1>1, <1>31 DEF Flash
<1>32. CASE UNCHANGED vars BY <1>1, <1>32 DEF vars
<1> QED BY <1>5, <1>6, <1>7, <1>8, <1>9, <1>10, <1>11, <1>14, <1>15, <1>16, <1>17, <1>18, <1>20, <1>21, <1>22, <1>23, <1>24, <1>25, <1>27, <1>28, <1>29, <1>30, <1>31, <1>32 DEF Next

-----------------------------------------------------------------------------
(* The cartridge.                                                          *)

\* What is left of a job writes the core only if past.overwritten tells so.
CoreWrites(steps) == \E k \in 1 .. Len(steps) : IsCoreWrite(steps[k])
CartInv == CartIsFile /\ (CoreWrites(job) => past.overwritten)

LEMMA SaveWritesNoCore ==
  ASSUME NEW p \in Profile, NEW w, NEW os PROVE ~CoreWrites(SaveJob(p, w, os))
<1> DEFINE c == [x \in Region |-> Changed(p, w, os)[x]]
           E == EraseFlash(0, 3)
           steps == <<E, Write(c)>>
<1>1. E.op = "erase" /\ Write(c).contents = c
  BY DEF EraseFlash, Erase, Write
<1>2. SettingsAt(p) \in Region /\ SettingsAt(p) \notin CoreChunk
  BY DEF Region, Item, Block, SettingsAt, CoreChunk
<1> HIDE DEF E
<1>3. ~(DOMAIN c \subseteq CoreChunk)
  BY <1>2
<1> HIDE DEF c
<1>4. ~IsCoreWrite(E) /\ ~IsCoreWrite(Write(c))
  BY <1>1, <1>3 DEF IsCoreWrite
<1>5. Len(steps) = 2 /\ steps[1] = E /\ steps[2] = Write(c)
  OBVIOUS
<1> HIDE DEF steps
<1>6. \A k \in 1 .. Len(steps) : k = 1 \/ k = 2
  BY <1>5
<1>7. ~CoreWrites(steps)
  BY <1>4, <1>5, <1>6 DEF CoreWrites
<1> QED BY <1>7 DEF SaveJob, steps, c, E

LEMMA CartStep == ASSUME TypeOK, JobType, StackInv, CartInv, [Next]_vars PROVE CartInv'
<1> USE DEF machine, firmware, flashVars
<1>0. /\ past \in PastSet /\ out \in OutSet /\ file4 \in FileSet
      /\ past.overwritten \in BOOLEAN
  BY PastChanged DEF TypeOK
<1>1. ASSUME out'.cart = out.cart, past'.overwritten = past.overwritten, UNCHANGED <<cartmem, job>>,
             file4' = file4 \/ file4' = Unread
      PROVE  CartInv'
  BY <1>1 DEF CartInv, CartIsFile, CoreWrites, Unread
<1>3. \A x, y :
        /\ [out EXCEPT !.paused = x, !.freezer = y].cart = out.cart
        /\ [out EXCEPT !.other = x].cart = out.cart
        /\ [out EXCEPT !.cart = x].cart = x
  BY <1>0 DEF OutSet
<1>4. ASSUME CardSeen PROVE file4' = file4 \/ file4' = Unread
  BY <1>4 DEF CardSeen
<1>5. CASE Run BY <1>0, <1>1, <1>5, PastFields DEF Run
<1>6. CASE PowerLoss
  <2>1. sd_present' \in BOOLEAN
    BY <1>6 DEF PowerLoss, TypeOK
  <2>2. out'.cart = "off"
    BY <1>6, <2>1, BootedType DEF PowerLoss, TypeOK
  <2>3. ~CoreWrites(<<>>)
    BY DEF CoreWrites
  <2> QED BY <1>6, <2>2, <2>3 DEF PowerLoss, CartInv, CartIsFile, CoreWrites
<1>7. CASE MoveCard BY <1>1, <1>7 DEF MoveCard
<1>8. CASE NoHotkey BY <1>1, <1>4, <1>8 DEF NoHotkey
<1>9. CASE SoftBoot BY <1>0, <1>1, <1>3, <1>4, <1>9, PastFields DEF SoftBoot, Reboot
<1>10. CASE ColdBoot BY <1>0, <1>1, <1>3, <1>4, <1>10, PastFields DEF ColdBoot, Reboot
<1>11. CASE \E menu \in {"devices", "settings"} : Enter(menu)
  BY <1>0, <1>1, <1>3, <1>4, <1>11, PastFields DEF Enter
<1>12. CASE Escape BY <1>0, <1>1, <1>3, <1>12, PastFields DEF Escape, Resume
<1>13. CASE Wake BY <1>1, <1>13 DEF Wake
<1>14. CASE Exit BY <1>0, <1>1, <1>3, <1>14, PastFields DEF Exit, Resume
<1>15. CASE OtherEntry BY <1>1, <1>15 DEF OtherEntry
<1>16. CASE Hang BY <1>1, <1>16 DEF Hang
<1>17. ASSUME NEW f \in Selected(Car), file4'.name = f.name, out'.cart = LoadCar(f),
              LoadCar(f) # "off" => cartmem' = f.name, job = <<>>, job' = job
       PROVE  CartInv'
  <2>1. LoadCar(f) # "off" => LoadCar(f) = f.name
    BY DEF LoadCar
  <2>2. CartIsFile'
    BY <1>17, <2>1 DEF CartIsFile
  <2>3. ~CoreWrites(job')
    BY <1>17 DEF CoreWrites
  <2> QED BY <2>2, <2>3 DEF CartInv, CoreWrites
<1>18. ASSUME InsertCart \/ RemoveCart, job = <<>> PROVE CartInv'
  <2>1. CASE InsertCart
    <3>1. PICK f \in Selected(Car) :
            /\ file4' = [f EXCEPT !.done = @ \/ f.name # NoFile]
            /\ out' = [out EXCEPT !.cart = LoadCar(f)]
            /\ cartmem' = IF f.name \notin Car \/ f.done THEN cartmem
                          ELSE IF f.name \in Short THEN NoFile ELSE f.name
      BY <2>1 DEF InsertCart
    <3>2. file4'.name = f.name
      BY <1>0, <3>1, SelectedType DEF FileSet
    <3>3. out'.cart = LoadCar(f)
      BY <1>3, <3>1
    <3>4. LoadCar(f) # "off" => cartmem' = f.name
      BY <3>1 DEF LoadCar
    <3>5. job' = job
      BY <2>1 DEF InsertCart
    <3> QED BY <1>17, <1>18, <3>1, <3>2, <3>3, <3>4, <3>5
  <2>2. CASE RemoveCart
    <3>1. out'.cart = "off" /\ job' = job
      BY <1>3, <2>2 DEF RemoveCart
    <3>2. ~CoreWrites(job')
      BY <1>18, <3>1 DEF CoreWrites
    <3> QED BY <3>1, <3>2 DEF CartInv, CartIsFile, CoreWrites
  <2> QED BY <1>18, <2>1, <2>2
<1>19. CASE CartEntry BY <1>18, <1>19 DEF CartEntry, In, StackInv
<1>20. CASE CartStart
  <2>1. PICK f \in Selected(Car) :
          /\ LoadCar(f) # "off"
          /\ file4' = [f EXCEPT !.done = TRUE]
          /\ cartmem' = f.name
          /\ out' = [paused |-> FALSE, freezer |-> freezer_rom_present, cart |-> LoadCar(f),
                     other |-> out.other]
    BY <1>20 DEF CartStart
  <2>2. file4'.name = f.name
    BY <1>0, <2>1, SelectedType DEF FileSet
  <2>3. out'.cart = LoadCar(f)
    BY <2>1
  <2>4. job = <<>> /\ job' = job
    BY <1>20 DEF CartStart, In, StackInv
  <2> QED BY <1>17, <2>1, <2>2, <2>3, <2>4
<1>21. CASE CartKey BY <1>18, <1>21 DEF CartKey, In, StackInv
<1>22. CASE ChangeSetting BY <1>1, <1>3, <1>22 DEF ChangeSetting
<1>23. CASE ChangeOs BY <1>1, <1>23 DEF ChangeOs
<1>24. CASE SelectProfile BY <1>1, <1>24 DEF SelectProfile
<1>25. ASSUME NEW n \in 1 .. NbrProfiles, ProfileLoaded(n)
       PROVE  out'.cart = out.cart
  <2>1. SettingsAt(n - 1) \in Item
    BY FlashAssumption DEF Item, Profile
  <2>2. /\ Masked(out, flash[SettingsAt(n - 1)]) \in OutSet
        /\ Masked(out, flash[SettingsAt(n - 1)])["cart"] = out["cart"]
    BY <1>0, <2>1, MaskedType DEF TypeOK
  <2> QED BY <1>25, <2>2 DEF ProfileLoaded, OutSet
<1>26. CASE LoadProfile BY <1>1, <1>25, <1>26 DEF LoadProfile, ProfileLoaded, TypeOK
<1>27. CASE ProfileKey BY <1>1, <1>25, <1>27 DEF ProfileKey, ProfileLoaded
<1>28. CASE SaveFlash
  <2>1. sel_profile - 1 \in Profile
    BY FlashAssumption DEF TypeOK, Profile
  <2>2. ~CoreWrites(job')
    BY <1>28, <2>1, SaveWritesNoCore DEF SaveFlash
  <2>3. past'.overwritten = past.overwritten
    BY <1>0, <1>28 DEF SaveFlash, PastSet
  <2> QED BY <1>28, <2>2, <2>3 DEF SaveFlash, CartInv, CartIsFile, CoreWrites
<1>29. CASE ProgramRBD
  <2>1. past'.overwritten
    BY <1>0, <1>29 DEF ProgramRBD, PastSet
  <2> QED BY <2>1 DEF CartInv, CartIsFile
<1>30. CASE Flash
  <2>1. job \in Seq(Step) /\ job # <<>> /\ job' = Tail(job) /\ UNCHANGED <<past, out, file4>>
    BY <1>30 DEF Flash, FlashStep, JobType
  <2>2. CoreWrites(job') => CoreWrites(job)
    <3>1. \A k \in 1 .. Len(Tail(job)) : Tail(job)[k] = job[k + 1] /\ k + 1 \in 1 .. Len(job)
      BY <2>1, TailOfStack
    <3> QED BY <2>1, <3>1 DEF CoreWrites
  <2>3. IsCoreWrite(Head(job)) => CoreWrites(job)
    <3>1. Head(job) = job[1] /\ 1 \in 1 .. Len(job)
      BY <2>1, TailOfStack
    <3> QED BY <3>1 DEF CoreWrites
  <2>4. ~past.overwritten => cartmem' = cartmem
    BY <1>30, <2>3 DEF Flash, CartInv
  <2> QED BY <2>1, <2>2, <2>4 DEF CartInv, CartIsFile, CoreWrites
<1>31. CASE UNCHANGED vars BY <1>1, <1>31 DEF vars
<1> QED BY <1>5, <1>6, <1>7, <1>8, <1>9, <1>10, <1>11, <1>12, <1>13, <1>14, <1>15, <1>16, <1>19, <1>20, <1>21, <1>22, <1>23, <1>24, <1>26, <1>27, <1>28, <1>29, <1>30, <1>31 DEF Next

-----------------------------------------------------------------------------
(* The flash.                                                              *)

\* What is left of a job brings each item to what should be kept.
FlashInv ==
  sector # 0 =>
    \A i \in Item : ~(i = PllTables /\ sector = 4) => Lands(job, i, flash[i], past.kept[i])

LEMMA NothingLeft == ASSUME NEW i, NEW v PROVE Lands(<<>>, i, v, v)
BY DEF Lands

LEMMA FlashInvStep ==
  ASSUME TypeOK, JobType, StackInv, FlashInv, [Next]_vars PROVE FlashInv'
<1> USE DEF machine, firmware, flashVars
<1>0. past \in PastSet /\ flash \in [Item -> Contents] /\ past.kept \in [Item -> Contents]
  BY PastChanged DEF TypeOK
<1>1. ASSUME UNCHANGED <<flash, sector, job>>, past'.kept = past.kept PROVE FlashInv'
  BY <1>1 DEF FlashInv, Lands, Writes, Erases
<1>3. sector # 0 => sector \in {1, 4}
  BY FlashAssumption DEF TypeOK
<1>4. ASSUME job = <<>>, sector # 0, NEW i \in Item, ~(i = PllTables /\ sector = 4)
      PROVE  past.kept[i] = flash[i]
  BY <1>4 DEF FlashInv, Lands
<1>5. CASE PowerLoss
  <2>1. job' = <<>> /\ UNCHANGED <<flash, sector>>
    BY <1>5 DEF PowerLoss
  <2>2. past'.kept = IF job = <<>> THEN past.kept ELSE flash
    BY <1>0, <1>5 DEF PowerLoss, PastSet
  <2>3. ASSUME sector # 0, NEW i \in Item, ~(i = PllTables /\ sector = 4)
        PROVE  past'.kept[i] = flash[i]
    BY <1>4, <2>2, <2>3
  <2>4. \A i \in Item : Lands(job', i, flash[i], flash[i])
    BY <2>1, NothingLeft
  <2> QED BY <2>1, <2>3, <2>4 DEF FlashInv
<1>6. CASE SaveFlash
  <2> DEFINE p == sel_profile - 1
  <2>1. p \in Profile
    BY FlashAssumption DEF TypeOK, Profile
  <2>2. job = <<>> /\ job' = SaveJob(p, Settings, rom) /\ UNCHANGED <<flash, sector>>
    BY <1>6 DEF SaveFlash, In, StackInv
  <2>3. past'.kept = [past.kept EXCEPT ![SettingsAt(p)] = Settings, ![OsAt(p)] = rom]
    BY <1>0, <1>6 DEF SaveFlash, PastSet
  <2>4. ASSUME sector # 0, NEW i \in Item, ~(i = PllTables /\ sector = 4)
        PROVE  past'.kept[i] = Changed(p, Settings, rom)[i]
    <3>1. past.kept[i] = flash[i]
      BY <1>4, <2>2, <2>4
    <3> HIDE DEF p
    <3> QED BY <1>0, <2>3, <3>1 DEF Changed
  <2>5. ASSUME sector # 0, NEW i \in Item, ~(i = PllTables /\ sector = 4)
        PROVE  Lands(job', i, flash[i], past'.kept[i])
    <3>1. Lands(SaveJob(p, Settings, rom), i, flash[i], Changed(p, Settings, rom)[i])
      BY <1>0, <1>3, <2>1, <2>5, SaveJobLands
    <3> QED BY <2>2, <2>4, <2>5, <3>1
  <2> QED BY <2>2, <2>5 DEF FlashInv
<1>7. CASE ProgramRBD
  <2>1. PICK f \in Selected(Rpd) :
          /\ job' = RpdJob(f.name)
          /\ past' = [past EXCEPT !.saves = @ + 1, !.overwritten = TRUE,
                        !.kept = [i \in Item |-> IF i \in CoreChunk THEN <<f.name>> ELSE @[i]]]
    BY <1>7 DEF ProgramRBD
  <2>2. job = <<>> /\ UNCHANGED <<flash, sector>>
    BY <1>7 DEF ProgramRBD, In, StackInv
  <2>3. past'.kept = [i \in Item |-> IF i \in CoreChunk THEN <<f.name>> ELSE past.kept[i]]
    BY <1>0, <2>1 DEF PastSet
  <2>4. ASSUME sector # 0, NEW i \in Item, ~(i = PllTables /\ sector = 4)
        PROVE  Lands(job', i, flash[i], past'.kept[i])
    <3>1. past.kept[i] = flash[i]
      BY <1>4, <2>2, <2>4
    <3>2. past'.kept[i] = IF i \in CoreChunk THEN <<f.name>> ELSE flash[i]
      BY <2>3, <3>1
    <3>3. Lands(RpdJob(f.name), i, flash[i], IF i \in CoreChunk THEN <<f.name>> ELSE flash[i])
      BY <1>3, <2>4, RpdJobLands
    <3> QED BY <2>1, <3>2, <3>3
  <2> QED BY <2>2, <2>4 DEF FlashInv
<1>8. CASE Flash
  <2>1. /\ job \in Seq(Step) /\ job # <<>> /\ job' = Tail(job)
        /\ flash' = [i \in Item |-> After(Head(job), i)] /\ UNCHANGED <<past, sector>>
    BY <1>8 DEF Flash, FlashStep, JobType
  <2>2. ASSUME sector # 0, NEW i \in Item, ~(i = PllTables /\ sector = 4)
        PROVE  Lands(job', i, flash'[i], past.kept[i])
    <3>1. Lands(job, i, flash[i], past.kept[i])
      BY <2>2 DEF FlashInv
    <3>2. Lands(Tail(job), i, After(Head(job), i), past.kept[i])
      BY <2>1, <3>1, LandsStep
    <3> QED BY <2>1, <3>2
  <2> QED BY <2>1, <2>2 DEF FlashInv
<1>9. CASE Run BY <1>0, <1>1, <1>9, PastFields DEF Run
<1>10. CASE MoveCard BY <1>0, <1>1, <1>10, PastFields DEF MoveCard
<1>11. CASE NoHotkey BY <1>0, <1>1, <1>11, PastFields DEF NoHotkey
<1>12. CASE SoftBoot BY <1>0, <1>1, <1>12, PastFields DEF SoftBoot
<1>13. CASE ColdBoot BY <1>0, <1>1, <1>13, PastFields DEF ColdBoot
<1>14. CASE \E menu \in {"devices", "settings"} : Enter(menu) BY <1>0, <1>1, <1>14, PastFields DEF Enter
<1>15. CASE Escape BY <1>0, <1>1, <1>15, PastFields DEF Escape, Resume
<1>16. CASE Wake BY <1>0, <1>1, <1>16, PastFields DEF Wake
<1>17. CASE Exit BY <1>0, <1>1, <1>17, PastFields DEF Exit, Resume
<1>18. CASE OtherEntry BY <1>0, <1>1, <1>18, PastFields DEF OtherEntry
<1>19. CASE Hang BY <1>0, <1>1, <1>19, PastFields DEF Hang
<1>29. ASSUME InsertCart \/ RemoveCart PROVE past'.kept = past.kept /\ UNCHANGED <<flash, sector, job>>
  <2>1. CASE InsertCart BY <1>0, <2>1, PastFields DEF InsertCart
  <2>2. CASE RemoveCart BY <2>2 DEF RemoveCart
  <2> QED BY <1>29, <2>1, <2>2
<1>20. CASE CartEntry BY <1>1, <1>20, <1>29 DEF CartEntry
<1>21. CASE CartStart BY <1>0, <1>1, <1>21, PastFields DEF CartStart
<1>22. CASE CartKey BY <1>1, <1>22, <1>29 DEF CartKey
<1>23. CASE ChangeSetting BY <1>0, <1>1, <1>23, PastFields DEF ChangeSetting
<1>24. CASE ChangeOs BY <1>0, <1>1, <1>24, PastFields DEF ChangeOs
<1>25. CASE SelectProfile BY <1>0, <1>1, <1>25, PastFields DEF SelectProfile
<1>26. CASE LoadProfile BY <1>0, <1>1, <1>26, PastFields DEF LoadProfile, ProfileLoaded
<1>27. CASE ProfileKey BY <1>0, <1>1, <1>27, PastFields DEF ProfileKey, ProfileLoaded
<1>28. CASE UNCHANGED vars BY <1>0, <1>1, <1>28, PastFields DEF vars
<1> QED BY <1>5, <1>6, <1>7, <1>8, <1>9, <1>10, <1>11, <1>12, <1>13, <1>14, <1>15, <1>16, <1>17, <1>18, <1>19, <1>20, <1>21, <1>22, <1>23, <1>24, <1>25, <1>26, <1>27, <1>28 DEF Next

-----------------------------------------------------------------------------
(* The theorems.                                                           *)

MenuInv == TypeOK /\ JobType /\ StackInv /\ MachineInv /\ CartInv /\ FlashInv

LEMMA MenuInit == Init => MenuInv
<1> SUFFICES ASSUME Init PROVE MenuInv
  OBVIOUS
<1> USE DEF Init
<1>1. flash = Factory /\ flash \in [Item -> Contents] /\ sector \in SectorBlocks /\ job = <<>>
  BY FactoryType DEF FlashInit
<1>2. card \in BOOLEAN /\ sd_present \in BOOLEAN
  OBVIOUS
<1>3. /\ out \in OutSet /\ rom \in Contents /\ freezer_rom_present \in BOOLEAN
      /\ ~out.paused /\ out.cart = "off"
  BY <1>1, <1>2, BootedType
<1>4. /\ past.kept = Factory /\ past.disturbed = FALSE /\ past.overwritten = FALSE
      /\ past \in PastSet
  BY <1>1, MenuAssumption DEF PastSet
<1>5. menus \in Seq({"devices", "settings"}) /\ Len(menus) = 0
  OBVIOUS
<1>6. file4 \in FileSet
  BY FileChanged
<1>7. TypeOK
  BY <1>1, <1>2, <1>3, <1>4, <1>5, <1>6, FlashAssumption DEF TypeOK, Age
<1>8. JobType /\ StackInv
  BY <1>1, <1>5 DEF JobType, StackInv
<1>9. MachineInv
  BY <1>4, <1>5 DEF MachineInv
<1>10. CartInv
  BY <1>1, <1>3 DEF CartInv, CartIsFile, CoreWrites
<1>11. FlashInv
  BY <1>1, <1>4, NothingLeft DEF FlashInv
<1> QED BY <1>7, <1>8, <1>9, <1>10, <1>11 DEF MenuInv

\* In every state that the hot keys, the menus and the cuts of power lead to,
\* the types hold, the stack of menus says where the firmware is, the copies of
\* the machine are in place, the cartridge is the file, and what is left of a
\* write to the flash ends where it should.
THEOREM MenuInvariant == Spec => []MenuInv
<1>1. MenuInv /\ [Next]_vars => MenuInv'
  BY TypeStep, StackStep, MachineStep, CartStep, FlashInvStep DEF MenuInv
<1> QED BY <1>1, MenuInit, PTL DEF Spec

\* Every register, file and part of the flash has its type, so a profile that a
\* loss of power spoiled never selects a kind of cartridge that there is not
\* (load_settings in main.h).
THEOREM MenuTypes == Spec => []TypeOK
<1>1. MenuInv => TypeOK
  BY DEF MenuInv
<1> QED BY <1>1, MenuInvariant, PTL

\* In a menu the 6502 stands still but where actions() has let it go: after a
\* reset key in that menu, or once a menu over it was left (menu.c:92).
THEOREM MenuPausesMachine == Spec => []PausedInMenu
<1>1. MenuInv => PausedInMenu
  BY Zenon DEF MenuInv, MachineInv, PausedInMenu
<1> QED BY <1>1, MenuInvariant, PTL

\* After the menus the machine goes on with its own memory and chips (freeze and
\* restore of a800/freeze.c, around display_menu), unless a hot key was taken in
\* a menu, and again once the machine has run or was started without a menu.
THEOREM MachineResumes == Spec => []ResumesIntact
<1>1. MenuInv => ResumesIntact
  BY DEF MenuInv, MachineInv, StackInv, ResumesIntact
<1> QED BY <1>1, MenuInvariant, PTL

\* A cartridge that is switched on is whole in CARTRIDGE_MEM, and is the file
\* that the menu names (load_car and menuCart).
THEOREM CartridgeIsFile == Spec => []CartIsFile
<1>1. MenuInv => CartIsFile
  BY DEF MenuInv, CartInv
<1> QED BY <1>1, MenuInvariant, PTL

\* Once nothing is left to write, the flash holds what was saved and all else
\* that was in it (save_settings, flash_rpd and spiflash.c).
THEOREM FlashIsKept == Spec => []FlashKept
<1>1. MenuInv => FlashKept
  BY DEF MenuInv, FlashInv, FlashKept, Lands
<1> QED BY <1>1, MenuInvariant, PTL
=============================================================================
