--------------------------- MODULE UsbHost_proofs ---------------------------
(***************************************************************************)
(* Theorems about UsbHost, for any number of root ports, of devices and of *)
(* entries.                                                                *)
(*                                                                         *)
(* The numbers of the joysticks stay a permutation of those below the      *)
(* count.  The invariant adds where usb_poll is (PcInv) and that only an   *)
(* entry of the HID class has numbers (NumbersInv): an entry can stand on  *)
(* the stack of entries to release when it has been released already.      *)
(***************************************************************************)
EXTENDS UsbHost, FiniteSetTheorems, WellFoundedInduction, TLAPS

PcInv ==
  /\ pc \in [at : {"idle", "devices", "changed", "disabled", "release"}, turn : DOMAIN PollOrder,
             host : Host, slot : Nat \ {0}, ports : SUBSET Nat, stack : Seq(Slot)]
  /\ pc.at \in {"changed", "disabled", "release"} => pc.slot \in Slot
  /\ pc.at = "release" => pc.stack # <<>>

NumbersInv ==
  \A i \in Slot :
    /\ devices[i].jindex # <<>> => devices[i].used /\ devices[i].class = "hid"
    /\ Len(devices[i].jindex) <= MAX_IFACES

Inv == TypeOK /\ PcInv /\ NumbersInv /\ SticksNumbered

-----------------------------------------------------------------------------
(* What the operators return.                                              *)

\* The first of several entries is one of them.
LEMMA MinOfSet == ASSUME NEW S \in SUBSET Nat, S # {} PROVE Min(S) \in S
<1> DEFINE R == OpToRel(<, Nat)
<1> HIDE DEF R
<1>1. IsWellFoundedOn(R, Nat)
  BY NatLessThanWellFounded DEF R
<1>2. PICK x \in S : \A y \in S : ~ (<<y, x>> \in R)
  BY <1>1, WFMin
<1>3. ASSUME NEW y \in S PROVE x <= y
  <2>1. x \in Nat /\ y \in Nat
    OBVIOUS
  <2>2. y < x => <<y, x>> \in R
    BY <2>1 DEF OpToRel, R
  <2>3. ~ (y < x)
    BY <1>2, <2>2
  <2> QED BY <2>1, <2>3
<1> QED BY <1>3 DEF Min

LEMMA FirstSlot == ASSUME NEW S \in SUBSET Slot, S # {} PROVE Min(S) \in S
BY MinOfSet, UsbAssumption DEF Slot

LEMMA HostFacts ==
  /\ Len(PollOrder) \in Nat \ {0} /\ DOMAIN PollOrder = 1 .. Len(PollOrder)
  /\ \A k \in DOMAIN PollOrder : PollOrder[k] \in Host
  /\ PollOrder[1] \in Host
BY UsbAssumption DEF Host

LEMMA IdleType ==
  ASSUME NEW k \in DOMAIN PollOrder
  PROVE  Idle(k) \in [at : {"idle"}, turn : DOMAIN PollOrder, host : Host, slot : Nat \ {0},
                      ports : SUBSET Nat, stack : Seq(Slot)]
BY HostFacts DEF Idle

LEMMA NextTurn ==
  ASSUME NEW t \in DOMAIN PollOrder
  PROVE  (t % Len(PollOrder)) + 1 \in DOMAIN PollOrder
<1> DEFINE n == Len(PollOrder)
<1>1. n \in Nat /\ n > 0 /\ t \in Nat /\ DOMAIN PollOrder = 1 .. n
  BY HostFacts
<1> HIDE DEF n
<1>2. t % n \in 0 .. n - 1
  BY <1>1
<1>3. (t % n) + 1 \in 1 .. n
  BY <1>1, <1>2
<1> QED BY <1>1, <1>3 DEF n

LEMMA UnusedType == Unused \in Entry /\ Unused.jindex = <<>> /\ ~Unused.used
BY HostFacts, UsbAssumption DEF Unused, Entry

\* Power that goes off leaves the wiring in its sets.
LEMMA PowerlessType ==
  ASSUME NEW off, NEW gone, NEW ports \in [Port -> PortRegister], TypeOK,
         Powerless(off, gone, ports)
  PROVE  /\ power' \in [Hub -> BOOLEAN]
         /\ port' \in [Port -> PortRegister]
         /\ addr' \in [Gadget -> 0 .. USB_NUMDEVICES]
<1>1. power' \in [Hub -> BOOLEAN]
  BY DEF Powerless, TypeOK
<1>2. port' \in [Port -> PortRegister]
  <2>1. Quiet \in PortRegister
    BY DEF Quiet, PortRegister
  <2> QED BY <2>1 DEF Powerless
<1>3. addr' \in [Gadget -> 0 .. USB_NUMDEVICES]
  <2> DEFINE new(g) == IF g \in gone \/ \E s \in Port : s[1] \in off /\ socket[s] = g THEN 0 ELSE addr[g]
  <2>1. addr' = [g \in Gadget |-> new(g)]
    BY Zenon DEF Powerless
  <2>2. ASSUME NEW g \in Gadget PROVE new(g) \in 0 .. USB_NUMDEVICES
    BY UsbAssumption DEF TypeOK
  <2> HIDE DEF new
  <2> QED BY <2>1, <2>2
<1> QED BY <1>1, <1>2, <1>3

-----------------------------------------------------------------------------
(* The numbers, as a function of the entries d alone.                      *)

NumbersIn(d) ==
  \A i \in Slot :
    /\ d[i].jindex # <<>> => d[i].used /\ d[i].class = "hid"
    /\ Len(d[i].jindex) <= MAX_IFACES

Stick(d) == {x \in Slot \X (1 .. MAX_IFACES) : x[2] <= Len(d[x[1]].jindex)}
Number(d, x) == d[x[1]].jindex[x[2]]

Numbered(d, count, lost, moved) ==
  /\ Cardinality(Stick(d)) = count - lost
  /\ ~moved => /\ \A x, y \in Stick(d) : Number(d, x) = Number(d, y) => x = y
               /\ \A x \in Stick(d) : Number(d, x) < count

LEMMA StickType ==
  ASSUME NEW d \in [Slot -> Entry], NEW x \in Stick(d)
  PROVE  /\ x[1] \in Slot /\ x[2] \in 1 .. MAX_IFACES /\ x = <<x[1], x[2]>>
         /\ d[x[1]].jindex \in Seq(Nat) /\ x[2] \in 1 .. Len(d[x[1]].jindex)
         /\ d[x[1]].jindex # <<>> /\ Number(d, x) \in Nat
<1>1. x[1] \in Slot /\ x[2] \in 1 .. MAX_IFACES /\ x = <<x[1], x[2]>>
  BY DEF Stick
<1>2. d[x[1]].jindex \in Seq(Nat) /\ x[2] <= Len(d[x[1]].jindex)
  BY <1>1 DEF Entry, Stick
<1>3. x[2] \in 1 .. Len(d[x[1]].jindex)
  BY <1>1, <1>2 DEF MAX_IFACES
<1> QED BY <1>1, <1>2, <1>3 DEF Number

LEMMA IsStick ==
  ASSUME NEW d \in [Slot -> Entry], NumbersIn(d), NEW i \in Slot, NEW k \in 1 .. Len(d[i].jindex)
  PROVE  <<i, k>> \in Stick(d)
<1>1. d[i].jindex \in Seq(Nat) /\ Len(d[i].jindex) \in Nat
  BY DEF Entry
<1>2. k \in 1 .. MAX_IFACES /\ k <= Len(d[i].jindex)
  BY <1>1 DEF NumbersIn, MAX_IFACES
<1> QED BY <1>2 DEF Stick

LEMMA StickFinite == ASSUME NEW d PROVE IsFiniteSet(Stick(d)) /\ Cardinality(Stick(d)) \in Nat
<1>0. USB_NUMDEVICES \in Int /\ MAX_IFACES \in Int
  BY UsbAssumption DEF MAX_IFACES
<1>1. IsFiniteSet(Slot) /\ IsFiniteSet(1 .. MAX_IFACES)
  <2>1. \A n \in Int : IsFiniteSet(1 .. n)
    BY FS_Interval
  <2> QED BY <1>0, <2>1 DEF Slot
<1>2. IsFiniteSet(Slot \X (1 .. MAX_IFACES))
  BY <1>1, FS_Product
<1> QED BY <1>2, FS_Subset, FS_CardinalityType DEF Stick

\* What the invariant says of the state, in these terms.
LEMMA NumbersOfState ==
  /\ NumbersInv <=> NumbersIn(devices)
  /\ TypeOK /\ NumbersInv => (SticksNumbered <=> Numbered(devices, joysticks, past.leaked, past.moved))
<1>1. NumbersInv <=> NumbersIn(devices)
  BY DEF NumbersInv, NumbersIn
<1>2. ASSUME TypeOK, NumbersInv PROVE Iface = Stick(devices)
  <2>1. \A x \in Iface : x \in Stick(devices)
    BY DEF Iface, Stick
  <2>2. \A x \in Stick(devices) : x \in Iface
    BY <1>2, StickType DEF TypeOK, NumbersInv, Iface, Stick
  <2> QED BY <2>1, <2>2
<1>3. \A x : NumberOf(x) = Number(devices, x)
  BY DEF NumberOf, Number
<1> QED BY <1>1, <1>2, <1>3 DEF SticksNumbered, Numbered

LEMMA NumbersOfNextState ==
  /\ NumbersInv' <=> NumbersIn(devices')
  /\ TypeOK' /\ NumbersInv'
       => (SticksNumbered' <=> Numbered(devices', joysticks', past'.leaked, past'.moved))
<1>1. NumbersInv' <=> NumbersIn(devices')
  BY DEF NumbersInv, NumbersIn
<1>2. ASSUME TypeOK', NumbersInv' PROVE Iface' = Stick(devices')
  <2>1. \A x \in Iface' : x \in Stick(devices')
    BY DEF Iface, Stick
  <2>2. \A x \in Stick(devices') : x \in Iface'
    BY <1>2, StickType DEF TypeOK, NumbersInv, Iface, Stick
  <2> QED BY <2>1, <2>2
<1>3. \A x : NumberOf(x)' = Number(devices', x)
  BY DEF NumberOf, Number
<1> QED BY <1>1, <1>2, <1>3 DEF SticksNumbered, Numbered

\* Only the numbers of the entries matter.
LEMMA SameNumbers ==
  ASSUME NEW d \in [Slot -> Entry], NEW e \in [Slot -> Entry], NEW count, NEW lost, NEW moved,
         NumbersIn(d), Numbered(d, count, lost, moved),
         \A i \in Slot : /\ e[i].jindex = d[i].jindex
                         /\ d[i].jindex # <<>> => e[i].used = d[i].used /\ e[i].class = d[i].class
  PROVE  NumbersIn(e) /\ Numbered(e, count, lost, moved)
<1>1. NumbersIn(e)
  BY DEF NumbersIn
<1>2. Stick(e) = Stick(d)
  BY DEF Stick
<1>3. \A x \in Stick(d) : Number(e, x) = Number(d, x)
  BY StickType DEF Number
<1> QED BY <1>1, <1>2, <1>3 DEF Numbered

-----------------------------------------------------------------------------
(* A number is taken back.                                                 *)

LEMMA LoweredType ==
  ASSUME NEW seq \in Seq(Nat), NEW c \in Nat
  PROVE  /\ Lowered(seq, c) \in Seq(Nat) /\ Len(Lowered(seq, c)) = Len(seq)
         /\ \A k \in 1 .. Len(seq) : Lowered(seq, c)[k] = IF seq[k] > c THEN seq[k] - 1 ELSE seq[k]
<1>1. \A k \in 1 .. Len(seq) : (IF seq[k] > c THEN seq[k] - 1 ELSE seq[k]) \in Nat
  OBVIOUS
<1>2. DOMAIN seq = 1 .. Len(seq) /\ Len(seq) \in Nat
  OBVIOUS
<1>3. Lowered(seq, c) \in [1 .. Len(seq) -> Nat]
  BY <1>1, <1>2 DEF Lowered
<1>4. Lowered(seq, c) \in Seq(Nat) /\ Len(Lowered(seq, c)) = Len(seq)
  BY <1>2, <1>3
<1> QED BY <1>2, <1>4 DEF Lowered

LEMMA TailType ==
  ASSUME NEW seq \in Seq(Nat), seq # <<>>
  PROVE  /\ Tail(seq) \in Seq(Nat) /\ Len(Tail(seq)) = Len(seq) - 1 /\ Len(seq) \in Nat \ {0}
         /\ Head(seq) = seq[1] /\ seq[1] \in Nat
         /\ \A k \in 1 .. Len(seq) - 1 : Tail(seq)[k] = seq[k + 1]
  OBVIOUS

\* Entry i loses its first interface, and the numbers above its number go down.
LEMMA RenumberedEntries ==
  ASSUME TypeOK, NumbersInv, NEW i \in Slot, devices[i].jindex # <<>>
  PROVE  LET c == devices[i].jindex[1]
             low(v) == IF v > c THEN v - 1 ELSE v
             e == Renumbered(i)
         IN /\ c \in Nat /\ e \in [Slot -> Entry] /\ NumbersIn(e)
            /\ \A j \in Slot \ {i} :
                 /\ Len(e[j].jindex) = Len(devices[j].jindex)
                 /\ \A k \in 1 .. Len(devices[j].jindex) : e[j].jindex[k] = low(devices[j].jindex[k])
            /\ Len(e[i].jindex) = Len(devices[i].jindex) - 1
            /\ \A k \in 1 .. Len(devices[i].jindex) - 1 : e[i].jindex[k] = low(devices[i].jindex[k + 1])
<1> DEFINE c == devices[i].jindex[1]
           low(v) == IF v > c THEN v - 1 ELSE v
           e == Renumbered(i)
           lower(j) == IF devices[j].used /\ devices[j].class = "hid"
                       THEN Lowered(devices[j].jindex, c) ELSE devices[j].jindex
<1>1. \A j \in Slot : devices[j] \in Entry /\ devices[j].jindex \in Seq(Nat)
  BY DEF TypeOK, Entry
<1>2. c \in Nat /\ Head(devices[i].jindex) = c
  BY <1>1, TailType
<1>3. e = [j \in Slot |-> [devices[j] EXCEPT !.jindex = IF j = i THEN Tail(lower(i)) ELSE lower(j)]]
  BY <1>2 DEF Renumbered
<1>4. ASSUME NEW j \in Slot
      PROVE  /\ lower(j) \in Seq(Nat) /\ Len(lower(j)) = Len(devices[j].jindex)
             /\ \A k \in 1 .. Len(devices[j].jindex) : lower(j)[k] = low(devices[j].jindex[k])
  <2>1. CASE devices[j].used /\ devices[j].class = "hid"
    BY <1>1, <1>2, <2>1, LoweredType
  <2>2. CASE ~(devices[j].used /\ devices[j].class = "hid")
    <3>1. devices[j].jindex = <<>>
      BY <2>2 DEF NumbersInv
    <3> QED BY <1>1, <2>2, <3>1
  <2> QED BY <2>1, <2>2
<1>5. lower(i) # <<>> /\ Len(lower(i)) \in Nat \ {0}
  BY <1>1, <1>4, TailType
<1>6. /\ Tail(lower(i)) \in Seq(Nat) /\ Len(Tail(lower(i))) = Len(devices[i].jindex) - 1
      /\ \A k \in 1 .. Len(devices[i].jindex) - 1 : Tail(lower(i))[k] = low(devices[i].jindex[k + 1])
  <2>1. /\ Tail(lower(i)) \in Seq(Nat) /\ Len(Tail(lower(i))) = Len(lower(i)) - 1
        /\ \A k \in 1 .. Len(lower(i)) - 1 : Tail(lower(i))[k] = lower(i)[k + 1]
    BY <1>4, <1>5, TailType
  <2> QED BY <2>1, <1>4, <1>5
<1> HIDE DEF lower, low
<1>7. \A j \in Slot : e[j] = [devices[j] EXCEPT !.jindex = IF j = i THEN Tail(lower(i)) ELSE lower(j)]
  BY <1>3
<1>8. ASSUME NEW j \in Slot
      PROVE  /\ e[j] \in Entry /\ e[j].used = devices[j].used /\ e[j].class = devices[j].class
             /\ e[j].jindex = IF j = i THEN Tail(lower(i)) ELSE lower(j)
  <2> DEFINE seq == IF j = i THEN Tail(lower(i)) ELSE lower(j)
  <2>1. seq \in Seq(Nat)
    BY <1>4, <1>6
  <2>2. e[j] = [devices[j] EXCEPT !.jindex = seq]
    BY <1>7
  <2> HIDE DEF seq, e
  <2>3. /\ e[j] \in Entry /\ e[j].used = devices[j].used /\ e[j].class = devices[j].class
        /\ e[j].jindex = seq
    BY <1>1, <2>1, <2>2 DEF Entry
  <2> QED BY <2>3 DEF seq
<1>9. e \in [Slot -> Entry]
  BY <1>3, <1>8
<1>10. NumbersIn(e)
  <2> SUFFICES ASSUME NEW j \in Slot
               PROVE  /\ e[j].jindex # <<>> => e[j].used /\ e[j].class = "hid"
                      /\ Len(e[j].jindex) <= MAX_IFACES
    BY DEF NumbersIn
  <2>1. Len(e[j].jindex) <= Len(devices[j].jindex) /\ Len(e[j].jindex) \in Nat /\ Len(devices[j].jindex) \in Nat
    <3>1. CASE j = i
      <4>1. e[j].jindex = Tail(lower(i))
        BY <1>8, <3>1
      <4>2. Len(lower(i)) = Len(devices[i].jindex)
        BY <1>4
      <4> QED BY <1>5, <1>6, <3>1, <4>1, <4>2
    <3>2. CASE j # i
      <4>1. e[j].jindex = lower(j)
        BY <1>8, <3>2
      <4> QED BY <1>1, <1>4, <4>1
    <3> QED BY <3>1, <3>2
  <2>2. Len(devices[j].jindex) <= MAX_IFACES
    BY DEF NumbersInv
  <2>3. e[j].jindex # <<>> => devices[j].jindex # <<>>
    BY <1>1, <1>4, <1>8
  <2> QED BY <1>8, <2>1, <2>2, <2>3 DEF NumbersInv, MAX_IFACES
<1> QED BY <1>2, <1>4, <1>6, <1>8, <1>9, <1>10 DEF low

LEMMA NumberTakenBack ==
  ASSUME TypeOK, NumbersInv, SticksNumbered, NEW i \in Slot, devices[i].jindex # <<>>
  PROVE  /\ joysticks - 1 \in Nat
         /\ Renumbered(i) \in [Slot -> Entry] /\ NumbersIn(Renumbered(i))
         /\ Numbered(Renumbered(i), joysticks - 1, past.leaked, past.moved)
<1> DEFINE d == devices
           e == Renumbered(i)
           c == d[i].jindex[1]
           low(v) == IF v > c THEN v - 1 ELSE v
           last == <<i, Len(d[i].jindex)>>
           first == <<i, 1>>
           old(x) == IF x[1] = i THEN <<i, x[2] + 1>> ELSE x
<1>1. /\ c \in Nat /\ e \in [Slot -> Entry] /\ NumbersIn(e)
      /\ \A j \in Slot \ {i} :
           /\ Len(e[j].jindex) = Len(d[j].jindex)
           /\ \A k \in 1 .. Len(d[j].jindex) : e[j].jindex[k] = low(d[j].jindex[k])
      /\ Len(e[i].jindex) = Len(d[i].jindex) - 1
      /\ \A k \in 1 .. Len(d[i].jindex) - 1 : e[i].jindex[k] = low(d[i].jindex[k + 1])
  BY RenumberedEntries
<1>2. /\ d \in [Slot -> Entry] /\ NumbersIn(d) /\ joysticks \in Nat /\ past.leaked \in Nat
      /\ Numbered(d, joysticks, past.leaked, past.moved)
  BY NumbersOfState DEF TypeOK
<1>3. \A j \in Slot : d[j].jindex \in Seq(Nat) /\ Len(d[j].jindex) \in Nat
  BY <1>2 DEF Entry
<1>4. Len(d[i].jindex) \in Nat \ {0}
  BY <1>3
<1> HIDE DEF d, e
<1>5. first \in Stick(d) /\ last \in Stick(d) /\ Number(d, first) = c
  <2>1. 1 \in 1 .. Len(d[i].jindex) /\ Len(d[i].jindex) \in 1 .. Len(d[i].jindex)
    BY <1>4
  <2>2. first \in Stick(d) /\ last \in Stick(d)
    BY <1>2, <2>1, IsStick
  <2> QED BY <2>2 DEF Number
<1>6. Stick(e) = Stick(d) \ {last}
  <2>1. ASSUME NEW x \in Stick(e) PROVE x \in Stick(d) \ {last}
    <3>1. x[1] \in Slot /\ x[2] \in 1 .. MAX_IFACES /\ x = <<x[1], x[2]>> /\ x[2] \in 1 .. Len(e[x[1]].jindex)
      BY <1>1, StickType
    <3>2. CASE x[1] = i
      <4>1. x[2] \in 1 .. Len(d[i].jindex) /\ x[2] # Len(d[i].jindex)
        BY <1>1, <1>4, <3>1, <3>2
      <4>2. <<i, x[2]>> \in Stick(d)
        BY <1>2, <4>1, IsStick
      <4> QED BY <3>1, <3>2, <4>1, <4>2
    <3>3. CASE x[1] # i
      <4>1. x[2] \in 1 .. Len(d[x[1]].jindex)
        BY <1>1, <3>1, <3>3
      <4>2. <<x[1], x[2]>> \in Stick(d)
        BY <1>2, <3>1, <4>1, IsStick
      <4> QED BY <3>1, <3>3, <4>2
    <3> QED BY <3>2, <3>3
  <2>2. ASSUME NEW x \in Stick(d) \ {last} PROVE x \in Stick(e)
    <3>1. x[1] \in Slot /\ x[2] \in 1 .. MAX_IFACES /\ x = <<x[1], x[2]>> /\ x[2] \in 1 .. Len(d[x[1]].jindex)
      BY <1>2, StickType
    <3>2. x[2] \in 1 .. Len(e[x[1]].jindex)
      BY <1>1, <1>3, <1>4, <3>1
    <3>3. <<x[1], x[2]>> \in Stick(e)
      BY <1>1, <3>1, <3>2, IsStick
    <3> QED BY <3>1, <3>3
  <2> QED BY <2>1, <2>2
<1>7. IsFiniteSet(Stick(d)) /\ Cardinality(Stick(d)) \in Nat
  BY StickFinite
<1>8. Cardinality(Stick(e)) = Cardinality(Stick(d)) - 1
  <2> HIDE DEF last
  <2>1. Cardinality(Stick(d) \ {last}) = Cardinality(Stick(d)) - 1
    BY <1>5, <1>7, FS_RemoveElement
  <2> QED BY <1>6, <2>1
<1>9. Cardinality(Stick(d)) > 0
  BY <1>5, <1>7, FS_EmptySet
<1>10. joysticks - 1 \in Nat /\ Cardinality(Stick(e)) = (joysticks - 1) - past.leaked
  BY <1>2, <1>7, <1>8, <1>9 DEF Numbered
<1>11. ASSUME NEW x \in Stick(e)
       PROVE  old(x) \in Stick(d) /\ old(x) # first /\ Number(e, x) = low(Number(d, old(x)))
              /\ x = <<x[1], x[2]>> /\ x[2] \in Nat \ {0}
  <2>1. x[1] \in Slot /\ x[2] \in 1 .. MAX_IFACES /\ x = <<x[1], x[2]>> /\ x[2] \in 1 .. Len(e[x[1]].jindex)
    BY <1>1, StickType
  <2>2. CASE x[1] = i
    <3>1. x[2] \in 1 .. Len(d[i].jindex) - 1 /\ x[2] + 1 \in 1 .. Len(d[i].jindex) /\ x[2] \in Nat \ {0}
      BY <1>1, <1>4, <2>1, <2>2
    <3>2. <<i, x[2] + 1>> \in Stick(d)
      BY <1>2, <3>1, IsStick
    <3>3. e[i].jindex[x[2]] = low(d[i].jindex[x[2] + 1])
      BY <1>1, <3>1
    <3> QED BY <2>1, <2>2, <3>1, <3>2, <3>3 DEF Number
  <2>3. CASE x[1] # i
    <3>1. x[2] \in 1 .. Len(d[x[1]].jindex) /\ x[2] \in Nat \ {0}
      BY <1>1, <1>3, <2>1, <2>3
    <3>2. <<x[1], x[2]>> \in Stick(d)
      BY <1>2, <2>1, <3>1, IsStick
    <3>3. e[x[1]].jindex[x[2]] = low(d[x[1]].jindex[x[2]])
      BY <1>1, <2>1, <2>3, <3>1
    <3> QED BY <2>1, <2>3, <3>1, <3>2, <3>3 DEF Number
  <2> QED BY <2>2, <2>3
<1>12. ASSUME ~past.moved
       PROVE  /\ \A x, y \in Stick(e) : Number(e, x) = Number(e, y) => x = y
              /\ \A x \in Stick(e) : Number(e, x) < joysticks - 1
  <2>1. /\ \A x, y \in Stick(d) : Number(d, x) = Number(d, y) => x = y
        /\ \A x \in Stick(d) : Number(d, x) < joysticks
    BY <1>2, <1>12 DEF Numbered
  <2>2. ASSUME NEW x \in Stick(d), x # first
        PROVE  Number(d, x) # c /\ Number(d, x) \in Nat /\ Number(d, x) < joysticks
    BY <1>2, <1>5, <2>1, <2>2, StickType
  <2>3. c < joysticks
    BY <1>5, <2>1
  <2>4. ASSUME NEW x \in Stick(e) PROVE Number(e, x) < joysticks - 1
    <3> DEFINE v == Number(d, old(x))
    <3>1. v \in Nat /\ v # c /\ v < joysticks /\ Number(e, x) = low(v)
      BY <1>11, <2>2
    <3> HIDE DEF v
    <3> QED BY <1>1, <1>2, <2>3, <3>1
  <2>5. ASSUME NEW x \in Stick(e), NEW y \in Stick(e), Number(e, x) = Number(e, y) PROVE x = y
    <3>1. /\ Number(d, old(x)) # c /\ Number(d, old(x)) \in Nat
          /\ Number(d, old(y)) # c /\ Number(d, old(y)) \in Nat
      BY <1>11, <2>2
    <3>2. low(Number(d, old(x))) = low(Number(d, old(y)))
      BY <1>11, <2>5
    <3>3. Number(d, old(x)) = Number(d, old(y))
      BY <1>1, <3>1, <3>2
    <3>4. old(x) = old(y)
      BY <1>11, <2>1, <3>3
    <3>5. x = <<x[1], x[2]>> /\ y = <<y[1], y[2]>> /\ x[2] \in Nat /\ y[2] \in Nat
      BY <1>11
    <3>6. x[1] = i <=> y[1] = i
      BY <3>4, <3>5
    <3> QED BY <3>4, <3>5, <3>6
  <2> QED BY <2>4, <2>5
<1> QED BY <1>1, <1>10, <1>12 DEF e, Numbered

-----------------------------------------------------------------------------
(* Numbers are given.                                                      *)

LEMMA NumbersType ==
  ASSUME NEW n \in 0 .. MAX_IFACES, joysticks \in Nat
  PROVE  /\ Numbers(n) \in Seq(Nat) /\ Len(Numbers(n)) = n
         /\ \A k \in 1 .. n : Numbers(n)[k] = joysticks + k - 1
         /\ n = 0 => Numbers(n) = <<>>
<1>1. n \in Nat
  BY DEF MAX_IFACES
<1>2. \A k \in 1 .. n : joysticks + k - 1 \in Nat
  BY <1>1
<1>3. Numbers(n) \in [1 .. n -> Nat]
  BY <1>2 DEF Numbers
<1>4. Numbers(n) \in Seq(Nat) /\ Len(Numbers(n)) = n
  BY <1>1, <1>3
<1>5. n = 0 => Numbers(n) = <<>>
  BY <1>4
<1> QED BY <1>4, <1>5 DEF Numbers

\* An unused entry becomes e, whose n interfaces get the numbers from the count on.
LEMMA NumbersGiven ==
  ASSUME TypeOK, NumbersInv, SticksNumbered, NEW i \in Slot, ~devices[i].used,
         NEW n \in 0 .. MAX_IFACES, NEW new \in Entry, new.jindex = Numbers(n),
         n # 0 => new.used /\ new.class = "hid"
  PROVE  LET e == [devices EXCEPT ![i] = new] IN
           /\ e \in [Slot -> Entry] /\ NumbersIn(e)
           /\ Numbered(e, joysticks + n, past.leaked, past.moved)
<1> DEFINE d == devices
           e == [devices EXCEPT ![i] = new]
           given == {<<i, k>> : k \in 1 .. n}
<1>1. /\ d \in [Slot -> Entry] /\ NumbersIn(d) /\ joysticks \in Nat /\ past.leaked \in Nat
      /\ Numbered(d, joysticks, past.leaked, past.moved)
  BY NumbersOfState DEF TypeOK
<1>2. d[i].jindex = <<>>
  BY DEF NumbersInv
<1>3. /\ e \in [Slot -> Entry] /\ e[i].jindex = Numbers(n)
      /\ \A j \in Slot \ {i} : e[j] = d[j]
  BY <1>1
<1>4. /\ Numbers(n) \in Seq(Nat) /\ Len(Numbers(n)) = n /\ n \in Nat /\ n <= MAX_IFACES
      /\ \A k \in 1 .. n : Numbers(n)[k] = joysticks + k - 1
      /\ n = 0 => Numbers(n) = <<>>
  <2>1. n \in Nat /\ n <= MAX_IFACES
    BY DEF MAX_IFACES
  <2> QED BY <1>1, <2>1, NumbersType
<1>5. NumbersIn(e)
  <2> SUFFICES ASSUME NEW j \in Slot
               PROVE  /\ e[j].jindex # <<>> => e[j].used /\ e[j].class = "hid"
                      /\ Len(e[j].jindex) <= MAX_IFACES
    BY DEF NumbersIn
  <2>1. CASE j = i
    BY <1>3, <1>4, <2>1, <1>1
  <2>2. CASE j # i
    BY <1>1, <1>3, <2>2 DEF NumbersIn
  <2> QED BY <2>1, <2>2
<1> HIDE DEF d, e
<1>6. Stick(e) = Stick(d) \cup given
  <2>1. ASSUME NEW x \in Stick(e) PROVE x \in Stick(d) \cup given
    <3>1. x[1] \in Slot /\ x = <<x[1], x[2]>> /\ x[2] \in 1 .. Len(e[x[1]].jindex)
      BY <1>3, StickType
    <3>2. CASE x[1] = i
      BY <1>3, <1>4, <3>1, <3>2
    <3>3. CASE x[1] # i
      <4>1. <<x[1], x[2]>> \in Stick(d)
        BY <1>1, <1>3, <3>1, <3>3, IsStick
      <4> QED BY <3>1, <4>1
    <3> QED BY <3>2, <3>3
  <2>2. ASSUME NEW x \in Stick(d) PROVE x \in Stick(e)
    <3>1. x[1] \in Slot /\ x = <<x[1], x[2]>> /\ x[2] \in 1 .. Len(d[x[1]].jindex) /\ d[x[1]].jindex # <<>>
      BY <1>1, StickType
    <3>2. <<x[1], x[2]>> \in Stick(e)
      BY <1>2, <1>3, <1>5, <3>1, IsStick
    <3> QED BY <3>1, <3>2
  <2>3. ASSUME NEW k \in 1 .. n PROVE <<i, k>> \in Stick(e)
    BY <1>3, <1>4, <1>5, IsStick
  <2> QED BY <2>1, <2>2, <2>3
<1>7. ASSUME NEW x \in given PROVE x \notin Stick(d)
  BY <1>1, <1>2, StickType
<1>8. IsFiniteSet(Stick(d)) /\ Cardinality(Stick(d)) \in Nat
  BY StickFinite
<1>9. Cardinality(Stick(e)) = Cardinality(Stick(d)) + n
  <2>1. n \in {0, 1, 2}
    BY DEF MAX_IFACES
  <2>2. CASE n = 0
    <3>1. given = {}
      BY <2>2
    <3>2. Stick(e) = Stick(d)
      BY <1>6, <3>1
    <3>3. Cardinality(Stick(e)) = Cardinality(Stick(d))
      BY <3>2
    <3> QED BY <1>8, <2>2, <3>3
  <2>3. CASE n = 1
    <3>1. given = {<<i, 1>>}
      BY <2>3
    <3>2. <<i, 1>> \notin Stick(d)
      BY <1>7, <3>1
    <3>3. Cardinality(Stick(d) \cup {<<i, 1>>}) = Cardinality(Stick(d)) + 1
      <4> DEFINE one == <<i, 1>>
      <4> HIDE DEF one
      <4>1. one \notin Stick(d)
        BY <3>2 DEF one
      <4>2. Cardinality(Stick(d) \cup {one}) = Cardinality(Stick(d)) + 1
        BY <1>8, <4>1, FS_AddElement
      <4> QED BY <4>2 DEF one
    <3> QED BY <1>6, <2>3, <3>1, <3>3
  <2>4. CASE n = 2
    <3> DEFINE one == <<i, 1>>
               two == <<i, 2>>
               S == Stick(d) \cup {one}
    <3>1. given = {one, two} /\ one # two
      BY <2>4
    <3>2. one \notin Stick(d) /\ two \notin S
      BY <1>7, <3>1
    <3> HIDE DEF one, two
    <3>3. Cardinality(S) = Cardinality(Stick(d)) + 1 /\ IsFiniteSet(S)
      BY <1>8, <3>2, FS_AddElement
    <3> HIDE DEF S
    <3>4. Cardinality(S \cup {two}) = Cardinality(S) + 1
      BY <3>2, <3>3, FS_AddElement
    <3>5. Stick(e) = S \cup {two}
      BY <1>6, <3>1 DEF S
    <3> QED BY <1>8, <2>4, <3>3, <3>4, <3>5
  <2> QED BY <2>1, <2>2, <2>3, <2>4
<1>10. ASSUME NEW x \in Stick(d) PROVE Number(e, x) = Number(d, x) /\ Number(d, x) \in Nat
  BY <1>1, <1>2, <1>3, StickType DEF Number
<1>11. ASSUME NEW x \in given
       PROVE  Number(e, x) = joysticks + x[2] - 1 /\ x = <<i, x[2]>> /\ x[2] \in 1 .. n
  BY <1>3, <1>4 DEF Number
<1>12. ASSUME ~past.moved
       PROVE  /\ \A x, y \in Stick(e) : Number(e, x) = Number(e, y) => x = y
              /\ \A x \in Stick(e) : Number(e, x) < joysticks + n
  <2>1. /\ \A x, y \in Stick(d) : Number(d, x) = Number(d, y) => x = y
        /\ \A x \in Stick(d) : Number(d, x) < joysticks
    BY <1>1, <1>12 DEF Numbered
  <2> HIDE DEF given
  <2>2. ASSUME NEW x \in Stick(d)
        PROVE  Number(e, x) < joysticks /\ Number(e, x) \in Nat /\ Number(e, x) = Number(d, x)
    BY <1>10, <2>1
  <2>3. ASSUME NEW x \in given PROVE Number(e, x) >= joysticks /\ Number(e, x) < joysticks + n
    BY <1>1, <1>4, <1>11
  <2>4. ASSUME NEW x \in Stick(e) PROVE Number(e, x) < joysticks + n
    BY <1>1, <1>4, <1>6, <2>2, <2>3
  <2>5. ASSUME NEW x \in Stick(e), NEW y \in Stick(e), Number(e, x) = Number(e, y) PROVE x = y
    <3>1. CASE x \in Stick(d) /\ y \in Stick(d)
      BY <2>1, <2>2, <2>5, <3>1
    <3>2. CASE x \in given /\ y \in given
      <4>1. /\ Number(e, x) = joysticks + x[2] - 1 /\ x = <<i, x[2]>> /\ x[2] \in 1 .. n
            /\ Number(e, y) = joysticks + y[2] - 1 /\ y = <<i, y[2]>> /\ y[2] \in 1 .. n
        BY <1>11, <3>2
      <4>2. x[2] = y[2]
        <5> DEFINE p == x[2]
                   q == y[2]
        <5>1. joysticks + p - 1 = joysticks + q - 1
          BY <2>5, <4>1
        <5>2. p \in Nat /\ q \in Nat
          BY <1>4, <4>1
        <5> HIDE DEF p, q
        <5>3. p = q
          BY <1>1, <5>1, <5>2
        <5> QED BY <5>3 DEF p, q
      <4> QED BY <4>1, <4>2
    <3>3. ~ (x \in Stick(d) /\ y \in given)
      BY <1>1, <2>2, <2>3, <2>5
    <3>4. ~ (y \in Stick(d) /\ x \in given)
      BY <1>1, <2>2, <2>3, <2>5
    <3> QED BY <1>6, <3>1, <3>2, <3>3, <3>4
  <2> QED BY <2>4, <2>5
<1>13. Cardinality(Stick(e)) = (joysticks + n) - past.leaked
  BY <1>1, <1>4, <1>8, <1>9 DEF Numbered
<1> QED BY <1>3, <1>5, <1>12, <1>13 DEF Numbered, e

\* n numbers are lost.
LEMMA NumbersLost ==
  ASSUME NEW d, NEW count \in Nat, NEW lost \in Nat, NEW moved, NEW n \in Nat,
         d \in [Slot -> Entry], Numbered(d, count, lost, moved)
  PROVE  Numbered(d, count + n, lost + n, moved)
<1>1. Cardinality(Stick(d)) = (count + n) - (lost + n)
  BY StickFinite DEF Numbered
<1>2. \A x \in Stick(d) : Number(d, x) < count => Number(d, x) < count + n
  BY StickType
<1> QED BY <1>1, <1>2 DEF Numbered

-----------------------------------------------------------------------------
(* The numbers are rotated.                                                *)

LEMMA NumbersRotated ==
  ASSUME TypeOK, NumbersInv, SticksNumbered, Rotate
  PROVE  /\ devices' \in [Slot -> Entry] /\ NumbersIn(devices')
         /\ Numbered(devices', joysticks, past.leaked, past.moved \/ joysticks = 1)
<1> DEFINE d == devices
           top == IF joysticks = 1 THEN 1 ELSE joysticks - 1
           turn(v) == IF v + 1 > top THEN 0 ELSE v + 1
           turned(seq) == [k \in DOMAIN seq |-> turn(seq[k])]
           stick(i) == d[i].used /\ d[i].class = "hid"
           e == [i \in Slot |-> IF stick(i) THEN [d[i] EXCEPT !.jindex = turned(@)] ELSE d[i]]
<1>1. /\ d \in [Slot -> Entry] /\ NumbersIn(d) /\ joysticks \in Nat /\ past.leaked \in Nat
      /\ Numbered(d, joysticks, past.leaked, past.moved)
  BY NumbersOfState DEF TypeOK
<1>2. devices' = e
  BY DEF Rotate
<1>3. ASSUME NEW seq \in Seq(Nat)
      PROVE  /\ turned(seq) \in Seq(Nat) /\ Len(turned(seq)) = Len(seq)
             /\ \A k \in 1 .. Len(seq) : turned(seq)[k] = turn(seq[k])
  <2>1. Len(seq) \in Nat /\ DOMAIN seq = 1 .. Len(seq) /\ \A k \in 1 .. Len(seq) : turn(seq[k]) \in Nat
    BY <1>1
  <2>2. turned(seq) \in [1 .. Len(seq) -> Nat]
    BY <2>1
  <2> QED BY <2>1, <2>2
<1> HIDE DEF turned, turn, stick
<1>4. ASSUME NEW i \in Slot
      PROVE  /\ e[i] \in Entry /\ e[i].used = d[i].used /\ e[i].class = d[i].class
             /\ Len(e[i].jindex) = Len(d[i].jindex)
             /\ \A k \in 1 .. Len(d[i].jindex) : e[i].jindex[k] = turn(d[i].jindex[k])
  <2>1. d[i] \in Entry /\ d[i].jindex \in Seq(Nat)
    BY <1>1 DEF Entry
  <2>2. CASE stick(i)
    <3>1. e[i] = [d[i] EXCEPT !.jindex = turned(d[i].jindex)]
      BY <2>1, <2>2
    <3> QED BY <1>3, <2>1, <3>1 DEF Entry
  <2>3. CASE ~stick(i)
    <3>1. d[i].jindex = <<>>
      BY <1>1, <2>3 DEF NumbersIn, stick
    <3> QED BY <2>1, <2>3, <3>1
  <2> QED BY <2>2, <2>3
<1>5. e \in [Slot -> Entry]
  BY <1>4
<1> HIDE DEF e, d
<1>6. \A i \in Slot : Len(d[i].jindex) \in Nat /\ (e[i].jindex # <<>> => d[i].jindex # <<>>)
  <2> TAKE i \in Slot
  <2>1. d[i].jindex \in Seq(Nat) /\ e[i].jindex \in Seq(Nat)
    BY <1>1, <1>5 DEF Entry
  <2> QED BY <1>4, <2>1
<1>7. NumbersIn(e)
  BY <1>1, <1>4, <1>6 DEF NumbersIn
<1>8. Stick(e) = Stick(d)
  BY <1>4 DEF Stick
<1>9. ASSUME NEW x \in Stick(d) PROVE Number(e, x) = turn(Number(d, x)) /\ Number(d, x) \in Nat
  BY <1>1, <1>4, StickType DEF Number
<1>10. joysticks # 1 /\ Stick(d) # {} => joysticks >= 2
  <2>1. IsFiniteSet(Stick(d)) /\ Cardinality(Stick(d)) \in Nat
    BY StickFinite
  <2>2. Stick(d) # {} => Cardinality(Stick(d)) # 0
    BY <2>1, FS_EmptySet
  <2> QED BY <1>1, <2>1, <2>2 DEF Numbered
<1>11. ASSUME ~past.moved, joysticks # 1
       PROVE  /\ \A x, y \in Stick(d) : Number(e, x) = Number(e, y) => x = y
              /\ \A x \in Stick(d) : Number(e, x) < joysticks
  <2>1. /\ \A x, y \in Stick(d) : Number(d, x) = Number(d, y) => x = y
        /\ \A x \in Stick(d) : Number(d, x) < joysticks
    BY <1>1, <1>11 DEF Numbered
  <2>2. \A v \in 0 .. joysticks - 1 : joysticks >= 2 => turn(v) = IF v = joysticks - 1 THEN 0 ELSE v + 1
    BY <1>1, <1>11 DEF turn
  <2>3. ASSUME NEW x \in Stick(d)
        PROVE  /\ Number(d, x) \in 0 .. joysticks - 1 /\ joysticks >= 2
               /\ Number(e, x) = IF Number(d, x) = joysticks - 1 THEN 0 ELSE Number(d, x) + 1
    BY <1>1, <1>9, <1>10, <1>11, <2>1, <2>2
  <2>4. ASSUME NEW x \in Stick(d) PROVE Number(e, x) < joysticks
    BY <1>1, <2>3
  <2>5. ASSUME NEW x \in Stick(d), NEW y \in Stick(d), Number(e, x) = Number(e, y) PROVE x = y
    <3> DEFINE v == Number(d, x)
               w == Number(d, y)
    <3>1. /\ v \in 0 .. joysticks - 1 /\ w \in 0 .. joysticks - 1
          /\ (IF v = joysticks - 1 THEN 0 ELSE v + 1) = (IF w = joysticks - 1 THEN 0 ELSE w + 1)
      BY <2>3, <2>5
    <3> HIDE DEF v, w
    <3>2. v = w
      BY <1>1, <3>1
    <3>3. Number(d, x) = Number(d, y)
      BY <3>2 DEF v, w
    <3> QED BY <2>1, <3>3
  <2> QED BY <2>4, <2>5
<1> QED BY <1>1, <1>2, <1>5, <1>7, <1>8, <1>11 DEF Numbered

-----------------------------------------------------------------------------
(* The steps.                                                              *)

PastSet == [plugs : Nat, lapse : BOOLEAN, swapped : BOOLEAN, stray : BOOLEAN,
            moved : BOOLEAN, leaked : Nat]

\* What has happened, after a step that counts or notes it.
LEMMA PastType ==
  ASSUME NEW q \in PastSet, NEW b \in BOOLEAN
  PROVE  /\ [q EXCEPT !.lapse = b] \in PastSet
         /\ [q EXCEPT !.lapse = b].leaked = q.leaked /\ [q EXCEPT !.lapse = b].moved = q.moved
         /\ [q EXCEPT !.moved = b] \in PastSet /\ [q EXCEPT !.moved = b].leaked = q.leaked
         /\ [q EXCEPT !.moved = b].moved = b
BY DEF PastSet

LEMMA PastStray ==
  ASSUME NEW q \in PastSet, NEW b \in BOOLEAN
  PROVE  /\ [q EXCEPT !.stray = b] \in PastSet
         /\ [q EXCEPT !.stray = b].leaked = q.leaked /\ [q EXCEPT !.stray = b].moved = q.moved
BY DEF PastSet

LEMMA PastLost ==
  ASSUME NEW q \in PastSet, NEW m \in Nat
  PROVE  LET r == [q EXCEPT !.lapse = TRUE, !.leaked = @ + m]
         IN  r \in PastSet /\ r.leaked = q.leaked + m /\ r.moved = q.moved
<1>1. q.leaked + m \in Nat
  BY DEF PastSet
<1>2. \A k \in Nat : /\ [q EXCEPT !.lapse = TRUE, !.leaked = k] \in PastSet
                     /\ [q EXCEPT !.lapse = TRUE, !.leaked = k].leaked = k
                     /\ [q EXCEPT !.lapse = TRUE, !.leaked = k].moved = q.moved
  BY DEF PastSet
<1>3. [q EXCEPT !.lapse = TRUE, !.leaked = @ + m] = [q EXCEPT !.lapse = TRUE, !.leaked = q.leaked + m]
  BY DEF PastSet
<1> QED BY <1>1, <1>2, <1>3

\* The rest of the invariant follows where the numbers are as they were.
LEMMA NumbersKept ==
  ASSUME Inv, devices' \in [Slot -> Entry], joysticks' = joysticks,
         past'.leaked = past.leaked, past'.moved = past.moved,
         \A i \in Slot : /\ devices'[i].jindex = devices[i].jindex
                         /\ devices[i].jindex # <<>> => /\ devices'[i].used = devices[i].used
                                                        /\ devices'[i].class = devices[i].class
  PROVE  NumbersIn(devices') /\ Numbered(devices', joysticks', past'.leaked, past'.moved)
<1>1. devices \in [Slot -> Entry] /\ NumbersIn(devices)
      /\ Numbered(devices, joysticks, past.leaked, past.moved)
  BY NumbersOfState DEF Inv, TypeOK
<1> DEFINE d == devices
           e == devices'
<1>2. /\ d \in [Slot -> Entry] /\ e \in [Slot -> Entry] /\ NumbersIn(d)
      /\ Numbered(d, joysticks, past.leaked, past.moved)
      /\ \A i \in Slot : /\ e[i].jindex = d[i].jindex
                         /\ d[i].jindex # <<>> => e[i].used = d[i].used /\ e[i].class = d[i].class
  BY <1>1
<1> HIDE DEF d, e
<1>3. NumbersIn(e) /\ Numbered(e, joysticks, past.leaked, past.moved)
  BY <1>2, SameNumbers
<1> QED BY <1>3 DEF e

Wired ==
  /\ socket \in [Socket -> Gadget \cup {NoGadget}]
  /\ power \in [Hub -> BOOLEAN]
  /\ port \in [Port -> PortRegister]
  /\ addr \in [Gadget -> 0 .. USB_NUMDEVICES]

Listed ==
  /\ devices \in [Slot -> Entry] /\ joysticks \in Nat /\ past \in PastSet
  /\ NumbersIn(devices) /\ Numbered(devices, joysticks, past.leaked, past.moved)

Tasked == task \in [Host -> {"initialize", "wait", "settle", "reset", "configuring", "running"}]

LEMMA InvParts == Inv <=> Wired /\ Listed /\ Tasked /\ bResetInitiated \in BOOLEAN /\ PcInv
BY NumbersOfState DEF Inv, TypeOK, Wired, Listed, Tasked, PastSet

LEMMA InvPartsNext ==
  Inv' <=> Wired' /\ Listed' /\ Tasked' /\ bResetInitiated' \in BOOLEAN /\ PcInv'
BY NumbersOfNextState DEF Inv, TypeOK, Wired, Listed, Tasked, PastSet

LEMMA ListedKept == ASSUME Inv, UNCHANGED <<devices, joysticks>>, past' \in PastSet,
                           past'.leaked = past.leaked, past'.moved = past.moved
                    PROVE  Listed'
BY InvParts DEF Listed

\* A device is configured, or an attempt fails.
LEMMA ConfigureStep ==
  ASSUME Inv, NEW h \in Host, NEW w, NEW parent \in 0 .. USB_NUMDEVICES, NEW p \in Nat,
         NEW ports \in [Port -> PortRegister], NEW outcome, NEW n \in 0 .. MAX_IFACES,
         Configure(h, w, parent, p, ports, outcome, n)
  PROVE  Wired' /\ Listed'
<1> DEFINE i == Min(Free)
           g == socket[<<w, p>>]
           entry == [Unused EXCEPT !.host = h, !.parent = parent, !.port = p]
           whole == [entry EXCEPT !.used = TRUE, !.gadget = g, !.class = ClassOf(g), !.jindex = Numbers(n)]
           broken == [entry EXCEPT !.used = TRUE, !.gadget = g]
<1>1. Wired /\ Listed /\ past \in PastSet /\ past.leaked \in Nat /\ joysticks \in Nat
  BY InvParts DEF Listed, PastSet
<1>2. n \in Nat
  BY DEF MAX_IFACES
<1>3. Free # {} => i \in Slot /\ ~devices[i].used
  BY FirstSlot DEF Free
<1>4. entry \in Entry /\ entry.jindex = <<>>
  BY UnusedType DEF Entry
<1>5. g \in Answering(h, 0) => g \in Gadget
  BY DEF Answering
<1>6. socket' = socket
  BY DEF Configure
<1>7. ASSUME NEW new \in Entry, new.jindex = <<>>, Free # {}, devices' = [devices EXCEPT ![i] = new]
      PROVE  devices' \in [Slot -> Entry] /\ NumbersIn(devices')
             /\ Numbered(devices', joysticks, past.leaked, past.moved)
  <2>1. 0 \in 0 .. MAX_IFACES /\ Numbers(0) = <<>>
    BY <1>1, NumbersType DEF MAX_IFACES
  <2>2. TypeOK /\ NumbersInv /\ SticksNumbered
    BY DEF Inv
  <2>3. Numbered([devices EXCEPT ![i] = new], joysticks + 0, past.leaked, past.moved)
        /\ [devices EXCEPT ![i] = new] \in [Slot -> Entry] /\ NumbersIn([devices EXCEPT ![i] = new])
    <3> HIDE DEF i
    <3> QED BY <1>3, <1>7, <2>1, <2>2, NumbersGiven
  <2> QED BY <1>1, <1>7, <2>3
<1>8. CASE /\ n = 0
           /\ \/ outcome = "full" /\ Free = {} /\ devices' = devices
              \/ outcome = "deaf" /\ Free # {} /\ devices' = [devices EXCEPT ![i] = entry]
           /\ port' = ports
           /\ past' = [past EXCEPT !.lapse = TRUE]
           /\ UNCHANGED <<power, addr, joysticks>>
  <2>1. Wired'
    BY <1>1, <1>6, <1>8 DEF Wired
  <2>2. past' \in PastSet /\ past'.leaked = past.leaked /\ past'.moved = past.moved
    BY <1>1, <1>8, PastType
  <2>3. devices' \in [Slot -> Entry] /\ NumbersIn(devices')
        /\ Numbered(devices', joysticks, past.leaked, past.moved)
    <3>1. CASE devices' = devices
      BY <1>1, <3>1 DEF Listed
    <3>2. CASE Free # {} /\ devices' = [devices EXCEPT ![i] = entry]
      <4> HIDE DEF entry, i
      <4> QED BY <1>4, <1>7, <3>2
    <3> QED BY <1>8, <3>1, <3>2
  <2> QED BY <1>1, <1>8, <2>1, <2>2, <2>3 DEF Listed
<1>9. ASSUME Free # {}, g \in Answering(h, 0),
             addr' = [x \in Gadget |-> IF x \in Answering(h, 0) THEN i ELSE addr[x]]
      PROVE  addr' \in [Gadget -> 0 .. USB_NUMDEVICES]
  <2>1. i \in 0 .. USB_NUMDEVICES
    BY <1>3, <1>9, UsbAssumption DEF Slot
  <2>2. \A x \in Gadget : addr[x] \in 0 .. USB_NUMDEVICES
    BY <1>1 DEF Wired
  <2> HIDE DEF i
  <2> QED BY <1>9, <2>1, <2>2
<1>10. CASE /\ Free # {} /\ g \in Answering(h, 0)
            /\ addr' = [x \in Gadget |-> IF x \in Answering(h, 0) THEN i ELSE addr[x]]
            /\ joysticks' = joysticks + n
            /\ outcome = "failed" /\ n <= Sticks[g]
            /\ devices' = [devices EXCEPT ![i] = broken]
            /\ past' = [past EXCEPT !.lapse = TRUE, !.leaked = @ + n]
            /\ port' = ports
            /\ UNCHANGED power
  <2>1. Wired'
    BY <1>1, <1>6, <1>9, <1>10 DEF Wired
  <2>2. past' \in PastSet /\ past'.leaked = past.leaked + n /\ past'.moved = past.moved
    <3> DEFINE noted == [past EXCEPT !.lapse = TRUE, !.leaked = @ + n]
    <3>1. noted \in PastSet /\ noted.leaked = past.leaked + n /\ noted.moved = past.moved
      BY <1>1, <1>2, PastLost
    <3>2. past' = noted
      BY <1>10
    <3> HIDE DEF noted
    <3> QED BY <3>1, <3>2
  <2>3. broken \in Entry /\ broken.jindex = <<>>
    BY <1>4, <1>5, <1>10 DEF Entry
  <2>4. devices' \in [Slot -> Entry] /\ NumbersIn(devices')
        /\ Numbered(devices', joysticks, past.leaked, past.moved)
    <3> HIDE DEF broken, i
    <3> QED BY <1>7, <1>10, <2>3
  <2>5. Numbered(devices', joysticks + n, past.leaked + n, past.moved)
    BY <1>1, <1>2, <2>4, NumbersLost
  <2> QED BY <1>1, <1>2, <1>10, <2>1, <2>2, <2>4, <2>5 DEF Listed
<1>11. CASE /\ Free # {} /\ g \in Answering(h, 0)
            /\ addr' = [x \in Gadget |-> IF x \in Answering(h, 0) THEN i ELSE addr[x]]
            /\ joysticks' = joysticks + n
            /\ outcome = "done" /\ n = Sticks[g]
            /\ devices' = [devices EXCEPT ![i] = whole]
            /\ power' = [x \in Hub |-> power[x] \/ x = g]
            /\ port' = [s \in Port |-> IF s[1] = g
                          THEN [Quiet EXCEPT !.cConnection = socket[s] # NoGadget] ELSE ports[s]]
            /\ past' = [past EXCEPT !.stray = @ \/ (ClassOf(g) = "none" /\ parent # 0)]
  <2>1. power' \in [Hub -> BOOLEAN]
    BY <1>11
  <2>2. port' \in [Port -> PortRegister]
    <3>1. \A s : [Quiet EXCEPT !.cConnection = socket[s] # NoGadget] \in PortRegister
      BY DEF Quiet, PortRegister
    <3>2. port' = [s \in Port |-> IF s[1] = g
                     THEN [Quiet EXCEPT !.cConnection = socket[s] # NoGadget] ELSE ports[s]]
      BY <1>11
    <3> HIDE DEF g
    <3> QED BY <3>1, <3>2
  <2>3. Wired'
    BY <1>1, <1>6, <1>9, <1>11, <2>1, <2>2 DEF Wired
  <2>4. ClassOf(g) \in {"none", "hub", "hid"} /\ (n # 0 => ClassOf(g) = "hid")
    BY <1>5, <1>11, UsbAssumption DEF ClassOf
  <2>5. Numbers(n) \in Seq(Nat)
    BY <1>1, NumbersType
  <2>6. whole \in Entry /\ whole.jindex = Numbers(n) /\ whole.used /\ whole.class = ClassOf(g)
    BY <1>4, <1>5, <1>11, <2>4, <2>5 DEF Entry
  <2>7. TypeOK /\ NumbersInv /\ SticksNumbered
    BY DEF Inv
  <2>8. devices' \in [Slot -> Entry] /\ NumbersIn(devices')
        /\ Numbered(devices', joysticks + n, past.leaked, past.moved)
    <3> HIDE DEF whole, i
    <3> QED BY <1>3, <1>11, <2>4, <2>6, <2>7, NumbersGiven
  <2>9. past' \in PastSet /\ past'.leaked = past.leaked /\ past'.moved = past.moved
    <3> DEFINE b == past.stray \/ (ClassOf(g) = "none" /\ parent # 0)
    <3>1. past' = [past EXCEPT !.stray = b] /\ b \in BOOLEAN
      BY <1>1, <1>11 DEF PastSet
    <3> HIDE DEF b
    <3> QED BY <1>1, <3>1, PastStray
  <2> QED BY <1>1, <1>2, <1>11, <2>3, <2>8, <2>9 DEF Listed
<1> HIDE DEF i, g
<1> QED BY <1>8, <1>10, <1>11 DEF Configure, i, g

\* The registers of the ports, after a change of one.
LEMMA RegisterType ==
  ASSUME NEW ports \in [Port -> PortRegister], NEW s, NEW b \in BOOLEAN
  PROVE  /\ [ports EXCEPT ![s].cConnection = TRUE] \in [Port -> PortRegister]
         /\ [ports EXCEPT ![s].cConnection = FALSE] \in [Port -> PortRegister]
         /\ [ports EXCEPT ![s].cReset = FALSE] \in [Port -> PortRegister]
         /\ [ports EXCEPT ![s].cConnection = FALSE, ![s].reset = b] \in [Port -> PortRegister]
         /\ [ports EXCEPT ![s].cConnection = TRUE, ![s].enabled = FALSE, ![s].reset = FALSE]
              \in [Port -> PortRegister]
         /\ [ports EXCEPT ![s] = [@ EXCEPT !.enabled = TRUE, !.reset = FALSE, !.cReset = TRUE]]
              \in [Port -> PortRegister]
BY DEF PortRegister

LEMMA PlugStep == ASSUME Inv, NEW g \in Gadget, NEW s \in Socket, Plug(g, s) PROVE Inv'
<1>1. Wired /\ Listed /\ Tasked /\ bResetInitiated \in BOOLEAN /\ PcInv /\ past \in PastSet
  BY InvParts DEF Listed
<1>2. port' \in [Port -> PortRegister]
  BY <1>1, RegisterType DEF Plug, Wired
<1>3. Wired'
  BY <1>1, <1>2 DEF Plug, Wired
<1>4. past' \in PastSet /\ past'.leaked = past.leaked /\ past'.moved = past.moved
  <2> DEFINE b == past.swapped \/ Unnoticed(s)
  <2>1. past' = [past EXCEPT !.plugs = past.plugs + 1, !.swapped = b]
    BY <1>1 DEF Plug, PastSet
  <2>2. b \in BOOLEAN /\ past.plugs + 1 \in Nat
    BY <1>1 DEF PastSet, Unnoticed, Wired, PortRegister
  <2> HIDE DEF b
  <2> QED BY <1>1, <2>1, <2>2 DEF PastSet
<1>5. Listed'
  BY <1>4, ListedKept DEF Plug
<1> QED BY <1>1, <1>3, <1>5, InvPartsNext DEF Plug, Tasked, PcInv

LEMMA UnplugStep == ASSUME Inv, NEW s \in Socket, Unplug(s) PROVE Inv'
<1>1. Wired /\ Listed /\ Tasked /\ bResetInitiated \in BOOLEAN /\ PcInv /\ past \in PastSet
  BY InvParts DEF Listed
<1> DEFINE left == IF s \in Port /\ power[s[1]]
                   THEN [port EXCEPT ![s].cConnection = TRUE, ![s].enabled = FALSE, ![s].reset = FALSE]
                   ELSE port
<1>2. left \in [Port -> PortRegister]
  BY <1>1, RegisterType DEF Wired
<1>3. Wired'
  <2>1. socket' \in [Socket -> Gadget \cup {NoGadget}]
    BY <1>1 DEF Unplug, Wired
  <2>2. TypeOK
    BY DEF Inv
  <2> HIDE DEF left
  <2>3. \A off, gone : Powerless(off, gone, left) =>
          /\ power' \in [Hub -> BOOLEAN] /\ port' \in [Port -> PortRegister]
          /\ addr' \in [Gadget -> 0 .. USB_NUMDEVICES]
    BY <1>2, <2>2, PowerlessType
  <2>4. \E off, gone : Powerless(off, gone, left)
    BY DEF Unplug, left
  <2> QED BY <2>1, <2>3, <2>4 DEF Wired
<1>4. past' \in PastSet /\ past'.leaked = past.leaked /\ past'.moved = past.moved
  <2> DEFINE b == past.lapse \/ bResetInitiated
  <2>1. past' = [past EXCEPT !.plugs = past.plugs + 1, !.lapse = b]
    BY <1>1 DEF Unplug, PastSet
  <2>2. b \in BOOLEAN /\ past.plugs + 1 \in Nat
    BY <1>1 DEF PastSet
  <2> HIDE DEF b
  <2> QED BY <1>1, <2>1, <2>2 DEF PastSet
<1>5. Listed'
  BY <1>4, ListedKept DEF Unplug
<1> QED BY <1>1, <1>3, <1>5, InvPartsNext DEF Unplug, Tasked, PcInv

LEMMA ResetDoneStep == ASSUME Inv, NEW s \in Socket, ResetDone(s) PROVE Inv'
<1>1. Wired /\ Listed /\ Tasked /\ bResetInitiated \in BOOLEAN /\ PcInv /\ past \in PastSet
  BY InvParts DEF Listed
<1> DEFINE done == [port EXCEPT ![s] = [@ EXCEPT !.enabled = TRUE, !.reset = FALSE, !.cReset = TRUE]]
<1>2. done \in [Port -> PortRegister]
  BY <1>1, RegisterType DEF Wired
<1>3. Wired'
  <2>1. TypeOK
    BY DEF Inv
  <2> HIDE DEF done
  <2>2. \A off, gone : Powerless(off, gone, done) =>
          /\ power' \in [Hub -> BOOLEAN] /\ port' \in [Port -> PortRegister]
          /\ addr' \in [Gadget -> 0 .. USB_NUMDEVICES]
    BY <1>2, <2>1, PowerlessType
  <2>3. \E off, gone : Powerless(off, gone, done)
    BY DEF ResetDone, done
  <2> QED BY <1>1, <2>2, <2>3 DEF Wired, ResetDone
<1>4. Listed'
  BY <1>1, ListedKept DEF ResetDone
<1> QED BY <1>1, <1>3, <1>4, InvPartsNext DEF ResetDone, Tasked, PcInv

LEMMA RotateStep == ASSUME Inv, Rotate PROVE Inv'
<1>1. Wired /\ Listed /\ Tasked /\ bResetInitiated \in BOOLEAN /\ PcInv /\ past \in PastSet
      /\ past.moved \in BOOLEAN
  BY InvParts DEF Listed, PastSet
<1>2. /\ devices' \in [Slot -> Entry] /\ NumbersIn(devices')
      /\ Numbered(devices', joysticks, past.leaked, past.moved \/ joysticks = 1)
  BY NumbersRotated DEF Inv
<1>3. /\ past' \in PastSet /\ past'.leaked = past.leaked
      /\ past'.moved = (past.moved \/ joysticks = 1)
  BY <1>1 DEF Rotate, PastSet
<1>4. Listed'
  BY <1>1, <1>2, <1>3 DEF Listed, Rotate
<1> QED BY <1>1, <1>4, InvPartsNext DEF Rotate, wiring, Wired, Tasked, PcInv

LEMMA ReleaseStickStep == ASSUME Inv, NEW i \in Slot, ReleaseStick(i) PROVE Inv'
<1>1. Wired /\ Listed /\ Tasked /\ bResetInitiated \in BOOLEAN /\ PcInv /\ past \in PastSet
  BY InvParts DEF Listed
<1>2. /\ joysticks - 1 \in Nat
      /\ Renumbered(i) \in [Slot -> Entry] /\ NumbersIn(Renumbered(i))
      /\ Numbered(Renumbered(i), joysticks - 1, past.leaked, past.moved)
  BY NumberTakenBack DEF Inv, ReleaseStick
<1>3. Listed'
  BY <1>1, <1>2 DEF Listed, ReleaseStick
<1> QED BY <1>1, <1>3, InvPartsNext DEF ReleaseStick, wiring, Wired, Tasked, PcInv

\* An entry without numbers is given up.
LEMMA EntryFreed ==
  ASSUME Inv, NEW i \in Slot, devices[i].jindex = <<>>, devices' = [devices EXCEPT ![i].used = FALSE],
         joysticks' = joysticks, past' = past
  PROVE  Listed'
<1>1. Listed
  BY InvParts
<1>2. devices' \in [Slot -> Entry]
  BY <1>1 DEF Listed, Entry
<1>3. \A j \in Slot : /\ devices'[j].jindex = devices[j].jindex
                      /\ devices[j].jindex # <<>> => /\ devices'[j].used = devices[j].used
                                                     /\ devices'[j].class = devices[j].class
  BY <1>1 DEF Listed, Entry
<1> QED BY <1>1, <1>2, <1>3, NumbersKept DEF Listed

\* Where usb_poll is, after a step of it.
LEMMA PcType ==
  ASSUME PcInv
  PROVE  /\ pc.slot \in Nat \ {0} /\ pc.host \in Host /\ pc.turn \in DOMAIN PollOrder
         /\ pc.stack \in Seq(Slot) /\ pc.ports \subseteq Nat
BY DEF PcInv

LEMMA UsbPollStep == ASSUME Inv, UsbPoll PROVE Inv'
<1>1. Wired /\ Listed /\ Tasked /\ bResetInitiated \in BOOLEAN /\ PcInv
  BY InvParts
<1>2. Tasked'
  BY <1>1 DEF UsbPoll, Tasked
<1>3. PcInv'
  BY <1>1 DEF UsbPoll, PcInv
<1> QED BY <1>1, <1>2, <1>3, InvPartsNext DEF UsbPoll, wiring, Wired, Listed

LEMMA PollHubStep == ASSUME Inv, NEW i \in Slot, PollHub(i) PROVE Inv'
<1>1. Wired /\ Listed /\ Tasked /\ bResetInitiated \in BOOLEAN /\ PcInv
  BY InvParts
<1>2. i \in Nat \ {0} /\ Changed(i) \subseteq Nat
  BY UsbAssumption DEF Slot, Changed
<1>3. PcInv'
  BY <1>1, <1>2 DEF PollHub, PcInv
<1> QED BY <1>1, <1>3, InvPartsNext DEF PollHub, wiring, Wired, Listed, Tasked

LEMMA NextDeviceType == ASSUME PcInv, pc' = NextDevice PROVE PcInv'
<1>1. pc.slot + 1 \in Nat \ {0}
  BY PcType
<1> QED BY <1>1 DEF PcInv, NextDevice

LEMMA PastPortType ==
  ASSUME PcInv, NEW p
  PROVE  pc' = Past(p) => PcInv'
<1>1. {q \in pc.ports : q > p} \subseteq Nat
  BY PcType
<1> QED BY <1>1 DEF PcInv, Past

LEMMA ResetPortStep == ASSUME Inv, NEW p \in Nat, NEW ok \in BOOLEAN, ResetPort(p, ok) PROVE Inv'
<1>1. Wired /\ Listed /\ Tasked /\ bResetInitiated \in BOOLEAN /\ PcInv /\ past \in PastSet
  BY InvParts DEF Listed
<1>2. port' \in [Port -> PortRegister]
  BY <1>1, RegisterType DEF ResetPort, Wired
<1>3. past' \in PastSet /\ past'.leaked = past.leaked /\ past'.moved = past.moved
  <2> DEFINE b == past.lapse \/ ~ok
  <2>1. past' = [past EXCEPT !.lapse = b] /\ b \in BOOLEAN
    BY <1>1 DEF ResetPort, PastSet
  <2> HIDE DEF b
  <2> QED BY <1>1, <2>1, PastType
<1>4. Listed'
  BY <1>3, ListedKept DEF ResetPort
<1>5. PcInv'
  BY <1>1, NextDeviceType DEF ResetPort
<1>6. Wired' /\ Tasked' /\ bResetInitiated' \in BOOLEAN
  BY <1>1, <1>2 DEF ResetPort, Wired, Tasked
<1> QED BY <1>4, <1>5, <1>6, InvPartsNext

LEMMA PortEmptiedStep == ASSUME Inv, NEW p \in Nat, PortEmptied(p) PROVE Inv'
<1>1. Wired /\ Listed /\ Tasked /\ bResetInitiated \in BOOLEAN /\ PcInv /\ past \in PastSet
  BY InvParts DEF Listed
<1>2. port' \in [Port -> PortRegister]
  BY <1>1, RegisterType DEF PortEmptied, Wired
<1>3. past' \in PastSet /\ past'.leaked = past.leaked /\ past'.moved = past.moved
  <2> DEFINE b == past.lapse \/ bResetInitiated
  <2>1. past' = [past EXCEPT !.lapse = b] /\ b \in BOOLEAN
    BY <1>1 DEF PortEmptied, PastSet
  <2> HIDE DEF b
  <2> QED BY <1>1, <2>1, PastType
<1>4. Listed'
  BY <1>3, ListedKept DEF PortEmptied
<1>5. PcInv'
  <2> DEFINE gone == Match(pc.slot, p)
  <2>1. CASE gone = {}
    <3>1. pc' = Past(p)
      BY <2>1 DEF PortEmptied
    <3> QED BY <1>1, <3>1, PastPortType
  <2>2. CASE gone # {}
    <3>1. Min(gone) \in Slot
      <4>1. gone \in SUBSET Slot
        BY DEF Match
      <4> QED BY <2>2, <4>1, FirstSlot
    <3>2. pc' = [Past(p) EXCEPT !.at = "release", !.stack = <<Min(gone)>>]
      BY <2>2 DEF PortEmptied
    <3>3. pc.at \in {"changed", "disabled"}
      BY DEF PortEmptied, PortStatus
    <3> DEFINE first == Min(gone)
    <3>4. <<first>> \in Seq(Slot) /\ <<first>> # <<>>
      BY <3>1
    <3> HIDE DEF first
    <3>5. {q \in pc.ports : q > p} \subseteq Nat
      BY <1>1, PcType
    <3>6. pc' = [pc EXCEPT !.ports = {q \in pc.ports : q > p}, !.at = "release", !.stack = <<first>>]
      BY <1>1, <3>2 DEF Past, PcInv, first
    <3> QED BY <1>1, <3>3, <3>4, <3>5, <3>6 DEF PcInv
  <2> QED BY <2>1, <2>2
<1>6. Wired' /\ Tasked' /\ bResetInitiated' \in BOOLEAN
  BY <1>1, <1>2 DEF PortEmptied, Wired, Tasked, ResetOver
<1> QED BY <1>4, <1>5, <1>6, InvPartsNext

LEMMA PortResetStep ==
  ASSUME Inv, NEW p \in Nat, NEW outcome \in Outcome, NEW n \in 0 .. MAX_IFACES, PortReset(p, outcome, n)
  PROVE  Inv'
<1>1. Wired /\ Listed /\ Tasked /\ bResetInitiated \in BOOLEAN /\ PcInv
  BY InvParts
<1> DEFINE ports == [port EXCEPT ![<<ThisHub, p>>].cReset = FALSE]
<1>2. ports \in [Port -> PortRegister]
  BY <1>1, RegisterType DEF Wired
<1>3. pc.slot \in 0 .. USB_NUMDEVICES /\ pc.host \in Host
  BY <1>1, UsbAssumption DEF PortReset, PortStatus, PcInv, Slot
<1>4. Configure(pc.host, ThisHub, pc.slot, p, ports, outcome, n)
  BY DEF PortReset
<1>5. Wired' /\ Listed'
  <2> HIDE DEF ports
  <2> QED BY <1>2, <1>3, <1>4, ConfigureStep
<1>6. PcInv'
  BY <1>1, PastPortType DEF PortReset
<1> QED BY <1>1, <1>5, <1>6, InvPartsNext DEF PortReset, ResetOver, Tasked

LEMMA LoopEndsStep == ASSUME Inv, LoopEnds PROVE Inv'
<1>1. Wired /\ Listed /\ Tasked /\ bResetInitiated \in BOOLEAN /\ PcInv
  BY InvParts
<1>2. PcInv'
  <2>1. CASE pc.at = "changed"
    <3>1. (1 .. NbrPorts[ThisHub]) \subseteq Nat
      OBVIOUS
    <3>2. pc' = [pc EXCEPT !.at = "disabled", !.ports = 1 .. NbrPorts[ThisHub]]
      BY <2>1 DEF LoopEnds
    <3> QED BY <1>1, <2>1, <3>1, <3>2 DEF PcInv
  <2>2. CASE pc.at # "changed"
    BY <1>1, <2>2, NextDeviceType DEF LoopEnds
  <2> QED BY <2>1, <2>2
<1> QED BY <1>1, <1>2, InvPartsNext DEF LoopEnds, wiring, Wired, Listed, Tasked

LEMMA ReleaseKidStep == ASSUME Inv, ReleaseKid PROVE Inv'
<1>1. Wired /\ Listed /\ Tasked /\ bResetInitiated \in BOOLEAN /\ PcInv
  BY InvParts
<1> DEFINE kid == Min(Kids)
           next == Min(Match(Top, devices[kid].port))
<1>2. kid \in Kids
  <2>1. Kids \in SUBSET Slot /\ Kids # {}
    BY DEF Kids, ReleaseKid
  <2> QED BY <2>1, FirstSlot
<1>3. next \in Slot
  <2>1. Match(Top, devices[kid].port) \in SUBSET Slot /\ Match(Top, devices[kid].port) # {}
    BY <1>2 DEF Kids, Match
  <2> QED BY <2>1, FirstSlot
<1>4. pc' = [pc EXCEPT !.stack = <<next>> \o pc.stack]
  BY <1>1 DEF ReleaseKid, PcInv
<1> HIDE DEF next
<1>5. <<next>> \o pc.stack \in Seq(Slot) /\ <<next>> \o pc.stack # <<>>
  <2>1. <<next>> \in Seq(Slot) /\ pc.stack \in Seq(Slot) /\ Len(<<next>>) = 1
    BY <1>1, <1>3, PcType
  <2>2. <<next>> \o pc.stack \in Seq(Slot) /\ Len(<<next>> \o pc.stack) = 1 + Len(pc.stack)
    BY <2>1
  <2> QED BY <2>1, <2>2
<1>6. PcInv'
  BY <1>1, <1>4, <1>5 DEF PcInv
<1> QED BY <1>1, <1>6, InvPartsNext DEF ReleaseKid, wiring, Wired, Listed, Tasked

LEMMA TailOfStack ==
  ASSUME NEW S, NEW s \in Seq(S), s # <<>>
  PROVE  Tail(s) \in Seq(S) /\ Len(Tail(s)) = Len(s) - 1 /\ Len(s) \in Nat \ {0} /\ Head(s) \in S
  OBVIOUS

LEMMA ReleaseDeviceStep == ASSUME Inv, ReleaseDevice PROVE Inv'
<1>1. Wired /\ Listed /\ Tasked /\ bResetInitiated \in BOOLEAN /\ PcInv
  BY InvParts
<1>2. /\ pc.at = "release" /\ pc.stack \in Seq(Slot) /\ pc.stack # <<>> /\ pc.slot \in Slot
      /\ Len(pc.stack) \in Nat
  BY <1>1 DEF ReleaseDevice, PcInv
<1>3. Top \in Slot
  BY <1>2, TailOfStack DEF Top
<1>4. CASE ReleaseStick(Top)
  BY <1>3, <1>4, ReleaseStickStep
<1>5. CASE /\ devices[Top].jindex = <<>>
           /\ devices' = [devices EXCEPT ![Top].used = FALSE]
           /\ pc' = IF Len(pc.stack) = 1 THEN [pc EXCEPT !.at = "changed", !.stack = <<>>]
                    ELSE [pc EXCEPT !.stack = Tail(@)]
           /\ UNCHANGED <<wiring, task, bResetInitiated, joysticks, past>>
  <2>1. Listed'
    BY <1>3, <1>5, EntryFreed
  <2>2. PcInv'
    <3>1. CASE Len(pc.stack) = 1
      <4>1. pc' = [pc EXCEPT !.at = "changed", !.stack = <<>>] /\ <<>> \in Seq(Slot)
        BY <1>5, <3>1
      <4> QED BY <1>1, <1>2, <4>1 DEF PcInv
    <3>2. CASE Len(pc.stack) # 1
      <4>1. Tail(pc.stack) \in Seq(Slot) /\ Len(Tail(pc.stack)) # 0
        BY <1>2, <3>2, TailOfStack
      <4>2. Tail(pc.stack) # <<>>
        <5>1. Len(<<>>) = 0
          OBVIOUS
        <5> DEFINE rest == Tail(pc.stack)
        <5>2. Len(rest) # 0
          BY <4>1
        <5> HIDE DEF rest
        <5>3. rest # <<>>
          BY <5>1, <5>2
        <5> QED BY <5>3 DEF rest
      <4>3. pc' = [pc EXCEPT !.stack = Tail(pc.stack)]
        BY <1>1, <1>5, <3>2 DEF PcInv
      <4> QED BY <1>1, <1>2, <4>1, <4>2, <4>3 DEF PcInv
    <3> QED BY <3>1, <3>2
  <2> QED BY <1>1, <1>5, <2>1, <2>2, InvPartsNext DEF wiring, Wired, Tasked
<1> QED BY <1>4, <1>5 DEF ReleaseDevice

LEMMA GoesStep ==
  ASSUME Inv, NEW from,
         NEW to \in {"initialize", "wait", "settle", "reset", "configuring", "running"}, Goes(from, to)
  PROVE  Tasked' /\ PcInv'
<1>1. Tasked /\ PcInv
  BY InvParts
<1>2. Tasked'
  BY <1>1 DEF Goes, Tasked
<1>3. pc.turn \in DOMAIN PollOrder
  BY <1>1, PcType
<1>4. pc' \in [at : {"idle"}, turn : DOMAIN PollOrder, host : Host, slot : Nat \ {0},
               ports : SUBSET Nat, stack : Seq(Slot)]
  BY <1>3, NextTurn, IdleType DEF Goes
<1>5. PcInv'
  BY <1>4 DEF PcInv
<1> QED BY <1>2, <1>5

LEMMA InitializeStep == ASSUME Inv, Initialize PROVE Inv'
<1>1. Wired /\ Listed /\ Tasked /\ bResetInitiated \in BOOLEAN /\ PcInv
  BY InvParts
<1> DEFINE doomed == Min(Doomed)
<1>2. Doomed # {} => doomed \in Slot
  <2>1. Doomed \in SUBSET Slot
    BY DEF Doomed
  <2> QED BY <2>1, FirstSlot
<1>3. CASE Doomed # {} /\ ReleaseStick(doomed)
  BY <1>2, <1>3, ReleaseStickStep
<1>4. CASE /\ Doomed # {} /\ devices[doomed].jindex = <<>>
           /\ devices' = [devices EXCEPT ![doomed].used = FALSE]
           /\ UNCHANGED <<wiring, task, pc, bResetInitiated, joysticks, past>>
  <2>1. Listed'
    <3> HIDE DEF doomed
    <3> QED BY <1>2, <1>4, EntryFreed
  <2> QED BY <1>1, <1>4, <2>1, InvPartsNext DEF wiring, Wired, Tasked, PcInv
<1>5. CASE Goes("initialize", "wait") /\ UNCHANGED <<wiring, devices, bResetInitiated, joysticks, past>>
  BY <1>1, <1>5, GoesStep, InvPartsNext DEF wiring, Wired, Listed
<1> QED BY <1>3, <1>4, <1>5 DEF Initialize

LEMMA TaskIdleStep == ASSUME Inv, TaskIdle PROVE Inv'
<1>1. Wired /\ Listed /\ Tasked /\ bResetInitiated \in BOOLEAN /\ PcInv
  BY InvParts
<1>2. Tasked' /\ PcInv'
  BY GoesStep DEF TaskIdle
<1> QED BY <1>1, <1>2, InvPartsNext DEF TaskIdle, wiring, Wired, Listed

LEMMA SettledStep == ASSUME Inv, Settled PROVE Inv'
<1>1. Wired /\ Listed /\ Tasked /\ bResetInitiated \in BOOLEAN /\ PcInv
  BY InvParts
<1>2. Tasked' /\ PcInv'
  BY GoesStep DEF Settled
<1> QED BY <1>1, <1>2, InvPartsNext DEF Settled, wiring, Wired, Listed

LEMMA ResetBusStep == ASSUME Inv, ResetBus PROVE Inv'
<1>1. Wired /\ Listed /\ Tasked /\ bResetInitiated \in BOOLEAN /\ PcInv
  BY InvParts
<1>2. Tasked' /\ PcInv'
  BY GoesStep DEF ResetBus
<1>3. Wired'
  <2>1. TypeOK /\ port \in [Port -> PortRegister]
    BY <1>1 DEF Inv, Wired
  <2>2. \A off, gone : Powerless(off, gone, port) =>
          /\ power' \in [Hub -> BOOLEAN] /\ port' \in [Port -> PortRegister]
          /\ addr' \in [Gadget -> 0 .. USB_NUMDEVICES]
    BY <2>1, PowerlessType
  <2>3. UNCHANGED <<power, port, addr>> \/ \E off, gone : Powerless(off, gone, port)
    BY DEF ResetBus
  <2> QED BY <1>1, <2>2, <2>3 DEF Wired, ResetBus
<1> QED BY <1>1, <1>2, <1>3, InvPartsNext DEF ResetBus, Listed

LEMMA ConfiguringStep ==
  ASSUME Inv, NEW outcome \in Outcome, NEW n \in 0 .. MAX_IFACES, Configuring(outcome, n)
  PROVE  Inv'
<1>1. Wired /\ Listed /\ Tasked /\ bResetInitiated \in BOOLEAN /\ PcInv
  BY InvParts
<1>2. Tasked' /\ PcInv'
  BY GoesStep DEF Configuring
<1>3. port \in [Port -> PortRegister] /\ pc.host \in Host /\ 0 \in 0 .. USB_NUMDEVICES /\ 0 \in Nat
  BY <1>1, PcType, UsbAssumption DEF Wired
<1>4. Configure(pc.host, pc.host, 0, 0, port, outcome, n)
  BY DEF Configuring
<1>5. Wired' /\ Listed'
  BY <1>3, <1>4, ConfigureStep
<1> QED BY <1>1, <1>2, <1>5, InvPartsNext DEF Configuring

-----------------------------------------------------------------------------
(* The theorems.                                                           *)

LEMMA InitInv == Init => Inv
<1> SUFFICES ASSUME Init PROVE Inv
  OBVIOUS
<1>1. Wired
  BY UsbAssumption DEF Init, Wired, Quiet, PortRegister
<1>2. devices \in [Slot -> Entry] /\ \A i \in Slot : devices[i] = Unused
  BY UnusedType DEF Init
<1>3. Stick(devices) = {}
  BY <1>2, UnusedType, StickType
<1>4. Cardinality(Stick(devices)) = 0
  BY <1>3, FS_EmptySet
<1>5. NumbersIn(devices)
  BY <1>2, UnusedType DEF NumbersIn, MAX_IFACES
<1>6. Listed
  BY <1>2, <1>3, <1>4, <1>5 DEF Init, Listed, PastSet, Numbered
<1>7. PcInv
  <2>1. 1 \in DOMAIN PollOrder
    BY HostFacts
  <2>2. pc \in [at : {"idle"}, turn : DOMAIN PollOrder, host : Host, slot : Nat \ {0},
                ports : SUBSET Nat, stack : Seq(Slot)]
    BY <2>1, IdleType DEF Init
  <2> QED BY <2>2 DEF PcInv
<1>8. Tasked /\ bResetInitiated \in BOOLEAN
  BY DEF Init, Tasked
<1> QED BY <1>1, <1>6, <1>7, <1>8, InvParts

LEMMA NextInv == Inv /\ [Next]_vars => Inv'
<1> SUFFICES ASSUME Inv, [Next]_vars PROVE Inv'
  OBVIOUS
<1>1. ASSUME NEW g \in Gadget, NEW s \in Socket, Plug(g, s) PROVE Inv'
  BY <1>1, PlugStep
<1>2. ASSUME NEW s \in Socket, Unplug(s) \/ ResetDone(s) PROVE Inv'
  BY <1>2, UnplugStep, ResetDoneStep
<1>3. CASE Rotate
  BY <1>3, RotateStep
<1>4. CASE UsbPoll
  BY <1>4, UsbPollStep
<1>5. ASSUME NEW i \in Slot, PollHub(i) PROVE Inv'
  BY <1>5, PollHubStep
<1>6. HubPort \subseteq Nat
  BY UsbAssumption DEF HubPort, Hub
<1>7. ASSUME NEW p \in HubPort, NEW ok \in BOOLEAN, ResetPort(p, ok) PROVE Inv'
  BY <1>6, <1>7, ResetPortStep
<1>8. ASSUME NEW p \in HubPort, PortEmptied(p) PROVE Inv'
  BY <1>6, <1>8, PortEmptiedStep
<1>9. ASSUME NEW p \in HubPort, NEW outcome \in Outcome, NEW n \in 0 .. MAX_IFACES, PortReset(p, outcome, n)
      PROVE  Inv'
  BY <1>6, <1>9, PortResetStep
<1>10. CASE LoopEnds \/ ReleaseKid \/ ReleaseDevice
  BY <1>10, LoopEndsStep, ReleaseKidStep, ReleaseDeviceStep
<1>11. CASE Initialize \/ TaskIdle \/ Settled \/ ResetBus
  BY <1>11, InitializeStep, TaskIdleStep, SettledStep, ResetBusStep
<1>12. ASSUME NEW outcome \in Outcome, NEW n \in 0 .. MAX_IFACES, Configuring(outcome, n) PROVE Inv'
  BY <1>12, ConfiguringStep
<1>13. CASE UNCHANGED vars
  <2>1. Wired' /\ Listed' /\ Tasked' /\ bResetInitiated' \in BOOLEAN /\ PcInv'
    BY <1>13, InvParts DEF vars, Wired, Listed, Tasked, PcInv
  <2> QED BY <2>1, InvPartsNext
<1> QED BY <1>1, <1>2, <1>3, <1>4, <1>5, <1>7, <1>8, <1>9, <1>10, <1>11, <1>12, <1>13 DEF Next

THEOREM Invariance == Spec => []Inv
BY InitInv, NextInv, PTL DEF Spec

\* The variables of the USB host stay in their sets, for any number of ports,
\* devices and entries.
THEOREM TypeCorrect == Spec => []TypeOK
<1>1. Inv => TypeOK
  BY DEF Inv
<1> QED BY <1>1, Invariance, PTL

\* The count of joysticks is right but for numbers lost in failed
\* initialisations, and the numbers are distinct and below it unless a lone
\* stick was rotated, however many devices of whatever kind come and go.
THEOREM SticksStayNumbered == Spec => []SticksNumbered
<1>1. Inv => SticksNumbered
  BY DEF Inv
<1> QED BY <1>1, Invariance, PTL
=============================================================================
