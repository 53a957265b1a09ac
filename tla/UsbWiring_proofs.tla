-------------------------- MODULE UsbWiring_proofs --------------------------
(***************************************************************************)
(* Theorems about UsbHost that relate the entries of usb.c to the wiring:  *)
(* for any number of root ports, devices, hubs, ports and entries, and     *)
(* whatever is plugged where.                                              *)
(*                                                                         *)
(* WiringInv: what has power and an address is wired to a root port.       *)
(* EntriesInv: the entries are a forest of hubs, also while it is pruned.  *)
(* ResetInv: at most one port is being reset, and the flag knows it.       *)
(* ListInv: an entry is that of the device in its port, or the hub still   *)
(* has to report that the device has gone.                                 *)
(*                                                                         *)
(* The lemmas are in this order, those about one action below those about  *)
(* the operators that it is made of; NextRelated puts them together.       *)
(***************************************************************************)
EXTENDS UsbHost_proofs

-----------------------------------------------------------------------------
(* The wiring.  A device is in one socket; a hub has power only where it    *)
(* was configured and is reached; what is not plugged, or is new in a root  *)
(* port, has no address.                                                    *)

PluggedOnce == \A s, t \in Socket : socket[s] # NoGadget /\ socket[s] = socket[t] => s = t
PoweredReachable == \A g \in Hub : power[g] => addr[g] # 0 /\ Reachable(g)
UnpluggedDumb == \A g \in Gadget : (\A s \in Socket : socket[s] # g) => addr[g] = 0
RootFresh == \A h \in Host : task[h] # "running" /\ socket[<<h, 0>>] # NoGadget =>
               addr[socket[<<h, 0>>]] = 0

WiringInv == PluggedOnce /\ PoweredReachable /\ UnpluggedDumb /\ RootFresh

-----------------------------------------------------------------------------
(* The entries.  Those of a class are a forest whose inner nodes are hubs,  *)
(* also while it is being pruned, except on a bus that is just cleared.     *)

Live(i) == devices[i].used /\ devices[i].class # "none"
Clearing(h) == pc.at = "devices" /\ pc.host = h /\ task[h] = "initialize"
LiveHub(j, h) == j \in Slot /\ Live(j) /\ devices[j].class = "hub" /\ devices[j].host = h
Polling == pc.at \in {"changed", "disabled", "release"}

HubsAreHubs == \A i \in Slot : devices[i].class = "hub" => devices[i].gadget \in Hub

\* The hub that is polled has its entry, until the poll is over.
PolledHub ==
  Polling => /\ task[pc.host] = "running" /\ LiveHub(pc.slot, pc.host)
             /\ pc.ports \subseteq 1 .. NbrPorts[devices[pc.slot].gadget]

HubsKept ==
  \A i \in Slot : Live(i) /\ devices[i].parent # 0 /\ ~Clearing(devices[i].host) =>
    LiveHub(devices[i].parent, devices[i].host)

\* No entries are below one another in a circle.
Grounded ==
  \A S \in SUBSET Slot : S # {} /\ (\A i \in S : Live(i)) => \E i \in S : devices[i].parent \notin S

\* The entries to release are a line that ends below the hub that is polled.
StackInv ==
  pc.at = "release" =>
    \A k \in 1 .. Len(pc.stack) :
      LET i == pc.stack[k]
      IN  /\ i # pc.slot /\ devices[i].host = pc.host
          /\ devices[i].parent = IF k = Len(pc.stack) THEN pc.slot ELSE pc.stack[k + 1]

\* A bus without a running device has no entries left.
Cleared ==
  \A i \in Slot : Live(i) => task[devices[i].host] = "running" \/ Clearing(devices[i].host)

EntriesInv == HubsAreHubs /\ PolledHub /\ HubsKept /\ Grounded /\ StackInv /\ Cleared

-----------------------------------------------------------------------------
(* One reset at a time, as long as nothing lapsed.                          *)

ConfiguredPowered ==
  \A i \in Slot : devices[i].gadget \in Hub /\ addr[devices[i].gadget] = i => power[devices[i].gadget]
QuietUnpowered == \A s \in Port : ~power[s[1]] => port[s] = Quiet
PortBits == \A s \in Port : /\ port[s].enabled \/ port[s].reset => socket[s] # NoGadget
                            /\ ~(port[s].enabled /\ port[s].reset)

\* The ports with a reset that is not over: the device there may listen to 0.
Resetting ==
  {s \in Port : \/ port[s].reset \/ port[s].cReset
                \/ port[s].enabled /\ socket[s] # NoGadget /\ addr[socket[s]] = 0}
OneReset == /\ \A s, t \in Resetting : s = t
            /\ Resetting # {} => bResetInitiated

ResetInv ==
  ~past.lapse => ConfiguredPowered /\ QuietUnpowered /\ PortBits /\ OneReset /\ FlagHasReset

-----------------------------------------------------------------------------
(* One entry for a port, as long as every exchange was seen.                *)

Seen == ~past.lapse /\ ~past.swapped /\ ~past.stray

NoStray == \A i \in Slot : devices[i].used /\ devices[i].parent # 0 => Live(i)

\* Entry e, below the hub of entry k at socket s, is that of the device there,
\* or the device has gone and the hub remembers that, or e is just released.
Shows(e, k, s) ==
  \/ socket[s] = devices[e].gadget /\ port[s].enabled /\ socket[s] # NoGadget /\ addr[socket[s]] = e
  \/ socket[s] = NoGadget /\ port[s].cConnection
  \/ pc.at = "release" /\ pc.slot = k /\ pc.stack[Len(pc.stack)] = e

\* So it is wherever the hub is still configured.
EntryDevice ==
  \A e \in Slot :
    LET k == devices[e].parent
        s == <<devices[k].gadget, devices[e].port>>
    IN  Live(e) /\ k # 0 /\ ~Clearing(devices[e].host) /\ addr[devices[k].gadget] = k =>
          s \in Port /\ Shows(e, k, s)

ListInv == Seen => NoStray /\ OneEntryPerPort /\ EntryDevice

-----------------------------------------------------------------------------
(* What the wiring is like.                                                *)

LEMMA SocketFacts ==
  /\ NoGadget \notin Gadget /\ Hub \subseteq Gadget /\ NoGadget \notin Hub
  /\ \A s \in Port : s[1] \in Hub /\ s \notin Root /\ s \in Socket
                     /\ s = <<s[1], s[2]>> /\ s[2] \in Nat \ {0}
  /\ \A h \in Host : <<h, 0>> \in Root /\ <<h, 0>> \in Socket /\ <<h, 0>> \notin Port
  /\ \A s \in Socket : s \in Root \/ s \in Port
  /\ \A s \in Root : s[1] \in Host /\ s = <<s[1], 0>>
<1>1. NoGadget \notin Gadget /\ Host \cap Gadget = {} /\ NbrPorts \in [Gadget -> Nat]
      /\ Hub \subseteq Gadget
  BY UsbAssumption DEF Hub
<1>2. \A s \in Port : s[1] \in Hub /\ s = <<s[1], s[2]>> /\ s[2] \in Nat \ {0}
  BY <1>1 DEF Port
<1>3. \A s \in Root : s[1] \in Host /\ s = <<s[1], 0>>
  BY DEF Root
<1>4. \A s \in Port : s \notin Root
  BY <1>1, <1>2, <1>3
<1>5. \A h \in Host : <<h, 0>> \in Root
  BY DEF Root
<1> QED BY <1>1, <1>2, <1>3, <1>4, <1>5 DEF Socket

\* Below a hub is the hub and whatever hangs on a port below it.
LEMMA BelowItself == ASSUME NEW g \in Hub PROVE g \in Below(g)
BY DEF Below

LEMMA BelowClosed ==
  ASSUME NEW g, NEW s \in Port, s[1] \in Below(g), socket[s] \in Hub
  PROVE  socket[s] \in Below(g)
BY DEF Below

LEMMA BelowLeast ==
  ASSUME NEW g, NEW S \in SUBSET Hub, g \in S,
         \A s \in Port : s[1] \in S /\ socket[s] \in Hub => socket[s] \in S
  PROVE  Below(g) \subseteq S
BY DEF Below

\* What is below a hub hangs on a port below it.
LEMMA BelowIn ==
  ASSUME NEW g \in Hub, NEW x \in Below(g), x # g
  PROVE  \E s \in Port : s[1] \in Below(g) /\ socket[s] = x
<1> DEFINE S == {g} \cup {y \in Below(g) : \E s \in Port : s[1] \in Below(g) /\ socket[s] = y}
<1>1. Below(g) \subseteq Hub
  BY DEF Below
<1>2. S \in SUBSET Hub /\ g \in S /\ S \subseteq Below(g)
  BY <1>1, BelowItself
<1>3. \A s \in Port : s[1] \in S /\ socket[s] \in Hub => socket[s] \in S
  BY <1>2, BelowClosed
<1>4. Below(g) \subseteq S
  <2> HIDE DEF S
  <2> QED BY <1>2, <1>3, BelowLeast
<1> QED BY <1>4

\* Nothing has power below a hub that has none.
LEMMA BelowUnpowered ==
  ASSUME WiringInv, NEW g \in Hub, ~power[g], NEW x \in Below(g)
  PROVE  ~power[x]
<1> DEFINE S == {y \in Hub : ~power[y]}
<1>1. ASSUME NEW s \in Port, s[1] \in S, socket[s] \in Hub PROVE socket[s] \in S
  <2> DEFINE y == socket[s]
  <2>1. CASE power[y]
    <3>1. PICK t \in Socket : socket[t] = y /\ (t \in Root \/ (power[t[1]] /\ port[t].enabled))
      BY <1>1, <2>1 DEF WiringInv, PoweredReachable, Reachable
    <3>2. t = s
      BY <1>1, <3>1, SocketFacts DEF WiringInv, PluggedOnce
    <3> QED BY <1>1, <3>1, <3>2, SocketFacts
  <2> QED BY <1>1, <2>1
<1>2. Below(g) \subseteq S
  <2>1. S \in SUBSET Hub /\ g \in S
    OBVIOUS
  <2> HIDE DEF S
  <2> QED BY <1>1, <2>1, BelowLeast
<1> QED BY <1>2

\* A device in a root port is on the bus of that port and on no other.
LEMMA RootHost ==
  ASSUME WiringInv, NEW h \in Host, NEW k \in Host, socket[<<k, 0>>] # NoGadget,
         h \in HostOf(socket[<<k, 0>>])
  PROVE  h = k
<1> DEFINE g == socket[<<k, 0>>]
<1>1. CASE socket[<<h, 0>>] = g
  <2>1. <<h, 0>> = <<k, 0>>
    BY <1>1, SocketFacts DEF WiringInv, PluggedOnce
  <2> QED BY <2>1
<1>2. CASE \E r \in Hub : g \in {socket[s] : s \in {x \in Port : x[1] \in Below(r)}}
  <2>1. PICK s \in Port : socket[s] = g
    BY <1>2
  <2>2. s = <<k, 0>>
    BY <2>1, SocketFacts DEF WiringInv, PluggedOnce
  <2> QED BY <2>1, <2>2, SocketFacts
<1> QED BY <1>1, <1>2 DEF HostOf

\* On a bus that is not running nobody has an address.
LEMMA NoneAnswers ==
  ASSUME Inv, WiringInv, NEW h \in Host, task[h] # "running", NEW a, a # 0
  PROVE  Answering(h, a) = {}
<1> SUFFICES ASSUME NEW g \in Answering(h, a) PROVE FALSE
  OBVIOUS
<1>1. g \in Gadget /\ Reachable(g) /\ addr[g] # 0 /\ h \in HostOf(g)
  BY DEF Answering
<1>2. socket[<<h, 0>>] # g
  BY <1>1, SocketFacts DEF WiringInv, RootFresh
<1>3. PICK r \in Hub : /\ socket[<<h, 0>>] = r
                       /\ g \in {socket[s] : s \in {x \in Port : x[1] \in Below(r)}}
  BY <1>1, <1>2 DEF HostOf
<1>4. PICK s \in Port : s[1] \in Below(r) /\ socket[s] = g
  BY <1>3
<1>5. ~power[r]
  BY <1>3, SocketFacts DEF WiringInv, RootFresh, PoweredReachable
<1>6. ~power[s[1]]
  BY <1>4, <1>5, BelowUnpowered
<1>7. PICK t \in Socket : socket[t] = g /\ (t \in Root \/ (power[t[1]] /\ port[t].enabled))
  BY <1>1 DEF Reachable
<1>8. t = s
  BY <1>1, <1>4, <1>7, SocketFacts DEF WiringInv, PluggedOnce
<1> QED BY <1>6, <1>7, <1>8, SocketFacts

-----------------------------------------------------------------------------
(* The wiring, after a step.                                               *)

\* A task that does not run has not left a device running.
TaskStops ==
  \A h \in Host : task'[h] # "running" /\ socket'[<<h, 0>>] # NoGadget => task[h] # "running"

LEMMA WiringKept ==
  ASSUME WiringInv, UNCHANGED <<socket, power, addr>>, TaskStops,
         \A s \in Port : port'[s].enabled = port[s].enabled
  PROVE  WiringInv'
<1>1. PluggedOnce' /\ UnpluggedDumb' /\ RootFresh'
  BY DEF WiringInv, PluggedOnce, UnpluggedDumb, RootFresh, TaskStops
<1>2. ASSUME NEW g \in Hub, Reachable(g) PROVE Reachable(g)'
  BY <1>2, SocketFacts DEF Reachable
<1>3. PoweredReachable'
  BY <1>2 DEF WiringInv, PoweredReachable
<1> QED BY <1>1, <1>3 DEF WiringInv

LEMMA WiringPlug ==
  ASSUME Inv, WiringInv, NEW g \in Gadget, NEW s \in Socket, Plug(g, s)
  PROVE  WiringInv'
<1>1. socket \in [Socket -> Gadget \cup {NoGadget}] /\ port \in [Port -> PortRegister]
  BY DEF Inv, TypeOK
<1>2. /\ UNCHANGED <<power, addr, task>>
      /\ socket[s] = NoGadget /\ \A x \in Socket : socket[x] # g
      /\ \A x \in Socket : socket'[x] = IF x = s THEN g ELSE socket[x]
  BY <1>1 DEF Plug
<1>3. \A x \in Port : port'[x].enabled = port[x].enabled
  BY <1>1 DEF Plug, PortRegister
<1>4. addr[g] = 0
  BY <1>2 DEF WiringInv, UnpluggedDumb
<1>5. PluggedOnce'
  BY <1>2, SocketFacts DEF WiringInv, PluggedOnce
<1>6. UnpluggedDumb'
  BY <1>2, SocketFacts DEF WiringInv, UnpluggedDumb
<1>7. RootFresh'
  BY <1>2, <1>4, SocketFacts DEF WiringInv, RootFresh
<1>8. ASSUME NEW x \in Hub, Reachable(x) PROVE Reachable(x)'
  BY <1>2, <1>3, <1>8, SocketFacts DEF Reachable
<1>9. PoweredReachable'
  BY <1>2, <1>8 DEF WiringInv, PoweredReachable
<1> QED BY <1>5, <1>6, <1>7, <1>9 DEF WiringInv

\* The power goes off at g and below it: what keeps its power is not below g.
Off(g) == IF g \in Hub THEN Below(g) ELSE {}

LEMMA OffFacts ==
  ASSUME NEW g
  PROVE  /\ g \in Hub => g \in Off(g)
         /\ Off(g) \subseteq Hub
         /\ \A s \in Port : s[1] \in Off(g) /\ socket[s] \in Hub => socket[s] \in Off(g)
BY BelowItself, BelowClosed DEF Off, Below

LEMMA PowerlessFacts ==
  ASSUME NEW off, NEW gone, NEW ports, Powerless(off, gone, ports)
  PROVE  /\ \A x \in Hub : power'[x] = (power[x] /\ x \notin off)
         /\ \A s \in Port : port'[s] = IF s[1] \in off THEN Quiet ELSE ports[s]
         /\ \A x \in Gadget : addr'[x] = IF x \in gone \/ \E s \in Port : s[1] \in off /\ socket[s] = x
                                         THEN 0 ELSE addr[x]
BY Zenon DEF Powerless

LEMMA WiringPowerless ==
  ASSUME Inv, WiringInv, NEW t \in Socket, NEW ports,
         Powerless(Off(socket[t]), {socket[t]}, ports),
         \A s \in Port : s # t => ports[s] = port[s],
         \A s \in Socket : s # t => socket'[s] = socket[s],
         socket'[t] \in {socket[t], NoGadget}, TaskStops
  PROVE  WiringInv'
<1> DEFINE g == socket[t]
           off == Off(g)
<1>1. (g \in Hub => g \in off) /\ off \subseteq Hub
      /\ \A s \in Port : s[1] \in off /\ socket[s] \in Hub => socket[s] \in off
  BY OffFacts
<1>2. /\ \A x \in Hub : power'[x] = (power[x] /\ x \notin off)
      /\ \A s \in Port : port'[s] = IF s[1] \in off THEN Quiet ELSE ports[s]
      /\ \A x \in Gadget : addr'[x] = IF x \in {g} \/ \E s \in Port : s[1] \in off /\ socket[s] = x
                                      THEN 0 ELSE addr[x]
  <2> HIDE DEF off, g
  <2> QED BY PowerlessFacts DEF off, g
<1> HIDE DEF off
<1>3. \A s, x : s \in Socket /\ socket'[s] = x /\ x # NoGadget => socket[s] = x
  BY DEF g
<1>4. PluggedOnce'
  BY <1>3 DEF WiringInv, PluggedOnce
<1>5. UnpluggedDumb'
  <2> SUFFICES ASSUME NEW x \in Gadget, \A s \in Socket : socket'[s] # x PROVE addr'[x] = 0
    BY DEF UnpluggedDumb
  <2>1. CASE x = g
    BY <1>2, <2>1
  <2>2. CASE x # g
    <3>1. \A s \in Socket : socket[s] # x
      BY <2>2
    <3>2. addr[x] = 0
      BY <3>1 DEF WiringInv, UnpluggedDumb
    <3> QED BY <1>2, <3>2
  <2> QED BY <2>1, <2>2
<1>6. RootFresh'
  <2> SUFFICES ASSUME NEW h \in Host, task'[h] # "running", socket'[<<h, 0>>] # NoGadget
               PROVE  addr'[socket'[<<h, 0>>]] = 0
    BY DEF RootFresh
  <2> DEFINE x == socket'[<<h, 0>>]
  <2>1. socket[<<h, 0>>] = x /\ x \in Gadget
    BY <1>3, SocketFacts DEF Inv, TypeOK
  <2>2. addr[x] = 0
    BY <2>1 DEF TaskStops, WiringInv, RootFresh
  <2> QED BY <1>2, <2>1, <2>2
<1>7. PoweredReachable'
  <2> SUFFICES ASSUME NEW x \in Hub, power'[x] PROVE addr'[x] # 0 /\ Reachable(x)'
    BY DEF PoweredReachable
  <2>1. power[x] /\ x \notin off /\ x # g /\ x \in Gadget /\ x # NoGadget
    BY <1>1, <1>2, SocketFacts
  <2>2. addr[x] # 0 /\ Reachable(x)
    BY <2>1 DEF WiringInv, PoweredReachable
  <2>3. addr'[x] # 0
    BY <1>1, <1>2, <2>1, <2>2
  <2>4. PICK s \in Socket : socket[s] = x /\ (s \in Root \/ (power[s[1]] /\ port[s].enabled))
    BY <2>2 DEF Reachable
  <2>5. s # t /\ socket'[s] = x
    BY <2>1, <2>4
  <2>6. CASE s \in Root
    BY <2>3, <2>5, <2>6 DEF Reachable
  <2>7. CASE s \in Port
    <3>1. s[1] \in Hub /\ s[1] \notin off /\ s \notin Root
      BY <1>1, <2>1, <2>4, <2>7, SocketFacts
    <3>2. power[s[1]] /\ port[s].enabled /\ ports[s] = port[s]
      BY <2>4, <2>5, <2>7, <3>1
    <3>3. power'[s[1]]
      BY <1>2, <3>1, <3>2
    <3>4. port'[s].enabled
      BY <1>2, <2>7, <3>1, <3>2
    <3> QED BY <2>3, <2>5, <3>3, <3>4 DEF Reachable
  <2> QED BY <2>6, <2>7, SocketFacts
<1> QED BY <1>4, <1>5, <1>6, <1>7 DEF WiringInv

-----------------------------------------------------------------------------
(* What usb_configure does.                                                *)

\* An attempt that took no address.
Failed(ports) ==
  /\ past'.lapse /\ port' = ports /\ UNCHANGED <<power, addr>>
  /\ \A i \in Slot : devices'[i] = devices[i]
                     \/ (~devices[i].used /\ ~devices'[i].used /\ devices'[i].class = "none")

\* Device g took address i, and its entry stands for port p of parent.
Taken(i, g, h, parent, p) ==
  /\ i \in Slot /\ ~devices[i].used /\ g \in Answering(h, 0)
  /\ \A j \in Slot : j # i => devices'[j] = devices[j]
  /\ devices'[i].used /\ devices'[i].host = h /\ devices'[i].parent = parent
  /\ devices'[i].port = p /\ devices'[i].gadget = g
  /\ \A x \in Gadget : addr'[x] = IF x \in Answering(h, 0) THEN i ELSE addr[x]

\* Its class refused it, or accepted it and a hub powers its ports.
Refused(i, ports) ==
  past'.lapse /\ devices'[i].class = "none" /\ power' = power /\ port' = ports
Accepted(i, g, parent, ports) ==
  /\ devices'[i].class = ClassOf(g)
  /\ \A x \in Hub : power'[x] = (power[x] \/ x = g)
  /\ \A s \in Port : port'[s] = IF s[1] = g THEN [Quiet EXCEPT !.cConnection = socket[s] # NoGadget]
                                ELSE ports[s]
  /\ past'.lapse = past.lapse /\ past'.swapped = past.swapped
  /\ past'.stray = (past.stray \/ (ClassOf(g) = "none" /\ parent # 0))

LEMMA ConfigureCases ==
  ASSUME Inv, NEW h \in Host, NEW w, NEW parent \in 0 .. USB_NUMDEVICES, NEW p \in Nat,
         NEW ports, NEW outcome, NEW n \in 0 .. MAX_IFACES,
         Configure(h, w, parent, p, ports, outcome, n)
  PROVE  /\ socket' = socket
         /\ \/ Failed(ports)
            \/ \E i \in Slot :
                 /\ Taken(i, socket[<<w, p>>], h, parent, p)
                 /\ Refused(i, ports) \/ Accepted(i, socket[<<w, p>>], parent, ports)
<1> DEFINE i == Min(Free)
           g == socket[<<w, p>>]
           entry == [Unused EXCEPT !.host = h, !.parent = parent, !.port = p]
           broken == [entry EXCEPT !.used = TRUE, !.gadget = g]
           whole == [entry EXCEPT !.used = TRUE, !.gadget = g, !.class = ClassOf(g), !.jindex = Numbers(n)]
           taking == /\ Free # {} /\ g \in Answering(h, 0)
                     /\ addr' = [x \in Gadget |-> IF x \in Answering(h, 0) THEN i ELSE addr[x]]
<1>1. Free # {} => i \in Slot /\ ~devices[i].used
  BY FirstSlot DEF Free
<1>2. devices \in [Slot -> Entry] /\ past \in PastSet
  BY DEF Inv, TypeOK, PastSet
<1>3. entry.class = "none" /\ ~entry.used /\ entry.host = h /\ entry.parent = parent /\ entry.port = p
  BY DEF Unused
<1>4. /\ broken.class = "none" /\ broken.used /\ broken.host = h /\ broken.parent = parent
      /\ broken.port = p /\ broken.gadget = g
      /\ whole.class = ClassOf(g) /\ whole.used /\ whole.host = h /\ whole.parent = parent
      /\ whole.port = p /\ whole.gadget = g
  <2> HIDE DEF g
  <2> QED BY DEF Unused
<1>5. socket' = socket
  BY DEF Configure
<1> HIDE DEF entry, broken, whole
<1>6. CASE /\ \/ devices' = devices
              \/ Free # {} /\ devices' = [devices EXCEPT ![i] = entry]
           /\ port' = ports /\ UNCHANGED <<power, addr>>
           /\ past' = [past EXCEPT !.lapse = TRUE]
  <2>1. past'.lapse
    BY <1>2, <1>6 DEF PastSet
  <2>2. \A j \in Slot : devices'[j] = devices[j]
          \/ (~devices[j].used /\ ~devices'[j].used /\ devices'[j].class = "none")
    <3> HIDE DEF i
    <3> QED BY <1>1, <1>2, <1>3, <1>6
  <2> QED BY <1>5, <1>6, <2>1, <2>2 DEF Failed
<1>7. ASSUME taking, NEW new, devices' = [devices EXCEPT ![i] = new],
             new.used, new.host = h, new.parent = parent, new.port = p, new.gadget = g
      PROVE  Taken(i, g, h, parent, p) /\ devices'[i] = new
  <2>1. i \in Slot /\ ~devices[i].used /\ g \in Answering(h, 0)
    BY <1>1, <1>7
  <2>2. \A x \in Gadget : addr'[x] = IF x \in Answering(h, 0) THEN i ELSE addr[x]
    BY <1>7
  <2> HIDE DEF i, g
  <2>3. (\A j \in Slot : j # i => devices'[j] = devices[j]) /\ devices'[i] = new
    BY <1>2, <1>7, <2>1
  <2> QED BY <1>7, <2>1, <2>2, <2>3 DEF Taken
<1>8. CASE /\ taking /\ devices' = [devices EXCEPT ![i] = broken]
           /\ past' = [past EXCEPT !.lapse = TRUE, !.leaked = @ + n]
           /\ port' = ports /\ UNCHANGED power
  <2>1. Taken(i, g, h, parent, p) /\ devices'[i] = broken
    <3> HIDE DEF i, g, taking
    <3> QED BY <1>4, <1>7, <1>8
  <2>2. past'.lapse
    BY <1>2, <1>8 DEF PastSet
  <2>3. Refused(i, ports)
    BY <1>4, <1>8, <2>1, <2>2 DEF Refused
  <2>4. i \in Slot
    BY <2>1 DEF Taken
  <2> HIDE DEF i, g
  <2> QED BY <1>5, <2>1, <2>3, <2>4 DEF g
<1>9. CASE /\ taking /\ devices' = [devices EXCEPT ![i] = whole]
           /\ power' = [x \in Hub |-> power[x] \/ x = g]
           /\ port' = [s \in Port |-> IF s[1] = g
                         THEN [Quiet EXCEPT !.cConnection = socket[s] # NoGadget] ELSE ports[s]]
           /\ past' = [past EXCEPT !.stray = @ \/ (ClassOf(g) = "none" /\ parent # 0)]
  <2>1. Taken(i, g, h, parent, p) /\ devices'[i] = whole
    <3> HIDE DEF i, g, taking
    <3> QED BY <1>4, <1>7, <1>9
  <2>2. past'.lapse = past.lapse /\ past'.swapped = past.swapped
        /\ past'.stray = (past.stray \/ (ClassOf(g) = "none" /\ parent # 0))
    <3>1. past' = [past EXCEPT !.stray = past.stray \/ (ClassOf(g) = "none" /\ parent # 0)]
      BY <1>2, <1>9 DEF PastSet
    <3> HIDE DEF g
    <3> QED BY <1>2, <3>1 DEF PastSet
  <2>3. /\ \A x \in Hub : power'[x] = (power[x] \/ x = g)
        /\ \A s \in Port : port'[s] = IF s[1] = g THEN [Quiet EXCEPT !.cConnection = socket[s] # NoGadget]
                                      ELSE ports[s]
    <3> HIDE DEF g, i, taking
    <3> QED BY <1>9
  <2>4. Accepted(i, g, parent, ports)
    <3> HIDE DEF g, i
    <3> QED BY <1>4, <2>1, <2>2, <2>3 DEF Accepted
  <2>5. i \in Slot
    BY <2>1 DEF Taken
  <2> HIDE DEF i, g
  <2> QED BY <1>5, <2>1, <2>4, <2>5 DEF g
<1> QED BY <1>6, <1>8, <1>9 DEF Configure, broken, whole, entry

\* Who takes an address has none before and is there; a hub among them has no
\* power.
LEMMA TakenFacts ==
  ASSUME Inv, WiringInv, NEW h \in Host, NEW i, NEW g, NEW parent, NEW p, Taken(i, g, h, parent, p)
  PROVE  /\ i \in Slot /\ i # 0 /\ g \in Gadget /\ g # NoGadget
         /\ \A x \in Answering(h, 0) :
              /\ x \in Gadget /\ addr[x] = 0 /\ Reachable(x) /\ h \in HostOf(x)
              /\ addr'[x] = i /\ (x \in Hub => ~power[x])
         /\ \A x \in Gadget : x \notin Answering(h, 0) => addr'[x] = addr[x]
<1>1. i \in Slot /\ i # 0
  BY UsbAssumption DEF Taken, Slot
<1>2. \A x \in Answering(h, 0) : x \in Gadget /\ addr[x] = 0 /\ Reachable(x) /\ h \in HostOf(x)
  BY DEF Answering
<1> QED BY <1>1, <1>2, SocketFacts DEF Taken, WiringInv, PoweredReachable

LEMMA WiringConfigure ==
  ASSUME Inv, WiringInv, NEW h \in Host, NEW i, NEW g, NEW parent, NEW p, NEW ports,
         Taken(i, g, h, parent, p), Refused(i, ports) \/ Accepted(i, g, parent, ports),
         \A s \in Port : ports[s].enabled = port[s].enabled,
         socket' = socket, TaskStops, task'[h] = "running"
  PROVE  WiringInv'
<1>1. /\ i # 0 /\ g \in Gadget /\ g \in Answering(h, 0)
      /\ \A x \in Answering(h, 0) : /\ x \in Gadget /\ addr[x] = 0 /\ Reachable(x) /\ h \in HostOf(x)
                                    /\ addr'[x] = i /\ (x \in Hub => ~power[x])
      /\ \A x \in Gadget : x \notin Answering(h, 0) => addr'[x] = addr[x]
  BY TakenFacts DEF Taken
<1>2. \A x \in Hub : power[x] => power'[x]
  BY DEF Refused, Accepted
<1>3. \A x \in Hub : power'[x] => power[x] \/ x = g
  BY DEF Refused, Accepted
<1>4. \A s \in Port : s[1] # g => port'[s].enabled = port[s].enabled
  BY DEF Refused, Accepted
<1>5. ASSUME NEW x, Reachable(x) PROVE Reachable(x)'
  <2>1. PICK s \in Socket : socket[s] = x /\ (s \in Root \/ (power[s[1]] /\ port[s].enabled))
    BY <1>5 DEF Reachable
  <2>2. CASE s \in Root
    BY <2>1, <2>2 DEF Reachable
  <2>3. CASE s \in Port
    <3>1. s[1] \in Hub /\ s \notin Root
      BY <2>3, SocketFacts
    <3>2. s[1] # g
      BY <1>1, <2>1, <3>1
    <3> QED BY <1>2, <1>4, <2>1, <2>3, <3>1, <3>2 DEF Reachable
  <2> QED BY <2>2, <2>3, SocketFacts
<1>6. PluggedOnce'
  BY DEF WiringInv, PluggedOnce
<1>7. UnpluggedDumb'
  BY <1>1 DEF WiringInv, UnpluggedDumb, Reachable
<1>8. PoweredReachable'
  <2> SUFFICES ASSUME NEW x \in Hub, power'[x] PROVE addr'[x] # 0 /\ Reachable(x)'
    BY DEF PoweredReachable
  <2>1. CASE power[x]
    <3>1. addr[x] # 0 /\ Reachable(x) /\ x \in Gadget
      BY <2>1, SocketFacts DEF WiringInv, PoweredReachable
    <3> QED BY <1>1, <1>5, <3>1
  <2>2. CASE x = g
    BY <1>1, <1>5, <2>2
  <2> QED BY <1>3, <2>1, <2>2
<1>9. RootFresh'
  <2> SUFFICES ASSUME NEW k \in Host, task'[k] # "running", socket[<<k, 0>>] # NoGadget
               PROVE  addr'[socket[<<k, 0>>]] = 0
    BY DEF RootFresh
  <2> DEFINE x == socket[<<k, 0>>]
  <2>1. x \in Gadget
    BY SocketFacts DEF Inv, TypeOK
  <2>2. addr[x] = 0
    BY DEF TaskStops, WiringInv, RootFresh
  <2>3. x \notin Answering(h, 0)
    BY <1>1, RootHost
  <2> QED BY <1>1, <2>1, <2>2, <2>3
<1> QED BY <1>6, <1>7, <1>8, <1>9 DEF WiringInv

-----------------------------------------------------------------------------
(* The entries, after a step.                                              *)

SameEntry(i) ==
  LET d == devices[i]
      e == devices'[i]
  IN  /\ e.used = d.used /\ e.host = d.host /\ e.parent = d.parent /\ e.port = d.port
      /\ e.class = d.class /\ e.gadget = d.gadget

StillUnused(i) == ~devices[i].used /\ ~devices'[i].used /\ devices'[i].class = "none"

\* No bus is being cleared that has entries; and afterwards those that are left
\* are of a bus that runs or is cleared.
NoneCleared == \A i \in Slot : Live(i) => ~Clearing(devices[i].host)
RunOrClear == \A i \in Slot, h \in Host :
                Live(i) /\ devices[i].host = h => task'[h] = "running" \/ Clearing(h)'

LEMMA EntryType ==
  ASSUME Inv, NEW i \in Slot
  PROVE  /\ devices[i].host \in Host /\ devices[i].parent \in 0 .. USB_NUMDEVICES
         /\ (devices[i].parent # 0 => devices[i].parent \in Slot)
         /\ devices[i].port \in Nat /\ devices[i].gadget \in Gadget \cup {NoGadget}
         /\ devices[i].used \in BOOLEAN
<1>1. devices[i] \in Entry
  BY DEF Inv, TypeOK
<1> QED BY <1>1, UsbAssumption DEF Entry, Slot

\* usb_poll goes on with the entries of a class as they are.
LEMMA EntriesMoved ==
  ASSUME Inv, EntriesInv, \A i \in Slot : SameEntry(i) \/ StillUnused(i),
         NoneCleared, RunOrClear, PolledHub', StackInv'
  PROVE  EntriesInv'
<1>1. \A i \in Slot : Live(i)' => Live(i) /\ SameEntry(i)
  BY DEF Live, SameEntry, StillUnused
<1>2. \A i \in Slot : Live(i) => Live(i)' /\ SameEntry(i)
  BY DEF Live, SameEntry, StillUnused
<1>3. HubsAreHubs'
  BY DEF EntriesInv, HubsAreHubs, SameEntry, StillUnused
<1>4. Grounded'
  <2> SUFFICES ASSUME NEW S \in SUBSET Slot, S # {}, \A i \in S : Live(i)'
               PROVE  \E i \in S : devices'[i].parent \notin S
    BY DEF Grounded
  <2>1. \A i \in S : Live(i) /\ devices'[i].parent = devices[i].parent
    BY <1>1 DEF SameEntry
  <2> QED BY <2>1 DEF EntriesInv, Grounded
<1>5. HubsKept'
  <2> SUFFICES ASSUME NEW i \in Slot, NEW j, j = devices'[i].parent, NEW h, h = devices'[i].host,
                      Live(i)', j # 0
               PROVE  LiveHub(j, h)'
    BY DEF HubsKept, LiveHub, Live
  <2>1. Live(i) /\ devices[i].parent = j /\ devices[i].host = h
    BY <1>1 DEF SameEntry
  <2>2. LiveHub(j, h)
    BY <2>1 DEF EntriesInv, HubsKept, NoneCleared
  <2> QED BY <1>2, <2>2 DEF LiveHub, SameEntry
<1>6. Cleared'
  <2> SUFFICES ASSUME NEW i \in Slot, Live(i)', NEW h, h = devices'[i].host
               PROVE  task'[h] = "running" \/ Clearing(h)'
    BY DEF Cleared, Clearing
  <2>1. Live(i) /\ devices[i].host = h /\ h \in Host
    BY <1>1, EntryType DEF SameEntry
  <2> QED BY <2>1 DEF RunOrClear
<1> QED BY <1>3, <1>4, <1>5, <1>6 DEF EntriesInv

LEMMA StackType ==
  ASSUME Inv, pc.at = "release"
  PROVE  /\ pc.stack \in Seq(Slot) /\ Len(pc.stack) \in Nat /\ Len(pc.stack) >= 1
         /\ pc.slot \in Slot /\ \A k \in 1 .. Len(pc.stack) : pc.stack[k] \in Slot
         /\ Top = pc.stack[1]
<1>1. pc.stack \in Seq(Slot) /\ pc.stack # <<>> /\ pc.slot \in Slot
  BY DEF Inv, PcInv
<1> QED BY <1>1 DEF Top

\* Nothing of it is touched.
LEMMA EntriesKept ==
  ASSUME Inv, EntriesInv, \A i \in Slot : SameEntry(i), UNCHANGED <<pc, task>>
  PROVE  EntriesInv'
<1>1. \A i \in Slot : Live(i)' = Live(i)
  BY DEF Live, SameEntry
<1>2. HubsAreHubs'
  BY DEF EntriesInv, HubsAreHubs, SameEntry
<1>3. Grounded'
  <2> SUFFICES ASSUME NEW S \in SUBSET Slot, S # {}, \A i \in S : Live(i)'
               PROVE  \E i \in S : devices'[i].parent \notin S
    BY DEF Grounded
  <2>1. \A i \in S : Live(i) /\ devices'[i].parent = devices[i].parent
    BY <1>1 DEF SameEntry
  <2> QED BY <2>1 DEF EntriesInv, Grounded
<1>4. HubsKept'
  BY <1>1, EntryType DEF EntriesInv, HubsKept, LiveHub, Clearing, SameEntry
<1>5. Cleared'
  BY <1>1 DEF EntriesInv, Cleared, Clearing, SameEntry
<1>6. PolledHub'
  <2>1. Polling => pc.slot \in Slot
    BY DEF Polling, Inv, PcInv
  <2> QED BY <1>1, <2>1 DEF EntriesInv, PolledHub, LiveHub, Polling, SameEntry
<1>7. StackInv'
  BY StackType DEF EntriesInv, StackInv, SameEntry
<1> QED BY <1>2, <1>3, <1>4, <1>5, <1>6, <1>7 DEF EntriesInv

\* An entry without children is given up.
LEMMA EntryRemoved ==
  ASSUME Inv, EntriesInv, NEW m \in Slot,
         \A i \in Slot : i # m => SameEntry(i),
         ~devices'[m].used, devices'[m].class = devices[m].class,
         devices'[m].gadget = devices[m].gadget,
         UNCHANGED task, \A h \in Host : Clearing(h)' <=> Clearing(h),
         \A i \in Slot : i # m /\ Live(i) /\ devices[i].parent = m => Clearing(devices[i].host),
         PolledHub', StackInv'
  PROVE  EntriesInv'
<1>1. \A i \in Slot : Live(i)' => Live(i) /\ i # m /\ SameEntry(i)
  BY DEF Live, SameEntry
<1>2. \A i \in Slot : i # m /\ Live(i) => Live(i)' /\ SameEntry(i)
  BY DEF Live, SameEntry
<1>3. HubsAreHubs'
  BY DEF EntriesInv, HubsAreHubs, SameEntry
<1>4. Grounded'
  <2> SUFFICES ASSUME NEW S \in SUBSET Slot, S # {}, \A i \in S : Live(i)'
               PROVE  \E i \in S : devices'[i].parent \notin S
    BY DEF Grounded
  <2>1. \A i \in S : Live(i) /\ devices'[i].parent = devices[i].parent
    BY <1>1 DEF SameEntry
  <2> QED BY <2>1 DEF EntriesInv, Grounded
<1>5. HubsKept'
  <2> SUFFICES ASSUME NEW i \in Slot, NEW j, j = devices'[i].parent, NEW h, h = devices'[i].host,
                      Live(i)', j # 0, ~Clearing(h)'
               PROVE  LiveHub(j, h)'
    BY DEF HubsKept, LiveHub, Live, Clearing
  <2>1. Live(i) /\ i # m /\ devices[i].parent = j /\ devices[i].host = h /\ h \in Host
    BY <1>1, EntryType DEF SameEntry
  <2>2. ~Clearing(h)
    BY <2>1
  <2>3. LiveHub(j, h)
    BY <2>1, <2>2 DEF EntriesInv, HubsKept
  <2>4. j # m
    BY <2>1, <2>2
  <2> QED BY <1>2, <2>3, <2>4 DEF LiveHub, SameEntry
<1>6. Cleared'
  <2> SUFFICES ASSUME NEW i \in Slot, Live(i)', NEW h, h = devices'[i].host
               PROVE  task'[h] = "running" \/ Clearing(h)'
    BY DEF Cleared, Clearing
  <2>1. Live(i) /\ devices[i].host = h /\ h \in Host
    BY <1>1, EntryType DEF SameEntry
  <2>2. task[h] = "running" \/ Clearing(h)
    BY <2>1 DEF EntriesInv, Cleared
  <2> QED BY <2>1, <2>2
<1> QED BY <1>3, <1>4, <1>5, <1>6 DEF EntriesInv

\* An entry is taken below a hub of the same bus, or for a root port.
LEMMA EntryAdded ==
  ASSUME Inv, EntriesInv, NEW i, NEW g, NEW h \in Host, NEW parent, NEW p, NEW ports,
         Taken(i, g, h, parent, p), Refused(i, ports) \/ Accepted(i, g, parent, ports),
         parent # 0 => LiveHub(parent, h),
         NoneCleared, RunOrClear, task'[h] = "running", PolledHub', StackInv'
  PROVE  EntriesInv'
<1>1. /\ i \in Slot /\ ~Live(i) /\ i # 0 /\ 0 \notin Slot
      /\ \A j \in Slot : j # i => devices'[j] = devices[j]
      /\ devices'[i].host = h /\ devices'[i].parent = parent /\ devices'[i].gadget = g
      /\ g \in Gadget
  BY UsbAssumption DEF Taken, Live, Slot, Answering
<1>2. \A j \in Slot : j # i => /\ Live(j)' = Live(j) /\ devices'[j] = devices[j]
  BY <1>1 DEF Live
<1>3. \A j \in Slot : Live(j) /\ devices[j].parent # 0 =>
        LiveHub(devices[j].parent, devices[j].host)
  BY DEF EntriesInv, HubsKept, NoneCleared
<1>4. HubsAreHubs'
  <2>1. devices'[i].class = "hub" => g \in Hub
    BY <1>1, UsbAssumption DEF Refused, Accepted, ClassOf, Hub
  <2> QED BY <1>1, <2>1 DEF EntriesInv, HubsAreHubs
<1>5. parent # i /\ \A j \in Slot : Live(j) => devices[j].parent # i
  BY <1>1, <1>3 DEF LiveHub
<1>6. Grounded'
  <2> SUFFICES ASSUME NEW S \in SUBSET Slot, S # {}, \A j \in S : Live(j)'
               PROVE  \E j \in S : devices'[j].parent \notin S
    BY DEF Grounded
  <2> DEFINE T == S \ {i}
  <2>1. \A j \in T : Live(j) /\ j \in Slot /\ devices'[j] = devices[j]
    BY <1>2
  <2>2. CASE T = {}
    <3>1. S = {i}
      BY <2>2
    <3> QED BY <1>1, <1>5, <3>1
  <2>3. CASE T # {}
    <3>1. PICK j \in T : devices[j].parent \notin T
      BY <2>1, <2>3 DEF EntriesInv, Grounded
    <3> QED BY <1>5, <2>1, <3>1
  <2> QED BY <2>2, <2>3
<1>7. HubsKept'
  <2> SUFFICES ASSUME NEW j \in Slot, NEW k, k = devices'[j].parent, NEW m, m = devices'[j].host,
                      Live(j)', k # 0
               PROVE  LiveHub(k, m)'
    BY DEF HubsKept, LiveHub, Live
  <2>1. LiveHub(k, m) /\ k # i
    <3>1. CASE j = i
      BY <1>1, <1>5, <3>1
    <3>2. CASE j # i
      <4>1. Live(j) /\ devices[j].parent = k /\ devices[j].host = m
        BY <1>2, <3>2
      <4> QED BY <1>3, <1>5, <4>1
    <3> QED BY <3>1, <3>2
  <2> QED BY <1>2, <2>1 DEF LiveHub
<1>8. Cleared'
  <2> SUFFICES ASSUME NEW j \in Slot, Live(j)', NEW k, k = devices'[j].host
               PROVE  task'[k] = "running" \/ Clearing(k)'
    BY DEF Cleared, Clearing
  <2>1. CASE j = i
    BY <1>1, <2>1
  <2>2. CASE j # i
    <3>1. Live(j) /\ devices[j].host = k /\ k \in Host
      BY <1>2, <2>2, EntryType
    <3> QED BY <3>1 DEF RunOrClear
  <2> QED BY <2>1, <2>2
<1> QED BY <1>4, <1>6, <1>7, <1>8 DEF EntriesInv

\* Where usb_poll goes on.
LEMMA PcSteps ==
  ASSUME Inv
  PROVE  /\ NextDevice.at = "devices" /\ NextDevice.host = pc.host
         /\ \A p : Past(p).at = pc.at /\ Past(p).host = pc.host /\ Past(p).slot = pc.slot
                   /\ Past(p).stack = pc.stack /\ Past(p).ports \subseteq pc.ports
         /\ \A k : Idle(k).at = "idle"
BY DEF Inv, PcInv, NextDevice, Past, Idle

\* A hub is polled only while its bus runs; nothing is cleared meanwhile.
LEMMA PollFacts ==
  ASSUME Inv, EntriesInv, Polling
  PROVE  /\ task[pc.host] = "running" /\ LiveHub(pc.slot, pc.host) /\ pc.host \in Host
         /\ pc.slot \in Slot /\ NoneCleared
         /\ pc.ports \subseteq 1 .. NbrPorts[ThisHub]
         /\ \A i \in Slot : Live(i) => task[devices[i].host] = "running"
         /\ \A h : ~Clearing(h)
         /\ \A i \in Slot : Live(i) /\ devices[i].parent # 0 =>
              LiveHub(devices[i].parent, devices[i].host)
<1>1. /\ task[pc.host] = "running" /\ LiveHub(pc.slot, pc.host)
      /\ pc.ports \subseteq 1 .. NbrPorts[ThisHub]
  BY DEF EntriesInv, PolledHub, ThisHub
<1>2. \A h : ~Clearing(h)
  BY DEF Polling, Clearing
<1>3. pc.host \in Host
  BY DEF Inv, PcInv
<1> QED BY <1>1, <1>2, <1>3 DEF LiveHub, NoneCleared, EntriesInv, Cleared, HubsKept

LEMMA RunKept ==
  ASSUME Inv, EntriesInv, NoneCleared, UNCHANGED task
  PROVE  RunOrClear
BY DEF EntriesInv, Cleared, NoneCleared, RunOrClear

LEMMA PollGoesOn ==
  ASSUME Inv, EntriesInv, Polling, UNCHANGED <<devices, task>>, pc'.host = pc.host,
         pc'.at = "devices" \/ (pc'.slot = pc.slot /\ pc'.ports \subseteq 1 .. NbrPorts[ThisHub]),
         StackInv'
  PROVE  EntriesInv'
<1>1. \A i \in Slot : SameEntry(i)
  BY DEF SameEntry
<1>2. NoneCleared /\ RunOrClear
  BY PollFacts, RunKept
<1>3. PolledHub'
  BY PollFacts DEF PolledHub, Polling, LiveHub, Live, ThisHub
<1> QED BY <1>1, <1>2, <1>3, EntriesMoved

LEMMA EntriesUsbPoll == ASSUME Inv, EntriesInv, UsbPoll PROVE EntriesInv'
<1>1. /\ pc.at = "idle" /\ pc'.at = "devices" /\ pc'.host = pc.host /\ pc.host \in Host
      /\ devices' = devices
  BY DEF UsbPoll, Inv, PcInv
<1>2. /\ \A h \in Host : h # pc.host => task'[h] = task[h]
      /\ task'[pc.host] = task[pc.host] \/ task'[pc.host] = "initialize" \/ task[pc.host] # "running"
  BY <1>1 DEF UsbPoll, Inv, TypeOK
<1>3. NoneCleared /\ \A i \in Slot : Live(i) => task[devices[i].host] = "running"
  BY <1>1 DEF NoneCleared, Clearing, EntriesInv, Cleared
<1>4. RunOrClear
  BY <1>1, <1>2, <1>3 DEF RunOrClear, Clearing
<1>5. PolledHub' /\ StackInv'
  BY <1>1 DEF PolledHub, Polling, StackInv
<1> QED BY <1>1, <1>3, <1>4, <1>5, EntriesMoved DEF SameEntry

LEMMA EntriesPollHub ==
  ASSUME Inv, WiringInv, EntriesInv, NEW i \in Slot, PollHub(i)
  PROVE  EntriesInv'
<1>1. /\ pc.at = "devices" /\ pc'.at = "changed" /\ pc'.host = pc.host /\ pc.host \in Host
      /\ pc'.slot = i /\ pc'.ports \subseteq 1 .. NbrPorts[devices[i].gadget]
      /\ UNCHANGED <<devices, task>> /\ HubEntry(i) /\ Answers(i)
  BY DEF PollHub, Inv, PcInv, Changed
<1>2. task[pc.host] = "running"
  <2>1. i # 0
    BY UsbAssumption DEF Slot
  <2> QED BY <1>1, <2>1, NoneAnswers DEF Answers
<1>3. NoneCleared /\ RunOrClear
  BY <1>1, <1>2, RunKept DEF NoneCleared, Clearing
<1>4. PolledHub' /\ StackInv'
  BY <1>1, <1>2 DEF PolledHub, StackInv, LiveHub, Live, HubEntry
<1> QED BY <1>1, <1>3, <1>4, EntriesMoved DEF SameEntry

LEMMA EntriesResetPort ==
  ASSUME Inv, EntriesInv, NEW p, NEW ok, ResetPort(p, ok)
  PROVE  EntriesInv'
<1>1. pc' = NextDevice /\ UNCHANGED <<devices, task>> /\ Polling
  BY DEF ResetPort, PortStatus, Polling
<1>2. pc'.host = pc.host /\ pc'.at = "devices"
  BY <1>1, PcSteps
<1>3. StackInv'
  BY <1>2 DEF StackInv
<1> QED BY <1>1, <1>2, <1>3, PollGoesOn

LEMMA EntriesLoopEnds == ASSUME Inv, EntriesInv, LoopEnds PROVE EntriesInv'
<1>1. UNCHANGED <<devices, task>> /\ Polling
  BY DEF LoopEnds, Polling
<1>2. /\ pc'.host = pc.host /\ pc'.at # "release"
      /\ pc'.at = "devices" \/ (pc'.slot = pc.slot /\ pc'.ports \subseteq 1 .. NbrPorts[ThisHub])
  <2>1. CASE pc.at = "changed"
    <3>1. pc' = [pc EXCEPT !.at = "disabled", !.ports = 1 .. NbrPorts[ThisHub]]
      BY <2>1 DEF LoopEnds
    <3> QED BY <3>1 DEF Inv, PcInv
  <2>2. CASE pc.at # "changed"
    BY <2>2, PcSteps DEF LoopEnds
  <2> QED BY <2>1, <2>2
<1>3. StackInv'
  BY <1>2 DEF StackInv
<1> QED BY <1>1, <1>2, <1>3, PollGoesOn

\* The hub that is polled is not its own child.
LEMMA NotItself == ASSUME Inv, EntriesInv, Polling PROVE devices[pc.slot].parent # pc.slot
<1>1. pc.slot \in Slot /\ Live(pc.slot)
  BY PollFacts DEF LiveHub
<1>2. \E i \in {pc.slot} : devices[i].parent \notin {pc.slot}
  BY <1>1 DEF EntriesInv, Grounded
<1> QED BY <1>2

LEMMA EntriesPortEmptied ==
  ASSUME Inv, EntriesInv, NEW p, PortEmptied(p)
  PROVE  EntriesInv'
<1> DEFINE gone == Match(pc.slot, p)
<1>1. UNCHANGED <<devices, task>> /\ pc.at \in {"changed", "disabled"} /\ Polling
  BY DEF PortEmptied, PortStatus, Polling
<1>2. CASE gone = {}
  <2>1. pc' = Past(p)
    BY <1>2 DEF PortEmptied
  <2>2. /\ pc'.at = pc.at /\ pc'.host = pc.host /\ pc'.slot = pc.slot
        /\ pc'.ports \subseteq 1 .. NbrPorts[ThisHub]
    BY <1>1, <2>1, PcSteps, PollFacts
  <2>3. StackInv'
    BY <1>1, <2>2 DEF StackInv
  <2> QED BY <1>1, <2>2, <2>3, PollGoesOn
<1>3. CASE gone # {}
  <2> DEFINE first == Min(gone)
  <2>1. first \in gone
    <3>1. gone \in SUBSET Slot
      BY DEF Match
    <3> HIDE DEF gone
    <3> QED BY <1>3, <3>1, FirstSlot
  <2>2. pc' = [Past(p) EXCEPT !.at = "release", !.stack = <<first>>]
    BY <1>3 DEF PortEmptied
  <2> HIDE DEF first
  <2>3. pc'.host = pc.host /\ pc'.slot = pc.slot /\ pc'.stack = <<first>> /\ pc'.ports \subseteq pc.ports
    BY <2>2 DEF Past, Inv, PcInv
  <2>4. first # pc.slot /\ devices[first].host = pc.host /\ devices[first].parent = pc.slot
    BY <1>1, <2>1, NotItself DEF Match
  <2>5. StackInv'
    BY <1>1, <2>3, <2>4 DEF StackInv
  <2> QED BY <1>1, <2>3, <2>5, PollFacts, PollGoesOn
<1> QED BY <1>2, <1>3

\* A child of the top of the stack is not the hub that is polled: else the
\* stack would be a circle.
LEMMA KidBelow ==
  ASSUME Inv, EntriesInv, pc.at = "release", NEW m \in Slot, devices[m].parent = Top
  PROVE  m # pc.slot
<1> SUFFICES ASSUME m = pc.slot PROVE FALSE
  OBVIOUS
<1> DEFINE n == Len(pc.stack)
           S == {x \in Slot : Live(x) /\ (x = pc.slot \/ \E k \in 1 .. n : x = pc.stack[k])}
<1>1. Polling
  BY DEF Polling
<1>2. /\ n \in Nat /\ n >= 1 /\ Top = pc.stack[1] /\ pc.slot \in Slot
      /\ \A k \in 1 .. n : pc.stack[k] \in Slot
  BY StackType
<1>3. 0 \notin Slot
  BY UsbAssumption DEF Slot
<1>4. \A x \in Slot : Live(x) /\ devices[x].parent # 0 => LiveHub(devices[x].parent, devices[x].host)
  BY <1>1, PollFacts
<1>5. Live(pc.slot)
  BY <1>1, PollFacts DEF LiveHub
<1>6. ASSUME NEW x \in S PROVE devices[x].parent \in S
  <2>1. \/ devices[x].parent = pc.slot
        \/ \E k \in 1 .. n : devices[x].parent = pc.stack[k]
    <3>1. CASE x = pc.slot
      BY <1>2, <3>1
    <3>2. ASSUME NEW k \in 1 .. n, x = pc.stack[k]
          PROVE  \/ devices[x].parent = pc.slot
                 \/ \E j \in 1 .. n : devices[x].parent = pc.stack[j]
      <4>1. devices[x].parent = IF k = n THEN pc.slot ELSE pc.stack[k + 1]
        BY <3>2 DEF EntriesInv, StackInv
      <4>2. k # n => k + 1 \in 1 .. n
        BY <1>2
      <4> QED BY <4>1, <4>2
    <3> QED BY <3>1, <3>2
  <2>2. devices[x].parent \in Slot
    BY <1>2, <2>1
  <2>3. Live(devices[x].parent)
    BY <1>3, <1>4, <2>2 DEF LiveHub
  <2> QED BY <2>1, <2>2, <2>3
<1>7. S \in SUBSET Slot /\ pc.slot \in S /\ \A x \in S : Live(x)
  BY <1>2, <1>5
<1> HIDE DEF S
<1> QED BY <1>6, <1>7 DEF EntriesInv, Grounded

LEMMA EntriesReleaseKid == ASSUME Inv, EntriesInv, ReleaseKid PROVE EntriesInv'
<1>1. UNCHANGED <<devices, task>> /\ pc.at = "release" /\ Polling
  BY DEF ReleaseKid, Polling
<1> DEFINE kid == Min(Kids)
           next == Min(Match(Top, devices[kid].port))
           n == Len(pc.stack)
<1>2. kid \in Kids
  <2>1. Kids \in SUBSET Slot /\ Kids # {}
    BY DEF Kids, ReleaseKid
  <2> QED BY <2>1, FirstSlot
<1>3. next \in Match(Top, devices[kid].port)
  <2>1. Match(Top, devices[kid].port) \in SUBSET Slot /\ Match(Top, devices[kid].port) # {}
    BY <1>2 DEF Kids, Match
  <2> QED BY <2>1, FirstSlot
<1>4. next \in Slot /\ devices[next].parent = Top /\ devices[next].host = pc.host
  BY <1>3 DEF Match
<1>5. pc' = [pc EXCEPT !.stack = <<next>> \o pc.stack]
  BY DEF ReleaseKid, Inv, PcInv
<1> HIDE DEF next
<1>6. /\ n \in Nat /\ n >= 1 /\ Top = pc.stack[1] /\ pc.slot \in Slot /\ pc.stack \in Seq(Slot)
      /\ \A k \in 1 .. n : pc.stack[k] \in Slot
  BY <1>1, StackType
<1>7. pc'.host = pc.host /\ pc'.slot = pc.slot /\ pc'.stack = <<next>> \o pc.stack /\ pc'.ports = pc.ports
  BY <1>5 DEF Inv, PcInv
<1>8. /\ Len(pc'.stack) = n + 1 /\ pc'.stack[1] = next
      /\ \A k \in 1 .. n : pc'.stack[k + 1] = pc.stack[k]
  <2>1. <<next>> \in Seq(Slot) /\ Len(<<next>>) = 1 /\ <<next>>[1] = next
    BY <1>4
  <2> QED BY <1>6, <1>7, <2>1
<1>9. StackInv'
  <2> SUFFICES ASSUME NEW k \in 1 .. n + 1
               PROVE  LET i == pc'.stack[k]
                      IN  /\ i # pc.slot /\ devices[i].host = pc.host
                          /\ devices[i].parent = IF k = n + 1 THEN pc.slot ELSE pc'.stack[k + 1]
    BY <1>1, <1>7, <1>8 DEF StackInv
  <2>1. CASE k = 1
    <3>1. next # pc.slot
      BY <1>1, <1>4, KidBelow
    <3>2. pc'.stack[k + 1] = Top
      BY <1>6, <1>8, <2>1
    <3> QED BY <1>4, <1>6, <1>8, <2>1, <3>1, <3>2
  <2>2. CASE k # 1
    <3> DEFINE j == k - 1
    <3>1. j \in 1 .. n /\ k = j + 1
      BY <1>6, <2>2
    <3>2. LET i == pc.stack[j]
          IN  /\ i # pc.slot /\ devices[i].host = pc.host
              /\ devices[i].parent = IF j = n THEN pc.slot ELSE pc.stack[j + 1]
      BY <1>1, <3>1 DEF EntriesInv, StackInv
    <3> HIDE DEF j
    <3>3. pc'.stack[k] = pc.stack[j] /\ (j # n => pc'.stack[k + 1] = pc.stack[j + 1])
      BY <1>6, <1>8, <3>1
    <3>4. k = n + 1 <=> j = n
      BY <1>6, <3>1
    <3> QED BY <3>2, <3>3, <3>4
  <2> QED BY <2>1, <2>2
<1> QED BY <1>1, <1>7, <1>9, PollFacts, PollGoesOn

LEMMA ReleaseStickEntries ==
  ASSUME Inv, NEW i \in Slot, ReleaseStick(i)
  PROVE  \A j \in Slot : SameEntry(j)
<1>1. devices' = Renumbered(i) /\ devices \in [Slot -> Entry]
  BY DEF ReleaseStick, Inv, TypeOK
<1>2. \A j \in Slot : \E s : devices'[j] = [devices[j] EXCEPT !.jindex = s]
  BY <1>1 DEF Renumbered
<1>3. ASSUME NEW j \in Slot PROVE SameEntry(j)
  <2>1. devices[j] \in Entry
    BY <1>1
  <2>2. PICK s : devices'[j] = [devices[j] EXCEPT !.jindex = s]
    BY <1>2
  <2> QED BY <2>1, <2>2 DEF Entry, SameEntry
<1> QED BY <1>3

\* What becomes of an entry that is given up.
LEMMA FreedEntry ==
  ASSUME Inv, NEW m \in Slot, devices' = [devices EXCEPT ![m].used = FALSE]
  PROVE  /\ \A i \in Slot : i # m => SameEntry(i) /\ devices'[i] = devices[i]
         /\ ~devices'[m].used /\ devices'[m].class = devices[m].class
         /\ devices'[m].gadget = devices[m].gadget
         /\ \A i \in Slot : devices'[i].parent = devices[i].parent /\ devices'[i].host = devices[i].host
                            /\ devices'[i].port = devices[i].port
BY DEF Inv, TypeOK, Entry, SameEntry

LEMMA EntriesReleaseDevice == ASSUME Inv, EntriesInv, ReleaseDevice PROVE EntriesInv'
<1> DEFINE n == Len(pc.stack)
<1>1. pc.at = "release" /\ Polling /\ Kids = {}
  BY DEF ReleaseDevice, Polling
<1>2. /\ n \in Nat /\ n >= 1 /\ Top = pc.stack[1] /\ pc.slot \in Slot /\ pc.stack \in Seq(Slot)
      /\ \A k \in 1 .. n : pc.stack[k] \in Slot
  BY <1>1, StackType
<1>3. Top \in Slot /\ Top # pc.slot /\ devices[Top].host = pc.host
  BY <1>1, <1>2 DEF EntriesInv, StackInv
<1>4. CASE ReleaseStick(Top)
  BY <1>3, <1>4, ReleaseStickEntries, EntriesKept DEF ReleaseStick
<1>5. CASE /\ devices' = [devices EXCEPT ![Top].used = FALSE]
           /\ pc' = IF Len(pc.stack) = 1 THEN [pc EXCEPT !.at = "changed", !.stack = <<>>]
                    ELSE [pc EXCEPT !.stack = Tail(@)]
           /\ UNCHANGED task
  <2>1. pc'.host = pc.host /\ pc'.slot = pc.slot /\ pc'.at \in {"changed", "release"}
        /\ pc'.ports = pc.ports /\ (pc'.at = "release" => n # 1 /\ pc'.stack = Tail(pc.stack))
    BY <1>1, <1>5 DEF Inv, PcInv
  <2>2. /\ \A i \in Slot : i # Top => SameEntry(i) /\ devices'[i] = devices[i]
        /\ ~devices'[Top].used /\ devices'[Top].class = devices[Top].class
        /\ devices'[Top].gadget = devices[Top].gadget
        /\ \A i \in Slot : devices'[i].parent = devices[i].parent /\ devices'[i].host = devices[i].host
    BY <1>3, <1>5, FreedEntry
  <2>3. \A h \in Host : Clearing(h)' <=> Clearing(h)
    BY <1>1, <2>1 DEF Clearing
  <2>4. ASSUME NEW i \in Slot, Live(i), devices[i].parent = Top PROVE FALSE
    <3>1. Top # 0
      BY <1>3, UsbAssumption DEF Slot
    <3>2. devices[i].host = pc.host
      BY <1>1, <1>3, <2>4, <3>1, PollFacts DEF LiveHub
    <3>3. i \in Match(Top, devices[i].port)
      BY <2>4, <3>2 DEF Match, Live
    <3>4. i \in Kids
      BY <2>4, <3>2, <3>3 DEF Kids
    <3> QED BY <1>1, <3>4
  <2>5. PolledHub'
    BY <1>1, <1>3, <1>5, <2>1, <2>2, PollFacts DEF PolledHub, LiveHub, Live, ThisHub
  <2>6. StackInv'
    <3> SUFFICES ASSUME pc'.at = "release", NEW k \in 1 .. Len(pc'.stack)
                 PROVE  LET i == pc'.stack[k]
                        IN  /\ i # pc.slot /\ devices'[i].host = pc.host
                            /\ devices'[i].parent = IF k = Len(pc'.stack) THEN pc.slot ELSE pc'.stack[k + 1]
      BY <2>1 DEF StackInv
    <3> DEFINE j == k + 1
    <3>1. pc'.stack = Tail(pc.stack) /\ Len(pc'.stack) = n - 1 /\ n # 1
      <4>1. pc.stack # <<>>
        BY <1>1 DEF Inv, PcInv
      <4>2. Len(Tail(pc.stack)) = n - 1
        BY <1>2, <4>1, TailOfStack
      <4> QED BY <2>1, <4>2
    <3>2. j \in 1 .. n /\ k \in Nat /\ (k = n - 1 <=> j = n)
      BY <1>2, <3>1
    <3>3. pc'.stack[k] = pc.stack[j] /\ (j # n => pc'.stack[k + 1] = pc.stack[j + 1])
      BY <1>2, <3>1, <3>2
    <3>4. LET i == pc.stack[j]
          IN  /\ i # pc.slot /\ devices[i].host = pc.host
              /\ devices[i].parent = IF j = n THEN pc.slot ELSE pc.stack[j + 1]
      BY <1>1, <3>2 DEF EntriesInv, StackInv
    <3>5. pc.stack[j] \in Slot
      BY <1>2, <3>2
    <3> HIDE DEF j
    <3> QED BY <2>2, <3>1, <3>2, <3>3, <3>4, <3>5
  <2> QED BY <1>3, <1>5, <2>2, <2>3, <2>4, <2>5, <2>6, EntryRemoved
<1> QED BY <1>4, <1>5 DEF ReleaseDevice

\* The poll of a root port ends.
LEMMA GoesFacts ==
  ASSUME Inv, NEW from, NEW to, Goes(from, to)
  PROVE  /\ pc.at = "devices" /\ pc'.at = "idle" /\ pc.host \in Host /\ task[pc.host] = from
         /\ task'[pc.host] = to /\ \A h \in Host : h # pc.host => task'[h] = task[h]
         /\ PolledHub' /\ StackInv'
<1>1. pc.at = "devices" /\ pc.host \in Host /\ task[pc.host] = from
  BY DEF Goes, AllPolled, Inv, PcInv
<1>2. pc'.at = "idle"
  BY DEF Goes, Idle
<1>3. task'[pc.host] = to /\ \A h \in Host : h # pc.host => task'[h] = task[h]
  BY <1>1 DEF Goes, Inv, TypeOK
<1> QED BY <1>1, <1>2, <1>3 DEF PolledHub, Polling, StackInv

LEMMA GoesOn ==
  ASSUME Inv, EntriesInv, NEW from, NEW to, Goes(from, to), from # "initialize",
         from = "running" => to = "running"
  PROVE  NoneCleared /\ RunOrClear
<1>1. NoneCleared
  BY GoesFacts DEF NoneCleared, Clearing
<1>2. RunOrClear
  BY <1>1, GoesFacts DEF RunOrClear, NoneCleared, EntriesInv, Cleared
<1> QED BY <1>1, <1>2

LEMMA EntriesGo ==
  ASSUME Inv, EntriesInv, TaskIdle \/ Settled \/ ResetBus
  PROVE  EntriesInv'
<1>1. PICK from, to : Goes(from, to) /\ from # "initialize" /\ (from = "running" => to = "running")
  BY DEF TaskIdle, Settled, ResetBus
<1>2. \A i \in Slot : SameEntry(i)
  BY DEF TaskIdle, Settled, ResetBus, SameEntry
<1> QED BY <1>1, <1>2, GoesFacts, GoesOn, EntriesMoved

LEMMA EntriesInitialize == ASSUME Inv, EntriesInv, Initialize PROVE EntriesInv'
<1> DEFINE m == Min(Doomed)
<1>1. Doomed # {} => m \in Doomed
  <2>1. Doomed \in SUBSET Slot
    BY DEF Doomed
  <2> QED BY <2>1, FirstSlot
<1> HIDE DEF m
<1>2. \A i \in Slot : i \in Doomed <=> Live(i) /\ devices[i].host = pc.host
  BY DEF Doomed, Live
<1>3. CASE Doomed # {} /\ ReleaseStick(m)
  <2>1. m \in Slot /\ UNCHANGED <<pc, task>>
    BY <1>1, <1>3 DEF Doomed, ReleaseStick
  <2> QED BY <1>3, <2>1, ReleaseStickEntries, EntriesKept
<1>4. CASE /\ Doomed # {} /\ AllPolled /\ task[pc.host] = "initialize"
           /\ devices' = [devices EXCEPT ![m].used = FALSE]
           /\ UNCHANGED <<task, pc>>
  <2>1. m \in Slot /\ Live(m) /\ devices[m].host = pc.host
    BY <1>1, <1>2, <1>4 DEF Doomed
  <2>2. /\ \A i \in Slot : i # m => SameEntry(i)
        /\ ~devices'[m].used /\ devices'[m].class = devices[m].class
        /\ devices'[m].gadget = devices[m].gadget
    BY <1>4, <2>1, FreedEntry
  <2>3. \A h \in Host : Clearing(h)' <=> Clearing(h)
    BY <1>4 DEF Clearing
  <2>4. Clearing(pc.host)
    BY <1>4 DEF Clearing, AllPolled
  <2>5. \A i \in Slot : i # m /\ Live(i) /\ devices[i].parent = m => Clearing(devices[i].host)
    <3>1. m # 0
      BY <2>1, UsbAssumption DEF Slot
    <3> QED BY <2>1, <2>4, <3>1 DEF EntriesInv, HubsKept, LiveHub
  <2>6. PolledHub' /\ StackInv'
    BY <1>4 DEF PolledHub, Polling, StackInv, AllPolled
  <2> QED BY <1>4, <2>1, <2>2, <2>3, <2>5, <2>6, EntryRemoved
<1>5. CASE Doomed = {} /\ Goes("initialize", "wait") /\ devices' = devices
  <2>1. \A i \in Slot : ~(Live(i) /\ devices[i].host = pc.host)
    BY <1>2, <1>5
  <2>2. NoneCleared
    BY <2>1 DEF NoneCleared, Clearing
  <2>3. RunOrClear
    BY <1>5, <2>1, <2>2, GoesFacts DEF RunOrClear, NoneCleared, EntriesInv, Cleared
  <2>4. \A i \in Slot : SameEntry(i)
    BY <1>5 DEF SameEntry
  <2> QED BY <1>5, <2>2, <2>3, <2>4, GoesFacts, EntriesMoved
<1> QED BY <1>3, <1>4, <1>5 DEF Initialize, m

\* An attempt to configure, with the poll going on elsewhere.
LEMMA EntriesConfigure ==
  ASSUME Inv, EntriesInv, NEW h \in Host, NEW w, NEW parent \in 0 .. USB_NUMDEVICES, NEW p \in Nat,
         NEW ports, NEW outcome, NEW n \in 0 .. MAX_IFACES,
         Configure(h, w, parent, p, ports, outcome, n),
         parent # 0 => LiveHub(parent, h),
         NoneCleared, RunOrClear, task'[h] = "running",
         Polling' => /\ Polling /\ pc'.slot = pc.slot /\ pc'.host = pc.host /\ pc'.ports \subseteq pc.ports
                     /\ task'[pc.host] = "running" /\ pc'.at # "release"
  PROVE  EntriesInv'
<1> DEFINE g == socket[<<w, p>>]
<1>1. \/ Failed(ports)
      \/ \E i \in Slot : Taken(i, g, h, parent, p) /\ (Refused(i, ports) \/ Accepted(i, g, parent, ports))
  BY ConfigureCases
<1>2. StackInv'
  BY DEF StackInv, Polling
<1>3. PolledHub'
  <2> SUFFICES ASSUME Polling', NEW j, j = pc'.slot, NEW k, k = pc'.host
               PROVE  /\ task'[k] = "running" /\ LiveHub(j, k)'
                      /\ pc'.ports \subseteq 1 .. NbrPorts[devices'[j].gadget]
    BY DEF PolledHub, LiveHub, Live
  <2>1. /\ LiveHub(pc.slot, pc.host) /\ pc.slot \in Slot
        /\ pc.ports \subseteq 1 .. NbrPorts[devices[pc.slot].gadget]
    BY PollFacts DEF ThisHub
  <2>2. devices'[pc.slot] = devices[pc.slot]
    BY <1>1, <2>1 DEF Failed, Taken, LiveHub, Live
  <2> QED BY <2>1, <2>2 DEF LiveHub, Live
<1> HIDE DEF g
<1>4. CASE Failed(ports)
  <2>1. \A i \in Slot : SameEntry(i) \/ StillUnused(i)
    BY <1>4 DEF Failed, SameEntry, StillUnused
  <2> QED BY <1>2, <1>3, <2>1, EntriesMoved
<1>5. ASSUME NEW i \in Slot, Taken(i, g, h, parent, p),
             Refused(i, ports) \/ Accepted(i, g, parent, ports)
      PROVE  EntriesInv'
  BY <1>2, <1>3, <1>5, EntryAdded
<1> QED BY <1>1, <1>4, <1>5

LEMMA ConfiguringFacts ==
  ASSUME Inv, NEW outcome, NEW n, Configuring(outcome, n)
  PROVE  /\ Goes("configuring", "running") /\ pc.host \in Host /\ bResetInitiated' = bResetInitiated
         /\ Configure(pc.host, pc.host, 0, 0, port, outcome, n)
         /\ 0 \in 0 .. USB_NUMDEVICES /\ 0 \in Nat
BY UsbAssumption DEF Configuring, Inv, PcInv

LEMMA EntriesConfiguring ==
  ASSUME Inv, EntriesInv, NEW outcome, NEW n \in 0 .. MAX_IFACES, Configuring(outcome, n)
  PROVE  EntriesInv'
<1>1. /\ Goes("configuring", "running") /\ pc.host \in Host /\ 0 \in 0 .. USB_NUMDEVICES /\ 0 \in Nat
      /\ Configure(pc.host, pc.host, 0, 0, port, outcome, n)
  BY ConfiguringFacts
<1>2. NoneCleared /\ RunOrClear /\ task'[pc.host] = "running"
  BY <1>1, GoesOn, GoesFacts
<1>3. ~Polling'
  BY <1>1, GoesFacts DEF Polling
<1> QED BY <1>1, <1>2, <1>3, EntriesConfigure

\* What is known when a port has been reset.
LEMMA PortResetFacts ==
  ASSUME Inv, EntriesInv, NEW p \in Nat, NEW outcome, NEW n, PortReset(p, outcome, n)
  PROVE  LET ports == [port EXCEPT ![<<ThisHub, p>>].cReset = FALSE]
         IN  /\ PortStatus(p) /\ ResetEvent(p) /\ Polling /\ task' = task /\ bResetInitiated' = FALSE
             /\ pc'.at = pc.at /\ pc'.host = pc.host /\ pc'.slot = pc.slot /\ pc'.ports \subseteq pc.ports
             /\ pc.at = "changed"
             /\ pc.slot \in 0 .. USB_NUMDEVICES /\ pc.slot \in Slot /\ pc.host \in Host
             /\ Configure(pc.host, ThisHub, pc.slot, p, ports, outcome, n)
<1>1. PortStatus(p) /\ ResetEvent(p) /\ Polling /\ task' = task /\ bResetInitiated' = FALSE
      /\ pc.at = "changed" /\ pc' = Past(p)
  BY DEF PortReset, PortStatus, Polling, ResetOver, ResetEvent
<1>2. pc'.at = pc.at /\ pc'.host = pc.host /\ pc'.slot = pc.slot /\ pc'.ports \subseteq pc.ports
  BY <1>1, PcSteps
<1>3. pc.slot \in Slot /\ pc.host \in Host
  BY <1>1, PollFacts
<1>4. pc.slot \in 0 .. USB_NUMDEVICES
  BY <1>3, UsbAssumption DEF Slot
<1> QED BY <1>1, <1>2, <1>3, <1>4 DEF PortReset

LEMMA EntriesPortReset ==
  ASSUME Inv, EntriesInv, NEW p \in Nat, NEW outcome, NEW n \in 0 .. MAX_IFACES,
         PortReset(p, outcome, n)
  PROVE  EntriesInv'
<1> DEFINE ports == [port EXCEPT ![<<ThisHub, p>>].cReset = FALSE]
<1>1. /\ Polling /\ task' = task /\ pc'.at = pc.at /\ pc'.host = pc.host /\ pc'.slot = pc.slot
      /\ pc'.ports \subseteq pc.ports
      /\ pc.at = "changed" /\ pc.slot \in 0 .. USB_NUMDEVICES /\ pc.host \in Host
      /\ Configure(pc.host, ThisHub, pc.slot, p, ports, outcome, n)
  BY PortResetFacts
<1>2. NoneCleared /\ RunOrClear /\ task[pc.host] = "running" /\ LiveHub(pc.slot, pc.host)
  BY <1>1, PollFacts, RunKept
<1> HIDE DEF ports
<1> QED BY <1>1, <1>2, EntriesConfigure

-----------------------------------------------------------------------------
(* One reset at a time, after a step.                                       *)

\* The port that is looked at is one of a hub that answers.
LEMMA PolledPort ==
  ASSUME Inv, EntriesInv, NEW p, PortStatus(p)
  PROVE  /\ <<ThisHub, p>> \in Port /\ <<ThisHub, p>> \in Socket /\ ThisHub \in Hub
         /\ addr[ThisHub] = pc.slot /\ pc.slot # 0 /\ pc.slot \in Slot /\ Polling
         /\ ThisHub \in Gadget
<1>1. Polling /\ p \in pc.ports /\ ThisHub \in Answering(pc.host, pc.slot)
  BY DEF PortStatus, Polling, Answers, ThisHub
<1>2. pc.slot \in Slot /\ pc.slot # 0 /\ p \in 1 .. NbrPorts[ThisHub]
  BY <1>1, PollFacts, UsbAssumption DEF Slot
<1>3. ThisHub \in Hub
  BY <1>1, PollFacts DEF LiveHub, EntriesInv, HubsAreHubs, ThisHub
<1>4. <<ThisHub, p>> \in Port
  BY <1>2, <1>3 DEF Port
<1> QED BY <1>1, <1>2, <1>3, <1>4, SocketFacts DEF Answering

LEMMA PastLapse ==
  ASSUME Inv
  PROVE  /\ \A b : [past EXCEPT !.lapse = b].lapse = b
         /\ \A b, c : [past EXCEPT !.plugs = b, !.lapse = c].lapse = c
         /\ \A b, c : [past EXCEPT !.plugs = b, !.swapped = c].lapse = past.lapse
         /\ \A b : [past EXCEPT !.moved = b].lapse = past.lapse
BY DEF Inv, TypeOK

\* The parts of the invariant, where nothing lapsed.
LEMMA ResetParts ==
  ASSUME ResetInv, ~past.lapse
  PROVE  /\ ConfiguredPowered /\ QuietUnpowered /\ PortBits
         /\ \A s, t \in Resetting : s = t
         /\ Resetting # {} => bResetInitiated
         /\ bResetInitiated => \E s \in Port : port[s].reset \/ port[s].cReset
BY DEF ResetInv, OneReset, FlagHasReset

LEMMA ResetPartsNext ==
  ASSUME ConfiguredPowered', QuietUnpowered', PortBits',
         \A s, t \in Port : s \in Resetting' /\ t \in Resetting' => s = t,
         \A s \in Port : s \in Resetting' => bResetInitiated',
         bResetInitiated' => \E s \in Port : port'[s].reset \/ port'[s].cReset
  PROVE  ResetInv'
BY DEF ResetInv, OneReset, FlagHasReset, Resetting

\* Nothing of it is touched.
LEMMA ResetKept ==
  ASSUME ResetInv, UNCHANGED <<socket, power, port, addr, bResetInitiated>>, past'.lapse = past.lapse,
         \A i \in Slot : devices'[i].gadget = devices[i].gadget
  PROVE  ResetInv'
BY DEF ResetInv, ConfiguredPowered, QuietUnpowered, PortBits, OneReset, FlagHasReset, Resetting

LEMMA ResetPlug ==
  ASSUME Inv, ResetInv, NEW g \in Gadget, NEW s \in Socket, Plug(g, s)
  PROVE  ResetInv'
<1>1. socket \in [Socket -> Gadget \cup {NoGadget}] /\ port \in [Port -> PortRegister]
  BY DEF Inv, TypeOK
<1>2. /\ UNCHANGED <<power, addr, devices, bResetInitiated>> /\ past'.lapse = past.lapse
      /\ socket[s] = NoGadget
      /\ \A x \in Socket : socket'[x] = IF x = s THEN g ELSE socket[x]
  BY <1>1, PastLapse DEF Plug
<1>3. \A x \in Port : /\ port'[x].enabled = port[x].enabled /\ port'[x].reset = port[x].reset
                      /\ port'[x].cReset = port[x].cReset
                      /\ (~power[x[1]] => port'[x] = port[x])
  BY <1>1 DEF Plug, PortRegister
<1>4. CASE past.lapse
  BY <1>2, <1>4 DEF ResetInv
<1>5. CASE ~past.lapse
  <2>1. /\ ConfiguredPowered /\ QuietUnpowered /\ PortBits
        /\ \A x, t \in Resetting : x = t
        /\ Resetting # {} => bResetInitiated
        /\ bResetInitiated => \E x \in Port : port[x].reset \/ port[x].cReset
    BY <1>5, ResetParts
  <2>2. ConfiguredPowered' /\ QuietUnpowered'
    BY <1>2, <1>3, <2>1 DEF ConfiguredPowered, QuietUnpowered
  <2>3. PortBits'
    <3> SUFFICES ASSUME NEW x \in Port
                 PROVE  /\ port'[x].enabled \/ port'[x].reset => socket'[x] # NoGadget
                        /\ ~(port'[x].enabled /\ port'[x].reset)
      BY DEF PortBits
    <3> QED BY <1>2, <1>3, <2>1, SocketFacts DEF PortBits
  <2>4. \A x \in Port : x \in Resetting' => x \in Resetting
    <3> SUFFICES ASSUME NEW x \in Port,
                        \/ port'[x].reset \/ port'[x].cReset
                        \/ port'[x].enabled /\ socket'[x] # NoGadget /\ addr'[socket'[x]] = 0
                 PROVE  x \in Resetting
      BY DEF Resetting
    <3>1. x = s => ~port[x].enabled
      BY <1>2, <2>1 DEF PortBits
    <3> QED BY <1>2, <1>3, <3>1, SocketFacts DEF Resetting
  <2>5. bResetInitiated' => \E x \in Port : port'[x].reset \/ port'[x].cReset
    BY <1>2, <1>3, <2>1
  <2> QED BY <1>2, <2>1, <2>2, <2>3, <2>4, <2>5, ResetPartsNext
<1> QED BY <1>4, <1>5

\* What is not below g keeps its address; a hub that keeps its address is not
\* below g.
PoweredOff(g, ports) ==
  /\ \A s \in Port : socket[s] # g /\ s[1] \notin Off(g) /\ socket[s] # NoGadget =>
       addr'[socket[s]] = addr[socket[s]]
  /\ \A x \in Gadget : addr'[x] # 0 => addr'[x] = addr[x]
  /\ \A x \in Hub : addr'[x] # 0 => x \notin Off(g)
  /\ \A x \in Hub : power'[x] = (power[x] /\ x \notin Off(g))
  /\ \A s \in Port : port'[s] = IF s[1] \in Off(g) THEN Quiet ELSE ports[s]

LEMMA PowerlessAddr ==
  ASSUME Inv, WiringInv, NEW t \in Socket, NEW ports, socket[t] # NoGadget,
         Powerless(Off(socket[t]), {socket[t]}, ports)
  PROVE  PoweredOff(socket[t], ports)
<1> DEFINE g == socket[t]
           off == Off(g)
<1>1. g \in Gadget /\ socket \in [Socket -> Gadget \cup {NoGadget}]
  BY DEF Inv, TypeOK
<1>2. /\ \A x \in Hub : power'[x] = (power[x] /\ x \notin off)
      /\ \A s \in Port : port'[s] = IF s[1] \in off THEN Quiet ELSE ports[s]
      /\ \A x \in Gadget : addr'[x] = IF x \in {g} \/ \E s \in Port : s[1] \in off /\ socket[s] = x
                                      THEN 0 ELSE addr[x]
  <2> HIDE DEF off, g
  <2> QED BY PowerlessFacts DEF off, g
<1>3. \A x \in off : x = g \/ \E s \in Port : s[1] \in off /\ socket[s] = x
  BY BelowIn DEF Off
<1>4. \A x \in Hub : addr'[x] # 0 => x \notin off
  <2> HIDE DEF off, g
  <2> QED BY <1>2, <1>3, SocketFacts
<1>5. ASSUME NEW s \in Port, socket[s] # g, s[1] \notin off, socket[s] # NoGadget
      PROVE  addr'[socket[s]] = addr[socket[s]]
  <2>1. socket[s] \in Gadget /\ \A y \in Port : socket[y] = socket[s] => y = s
    BY <1>1, <1>5, SocketFacts DEF WiringInv, PluggedOnce
  <2> HIDE DEF off, g
  <2> QED BY <1>2, <1>5, <2>1
<1> QED BY <1>2, <1>4, <1>5 DEF PoweredOff

LEMMA PoweredKept ==
  ASSUME Inv, ConfiguredPowered, NEW off, UNCHANGED devices,
         \A x \in Gadget : addr'[x] # 0 => addr'[x] = addr[x],
         \A x \in Hub : addr'[x] # 0 => x \notin off,
         \A x \in Hub : power'[x] = (power[x] /\ x \notin off)
  PROVE  ConfiguredPowered'
<1> SUFFICES ASSUME NEW i \in Slot, NEW x \in Hub, devices[i].gadget = x, addr'[x] = i
             PROVE  power'[x]
  BY DEF ConfiguredPowered
<1>1. i # 0 /\ x \in Gadget
  BY UsbAssumption, SocketFacts DEF Slot
<1>2. addr[x] = i /\ x \notin off
  BY <1>1
<1>3. power[x]
  BY <1>2 DEF ConfiguredPowered
<1> QED BY <1>2, <1>3

LEMMA ResetUnplug ==
  ASSUME Inv, WiringInv, ResetInv, NEW s \in Socket, Unplug(s)
  PROVE  ResetInv'
<1> DEFINE g == socket[s]
           off == Off(g)
           left == IF s \in Port /\ power[s[1]]
                   THEN [port EXCEPT ![s].cConnection = TRUE, ![s].enabled = FALSE, ![s].reset = FALSE]
                   ELSE port
<1>1. socket \in [Socket -> Gadget \cup {NoGadget}] /\ port \in [Port -> PortRegister]
  BY DEF Inv, TypeOK
<1>2. /\ UNCHANGED <<devices, bResetInitiated>> /\ past'.lapse = (past.lapse \/ bResetInitiated)
      /\ g # NoGadget
      /\ \A x \in Socket : socket'[x] = IF x = s THEN NoGadget ELSE socket[x]
  BY <1>1, PastLapse DEF Unplug
<1>3. Powerless(off, {g}, left)
  BY DEF Unplug, Off
<1>4. CASE past.lapse \/ bResetInitiated
  BY <1>2, <1>4 DEF ResetInv
<1>5. CASE ~past.lapse /\ ~bResetInitiated
  <2>1. ConfiguredPowered /\ QuietUnpowered /\ PortBits /\ Resetting = {}
    BY <1>5, ResetParts
  <2>2. \A x \in Port : x # s => left[x] = port[x]
    BY <1>1
  <2>3. s \in Port => ~left[s].enabled /\ ~left[s].reset /\ left[s].cReset = port[s].cReset
                      /\ (~power[s[1]] => left[s] = Quiet)
    <3>1. CASE s \in Port /\ power[s[1]]
      BY <1>1, <3>1 DEF PortRegister
    <3>2. CASE s \in Port /\ ~power[s[1]]
      BY <2>1, <3>2 DEF QuietUnpowered, Quiet
    <3> QED BY <3>1, <3>2
  <2> HIDE DEF left
  <2>4. /\ \A x \in Port : socket[x] # g /\ x[1] \notin off /\ socket[x] # NoGadget =>
             addr'[socket[x]] = addr[socket[x]]
        /\ \A x \in Gadget : addr'[x] # 0 => addr'[x] = addr[x]
        /\ \A x \in Hub : addr'[x] # 0 => x \notin off
        /\ \A x \in Hub : power'[x] = (power[x] /\ x \notin off)
        /\ \A x \in Port : port'[x] = IF x[1] \in off THEN Quiet ELSE left[x]
    <3>1. PoweredOff(g, left)
      BY <1>2, <1>3, PowerlessAddr
    <3> QED BY <3>1 DEF PoweredOff
  <2> HIDE DEF off
  <2>5. ConfiguredPowered'
    BY <1>2, <2>1, <2>4, PoweredKept
  <2>6. ASSUME NEW x \in Port, x[1] \notin off, x # s PROVE port'[x] = port[x]
    BY <2>2, <2>4, <2>6
  <2>7. QuietUnpowered'
    <3> SUFFICES ASSUME NEW x \in Port, ~power'[x[1]], x[1] \notin off PROVE port'[x] = Quiet
      BY <2>4 DEF QuietUnpowered
    <3>1. ~power[x[1]]
      BY <2>4, SocketFacts
    <3> QED BY <2>1, <2>3, <2>4, <2>6, <3>1 DEF QuietUnpowered
  <2>8. PortBits'
    <3> SUFFICES ASSUME NEW x \in Port
                 PROVE  /\ port'[x].enabled \/ port'[x].reset => socket'[x] # NoGadget
                        /\ ~(port'[x].enabled /\ port'[x].reset)
      BY DEF PortBits
    <3>1. CASE x[1] \in off
      BY <2>4, <3>1 DEF Quiet
    <3>2. CASE x[1] \notin off /\ x = s
      BY <2>3, <2>4, <3>2
    <3>3. CASE x[1] \notin off /\ x # s
      BY <1>2, <2>1, <2>6, <3>3, SocketFacts DEF PortBits
    <3> QED BY <3>1, <3>2, <3>3
  <2>9. ASSUME NEW x \in Port PROVE x \notin Resetting'
    <3> SUFFICES ASSUME \/ port'[x].reset \/ port'[x].cReset
                        \/ port'[x].enabled /\ socket'[x] # NoGadget /\ addr'[socket'[x]] = 0
                 PROVE  FALSE
      BY DEF Resetting
    <3>1. CASE x[1] \in off
      BY <2>4, <3>1 DEF Quiet
    <3>2. CASE x[1] \notin off /\ x = s
      BY <2>1, <2>3, <2>4, <3>2 DEF Resetting
    <3>3. CASE x[1] \notin off /\ x # s
      <4>1. socket'[x] = socket[x] /\ port'[x] = port[x]
        BY <1>2, <2>6, <3>3, SocketFacts
      <4>2. socket[x] # g
        BY <1>2, <3>3, SocketFacts DEF WiringInv, PluggedOnce
      <4> QED BY <2>1, <2>4, <3>3, <4>1, <4>2 DEF Resetting
    <3> QED BY <3>1, <3>2, <3>3
  <2> QED BY <1>2, <1>5, <2>5, <2>7, <2>8, <2>9, ResetPartsNext
<1> QED BY <1>4, <1>5

LEMMA ResetResetDone ==
  ASSUME Inv, WiringInv, ResetInv, NEW s, ResetDone(s)
  PROVE  ResetInv'
<1> DEFINE g == socket[s]
           off == Off(g)
           done == [port EXCEPT ![s] = [@ EXCEPT !.enabled = TRUE, !.reset = FALSE, !.cReset = TRUE]]
<1>1. socket \in [Socket -> Gadget \cup {NoGadget}] /\ port \in [Port -> PortRegister]
  BY DEF Inv, TypeOK
<1>2. UNCHANGED <<socket, devices, bResetInitiated, past>> /\ s \in Port /\ s \in Socket /\ port[s].reset
  BY SocketFacts DEF ResetDone
<1>3. Powerless(off, {g}, done)
  BY DEF ResetDone, Off
<1>4. CASE past.lapse
  BY <1>2, <1>4 DEF ResetInv
<1>5. CASE ~past.lapse
  <2>1. /\ ConfiguredPowered /\ QuietUnpowered /\ PortBits
        /\ \A x, t \in Resetting : x = t
        /\ Resetting # {} => bResetInitiated
    BY <1>5, ResetParts
  <2>2. s \in Resetting /\ bResetInitiated
    BY <1>2, <2>1 DEF Resetting
  <2>3. g # NoGadget /\ ~port[s].enabled /\ power[s[1]]
    BY <1>2, <2>1 DEF PortBits, QuietUnpowered, Quiet
  <2>4. s[1] \notin off
    <3>1. g \in Hub => ~power[g]
      <4> SUFFICES ASSUME g \in Hub, power[g] PROVE FALSE
        OBVIOUS
      <4>1. PICK t \in Socket : socket[t] = g /\ (t \in Root \/ (power[t[1]] /\ port[t].enabled))
        BY DEF WiringInv, PoweredReachable, Reachable
      <4>2. t = s
        BY <1>2, <2>3, <4>1 DEF WiringInv, PluggedOnce
      <4> QED BY <1>2, <2>3, <4>1, <4>2, SocketFacts
    <3> QED BY <2>3, <3>1, BelowUnpowered DEF Off
  <2>5. /\ \A x \in Port : x # s => done[x] = port[x]
        /\ done[s].enabled /\ ~done[s].reset /\ done[s].cReset
    BY <1>1, <1>2 DEF PortRegister
  <2> HIDE DEF done
  <2>6. /\ \A x \in Port : socket[x] # g /\ x[1] \notin off /\ socket[x] # NoGadget =>
             addr'[socket[x]] = addr[socket[x]]
        /\ \A x \in Gadget : addr'[x] # 0 => addr'[x] = addr[x]
        /\ \A x \in Hub : addr'[x] # 0 => x \notin off
        /\ \A x \in Hub : power'[x] = (power[x] /\ x \notin off)
        /\ \A x \in Port : port'[x] = IF x[1] \in off THEN Quiet ELSE done[x]
    <3>1. PoweredOff(g, done)
      BY <1>2, <1>3, <2>3, PowerlessAddr
    <3> QED BY <3>1 DEF PoweredOff
  <2> HIDE DEF off
  <2>7. ConfiguredPowered'
    BY <1>2, <2>1, <2>6, PoweredKept
  <2>8. /\ \A x \in Port : x[1] \notin off /\ x # s => port'[x] = port[x]
        /\ port'[s].enabled /\ ~port'[s].reset /\ port'[s].cReset
    BY <1>2, <2>4, <2>5, <2>6
  <2>9. QuietUnpowered'
    <3> SUFFICES ASSUME NEW x \in Port, ~power'[x[1]], x[1] \notin off PROVE port'[x] = Quiet
      BY <2>6 DEF QuietUnpowered
    <3>1. ~power[x[1]] /\ x # s
      BY <2>3, <2>6, SocketFacts
    <3> QED BY <2>1, <2>8, <3>1 DEF QuietUnpowered
  <2>10. PortBits'
    <3> SUFFICES ASSUME NEW x \in Port
                 PROVE  /\ port'[x].enabled \/ port'[x].reset => socket[x] # NoGadget
                        /\ ~(port'[x].enabled /\ port'[x].reset)
      BY <1>2 DEF PortBits
    <3>1. CASE x[1] \in off
      BY <2>6, <3>1 DEF Quiet
    <3>2. CASE x = s
      BY <2>3, <2>8, <3>2
    <3>3. CASE x[1] \notin off /\ x # s
      BY <2>1, <2>8, <3>3 DEF PortBits
    <3> QED BY <3>1, <3>2, <3>3
  <2>11. ASSUME NEW x \in Port, x \in Resetting' PROVE x = s
    <3>0. \/ port'[x].reset \/ port'[x].cReset
          \/ port'[x].enabled /\ socket[x] # NoGadget /\ addr'[socket[x]] = 0
      BY <1>2, <2>11 DEF Resetting
    <3>1. CASE x[1] \in off
      BY <2>6, <3>0, <3>1 DEF Quiet
    <3>2. CASE x[1] \notin off /\ x # s
      <4>1. socket[x] # g
        BY <1>2, <2>3, <3>2, SocketFacts DEF WiringInv, PluggedOnce
      <4>2. x \in Resetting
        BY <2>6, <2>8, <3>0, <3>2, <4>1 DEF Resetting
      <4> QED BY <2>1, <2>2, <4>2
    <3> QED BY <3>1, <3>2
  <2> QED BY <1>2, <2>2, <2>7, <2>8, <2>9, <2>10, <2>11, ResetPartsNext
<1> QED BY <1>4, <1>5

\* A device that was reset on a root port has no address, and no power if it is
\* a hub: the ports below it are quiet already.
LEMMA ResetResetBus ==
  ASSUME Inv, WiringInv, ResetInv, ResetBus
  PROVE  ResetInv'
<1> DEFINE t == <<pc.host, 0>>
           g == socket[t]
           off == Off(g)
<1>1. socket \in [Socket -> Gadget \cup {NoGadget}] /\ port \in [Port -> PortRegister]
  BY DEF Inv, TypeOK
<1>2. /\ UNCHANGED <<socket, devices, bResetInitiated, past>> /\ Goes("reset", "configuring")
      /\ pc.host \in Host /\ task[pc.host] = "reset"
  BY GoesFacts DEF ResetBus
<1>3. t \in Socket /\ t \notin Port
  BY <1>2, SocketFacts
<1> HIDE DEF t
<1>4. CASE g = NoGadget
  <2>1. UNCHANGED <<power, port, addr>>
    BY <1>4 DEF ResetBus, t
  <2> QED BY <1>2, <2>1, ResetKept
<1>5. CASE past.lapse
  BY <1>2, <1>5 DEF ResetInv
<1>6. CASE g # NoGadget /\ ~past.lapse
  <2>1. /\ ConfiguredPowered /\ QuietUnpowered /\ PortBits
        /\ \A x, y \in Resetting : x = y
        /\ Resetting # {} => bResetInitiated
        /\ bResetInitiated => \E s \in Port : port[s].reset \/ port[s].cReset
    BY <1>6, ResetParts
  <2>2. Powerless(off, {g}, port)
    BY <1>6 DEF ResetBus, Off, t
  <2>3. PoweredOff(g, port)
    BY <1>3, <1>6, <2>2, PowerlessAddr
  <2>4. g \in Hub => ~power[g]
    BY <1>2, <1>6 DEF WiringInv, RootFresh, PoweredReachable, t
  <2>5. \A x \in Port : x[1] \in off => port[x] = Quiet
    <3>1. \A x \in off : ~power[x]
      BY <2>4, BelowUnpowered DEF Off
    <3> QED BY <2>1, <3>1 DEF QuietUnpowered
  <2> HIDE DEF off
  <2>6. /\ \A x \in Port : socket[x] # g /\ x[1] \notin off /\ socket[x] # NoGadget =>
             addr'[socket[x]] = addr[socket[x]]
        /\ \A x \in Gadget : addr'[x] # 0 => addr'[x] = addr[x]
        /\ \A x \in Hub : addr'[x] # 0 => x \notin off
        /\ \A x \in Hub : power'[x] = (power[x] /\ x \notin off)
        /\ \A x \in Port : port'[x] = port[x]
    BY <2>3, <2>5 DEF PoweredOff, off
  <2>7. ConfiguredPowered'
    BY <1>2, <2>1, <2>6, PoweredKept
  <2>8. QuietUnpowered'
    <3> SUFFICES ASSUME NEW x \in Port, ~power'[x[1]] PROVE port[x] = Quiet
      BY <2>6 DEF QuietUnpowered
    <3>1. CASE x[1] \in off
      BY <2>5, <3>1
    <3>2. CASE x[1] \notin off
      <4>1. ~power[x[1]]
        BY <2>6, <3>2, SocketFacts
      <4> QED BY <2>1, <4>1 DEF QuietUnpowered
    <3> QED BY <3>1, <3>2
  <2>9. PortBits'
    BY <1>2, <2>1, <2>6 DEF PortBits
  <2>10. ASSUME NEW x \in Port, x \in Resetting' PROVE x \in Resetting
    <3>1. \/ port[x].reset \/ port[x].cReset
          \/ port[x].enabled /\ socket[x] # NoGadget /\ addr'[socket[x]] = 0
      BY <1>2, <2>6, <2>10 DEF Resetting
    <3>2. socket[x] # g
      BY <1>3, <1>6, SocketFacts DEF WiringInv, PluggedOnce
    <3>3. x[1] \notin off
      BY <2>5, <3>1 DEF Quiet
    <3> QED BY <2>6, <3>1, <3>2, <3>3 DEF Resetting
  <2> QED BY <1>2, <2>1, <2>6, <2>7, <2>8, <2>9, <2>10, ResetPartsNext
<1> QED BY <1>4, <1>5, <1>6

LEMMA ResetResetPort ==
  ASSUME Inv, EntriesInv, ResetInv, NEW p, NEW ok, ResetPort(p, ok)
  PROVE  ResetInv'
<1> DEFINE s == <<ThisHub, p>>
<1>1. s \in Port /\ s[1] \in Hub /\ s[1] = ThisHub /\ addr[ThisHub] = pc.slot /\ pc.slot \in Slot
      /\ devices[pc.slot].gadget = ThisHub
  BY PolledPort DEF ResetPort, ThisHub
<1>2. /\ UNCHANGED <<socket, power, addr, devices>> /\ bResetInitiated' = TRUE
      /\ past'.lapse = (past.lapse \/ ~ok) /\ ~bResetInitiated
      /\ socket[s] # NoGadget /\ ~port[s].enabled /\ ~port[s].cReset
  BY PastLapse DEF ResetPort, MayReset, ConnectEvent, Occupied, Register
<1>3. port' = [port EXCEPT ![s].cConnection = FALSE, ![s].reset = ok] /\ port \in [Port -> PortRegister]
  BY DEF ResetPort, Inv, TypeOK
<1> HIDE DEF s
<1>4. /\ \A x \in Port : x # s => port'[x] = port[x]
      /\ port'[s].enabled = port[s].enabled /\ port'[s].reset = ok /\ port'[s].cReset = port[s].cReset
  BY <1>1, <1>3 DEF PortRegister
<1>5. CASE past.lapse \/ ~ok
  BY <1>2, <1>5 DEF ResetInv
<1>6. CASE ~past.lapse /\ ok
  <2>1. ConfiguredPowered /\ QuietUnpowered /\ PortBits /\ Resetting = {}
    BY <1>2, <1>6, ResetParts
  <2>2. power[s[1]]
    BY <1>1, <2>1 DEF ConfiguredPowered
  <2>3. ConfiguredPowered' /\ QuietUnpowered'
    BY <1>2, <1>4, <2>1, <2>2 DEF ConfiguredPowered, QuietUnpowered
  <2>4. PortBits'
    <3> SUFFICES ASSUME NEW x \in Port
                 PROVE  /\ port'[x].enabled \/ port'[x].reset => socket[x] # NoGadget
                        /\ ~(port'[x].enabled /\ port'[x].reset)
      BY <1>2 DEF PortBits
    <3> QED BY <1>2, <1>4, <2>1 DEF PortBits
  <2>5. ASSUME NEW x \in Port, x \in Resetting' PROVE x = s
    BY <1>2, <1>4, <2>1, <2>5 DEF Resetting
  <2>6. port'[s].reset
    BY <1>4, <1>6
  <2> QED BY <1>1, <1>2, <2>3, <2>4, <2>5, <2>6, ResetPartsNext
<1> QED BY <1>5, <1>6 DEF ResetPort

LEMMA ResetPortEmptied ==
  ASSUME Inv, EntriesInv, ResetInv, NEW p, PortEmptied(p)
  PROVE  ResetInv'
<1> DEFINE s == <<ThisHub, p>>
<1>1. s \in Port /\ s[1] \in Hub /\ s[1] = ThisHub /\ addr[ThisHub] = pc.slot /\ pc.slot \in Slot
      /\ devices[pc.slot].gadget = ThisHub
  BY PolledPort DEF PortEmptied, ThisHub
<1>2. /\ UNCHANGED <<socket, power, addr, devices>> /\ bResetInitiated' = FALSE
      /\ past'.lapse = (past.lapse \/ bResetInitiated)
  BY PastLapse DEF PortEmptied, ResetOver
<1>3. port' = [port EXCEPT ![s].cConnection = FALSE] /\ port \in [Port -> PortRegister]
  BY DEF PortEmptied, Inv, TypeOK
<1> HIDE DEF s
<1>4. /\ \A x \in Port : x # s => port'[x] = port[x]
      /\ port'[s].enabled = port[s].enabled /\ port'[s].reset = port[s].reset
      /\ port'[s].cReset = port[s].cReset
  BY <1>1, <1>3 DEF PortRegister
<1>5. CASE past.lapse \/ bResetInitiated
  BY <1>2, <1>5 DEF ResetInv
<1>6. CASE ~past.lapse /\ ~bResetInitiated
  <2>1. ConfiguredPowered /\ QuietUnpowered /\ PortBits /\ Resetting = {}
    BY <1>6, ResetParts
  <2>2. power[s[1]]
    BY <1>1, <2>1 DEF ConfiguredPowered
  <2>3. ConfiguredPowered' /\ QuietUnpowered'
    BY <1>2, <1>4, <2>1, <2>2 DEF ConfiguredPowered, QuietUnpowered
  <2>4. PortBits'
    <3> SUFFICES ASSUME NEW x \in Port
                 PROVE  /\ port'[x].enabled \/ port'[x].reset => socket[x] # NoGadget
                        /\ ~(port'[x].enabled /\ port'[x].reset)
      BY <1>2 DEF PortBits
    <3> QED BY <1>4, <2>1 DEF PortBits
  <2>5. ASSUME NEW x \in Port PROVE x \notin Resetting'
    BY <1>2, <1>4, <2>1 DEF Resetting
  <2> QED BY <1>2, <2>3, <2>4, <2>5, ResetPartsNext
<1> QED BY <1>5, <1>6

\* Who takes an address: the hubs that keep or get power are the configured ones.
LEMMA ConfigurePowered ==
  ASSUME Inv, WiringInv, ConfiguredPowered, NEW h \in Host, NEW i, NEW g, NEW parent, NEW p, NEW ports,
         Taken(i, g, h, parent, p), Accepted(i, g, parent, ports)
  PROVE  /\ ConfiguredPowered'
         /\ \A x \in Gadget : addr'[x] = 0 => addr[x] = 0
         /\ addr'[g] = i /\ i # 0 /\ addr[g] = 0 /\ (g \in Hub => ~power[g])
         /\ \A x \in Hub : power[x] => power'[x]
         /\ g \in Hub => power'[g]
<1>1. /\ i \in Slot /\ i # 0 /\ g \in Gadget /\ g \in Answering(h, 0)
      /\ \A x \in Answering(h, 0) : x \in Gadget /\ addr[x] = 0 /\ addr'[x] = i /\ (x \in Hub => ~power[x])
      /\ \A x \in Gadget : x \notin Answering(h, 0) => addr'[x] = addr[x]
  BY TakenFacts DEF Taken
<1>2. /\ \A x \in Hub : power[x] => power'[x]
      /\ g \in Hub => power'[g]
  BY DEF Accepted
<1>3. (\A j \in Slot : j # i => devices'[j] = devices[j]) /\ devices'[i].gadget = g
  BY DEF Taken
<1>4. ASSUME NEW j \in Slot, NEW x \in Hub, devices'[j].gadget = x, addr'[x] = j PROVE power'[x]
  <2>1. CASE j = i
    BY <1>2, <1>3, <1>4, <2>1
  <2>2. CASE j # i
    <3>1. addr[x] = j /\ devices[j].gadget = x
      BY <1>1, <1>3, <1>4, <2>2, SocketFacts
    <3>2. power[x]
      BY <3>1 DEF ConfiguredPowered
    <3> QED BY <1>2, <3>2
  <2> QED BY <2>1, <2>2
<1>5. ConfiguredPowered'
  BY <1>4 DEF ConfiguredPowered
<1> QED BY <1>1, <1>2, <1>5

LEMMA ResetPortReset ==
  ASSUME Inv, WiringInv, EntriesInv, ResetInv, NEW p \in Nat, NEW outcome, NEW n \in 0 .. MAX_IFACES,
         PortReset(p, outcome, n)
  PROVE  ResetInv'
<1> DEFINE s == <<ThisHub, p>>
           g == socket[s]
           ports == [port EXCEPT ![s].cReset = FALSE]
<1>1. /\ PortStatus(p) /\ ResetEvent(p) /\ bResetInitiated' = FALSE
      /\ pc.slot \in 0 .. USB_NUMDEVICES /\ pc.host \in Host
      /\ Configure(pc.host, ThisHub, pc.slot, p, ports, outcome, n)
  BY PortResetFacts
<1>2. s \in Port /\ s[1] \in Hub /\ s[1] = ThisHub /\ addr[ThisHub] = pc.slot /\ pc.slot \in Slot
      /\ devices[pc.slot].gadget = ThisHub /\ pc.slot # 0
  BY <1>1, PolledPort DEF ThisHub
<1>3. g # NoGadget /\ port[s].enabled /\ port[s].cReset
  BY <1>1 DEF ResetEvent, Occupied, Register
<1>4. port \in [Port -> PortRegister]
  BY DEF Inv, TypeOK
<1>5. socket' = socket /\ (Failed(ports) \/
        \E i \in Slot : /\ Taken(i, g, pc.host, pc.slot, p)
                        /\ Refused(i, ports) \/ Accepted(i, g, pc.slot, ports))
  BY <1>1, ConfigureCases
<1>6. /\ \A x \in Port : x # s => ports[x] = port[x]
      /\ ports[s].enabled = port[s].enabled /\ ports[s].reset = port[s].reset /\ ~ports[s].cReset
  BY <1>2, <1>4 DEF PortRegister
<1> HIDE DEF s, g, ports
<1>7. CASE past'.lapse
  BY <1>7 DEF ResetInv
<1>8. CASE ~past'.lapse
  <2>1. PICK i \in Slot : Taken(i, g, pc.host, pc.slot, p) /\ Accepted(i, g, pc.slot, ports)
    BY <1>5, <1>8 DEF Failed, Refused
  <2>2. ~past.lapse
    BY <1>8, <2>1 DEF Accepted
  <2>3. /\ ConfiguredPowered /\ QuietUnpowered /\ PortBits
        /\ \A x, t \in Resetting : x = t
    BY <2>2, ResetParts
  <2>4. /\ ConfiguredPowered'
        /\ \A x \in Gadget : addr'[x] = 0 => addr[x] = 0
        /\ addr'[g] = i /\ i # 0 /\ addr[g] = 0 /\ (g \in Hub => ~power[g])
        /\ \A x \in Hub : power[x] => power'[x]
        /\ g \in Hub => power'[g]
    BY <1>1, <2>1, <2>3, ConfigurePowered
  <2>5. power[s[1]] /\ s[1] # g
    BY <1>2, <2>3, <2>4 DEF ConfiguredPowered
  <2>6. \A x \in Port : port'[x] = IF x[1] = g THEN [Quiet EXCEPT !.cConnection = socket[x] # NoGadget]
                                   ELSE ports[x]
    BY <2>1 DEF Accepted
  <2>7. s \in Resetting /\ ~port[s].reset
    BY <1>2, <1>3, <2>3 DEF Resetting, PortBits
  <2>8. QuietUnpowered'
    <3> SUFFICES ASSUME NEW x \in Port, ~power'[x[1]] PROVE port'[x] = Quiet
      BY DEF QuietUnpowered
    <3>1. x[1] # g /\ ~power[x[1]] /\ x # s
      BY <2>4, <2>5, SocketFacts
    <3> QED BY <1>6, <2>3, <2>6, <3>1 DEF QuietUnpowered
  <2>9. ASSUME NEW x \in Port, x[1] = g
        PROVE  ~port'[x].enabled /\ ~port'[x].reset /\ ~port'[x].cReset
    BY <2>6, <2>9 DEF Quiet
  <2>10. ASSUME NEW x \in Port, x[1] # g PROVE port'[x] = ports[x]
    BY <2>6, <2>10
  <2>11. PortBits'
    <3> SUFFICES ASSUME NEW x \in Port
                 PROVE  /\ port'[x].enabled \/ port'[x].reset => socket[x] # NoGadget
                        /\ ~(port'[x].enabled /\ port'[x].reset)
      BY <1>5 DEF PortBits
    <3>1. CASE x[1] = g
      BY <2>9, <3>1
    <3>2. CASE x[1] # g /\ x = s
      BY <1>3, <1>6, <2>7, <2>10, <3>2 DEF g
    <3>3. CASE x[1] # g /\ x # s
      BY <1>6, <2>3, <2>10, <3>3 DEF PortBits
    <3> QED BY <3>1, <3>2, <3>3
  <2>12. ASSUME NEW x \in Port, x \in Resetting' PROVE FALSE
    <3>1. \/ port'[x].reset \/ port'[x].cReset
          \/ port'[x].enabled /\ socket[x] # NoGadget /\ addr'[socket[x]] = 0
      BY <1>5, <2>12 DEF Resetting
    <3>2. CASE x[1] = g
      BY <2>9, <3>1, <3>2
    <3>3. CASE x[1] # g /\ x = s
      BY <1>6, <2>4, <2>7, <2>10, <3>1, <3>3 DEF g
    <3>4. CASE x[1] # g /\ x # s
      <4>1. port'[x] = port[x]
        BY <1>6, <2>10, <3>4
      <4>2. socket[x] # NoGadget => socket[x] \in Gadget
        BY SocketFacts DEF Inv, TypeOK
      <4>3. x \in Resetting
        BY <2>4, <3>1, <4>1, <4>2 DEF Resetting
      <4> QED BY <2>3, <2>7, <3>4, <4>3
    <3> QED BY <3>2, <3>3, <3>4
  <2> QED BY <1>1, <2>4, <2>8, <2>11, <2>12, ResetPartsNext
<1> QED BY <1>7, <1>8

LEMMA ResetConfiguring ==
  ASSUME Inv, WiringInv, ResetInv, NEW outcome, NEW n \in 0 .. MAX_IFACES, Configuring(outcome, n)
  PROVE  ResetInv'
<1> DEFINE g == socket[<<pc.host, 0>>]
<1>1. /\ pc.host \in Host /\ bResetInitiated' = bResetInitiated /\ 0 \in 0 .. USB_NUMDEVICES /\ 0 \in Nat
      /\ Configure(pc.host, pc.host, 0, 0, port, outcome, n)
  BY ConfiguringFacts
<1>2. socket' = socket /\ (Failed(port) \/
        \E i \in Slot : Taken(i, g, pc.host, 0, 0) /\ (Refused(i, port) \/ Accepted(i, g, 0, port)))
  BY <1>1, ConfigureCases
<1> HIDE DEF g
<1>3. CASE past'.lapse
  BY <1>3 DEF ResetInv
<1>4. CASE ~past'.lapse
  <2>1. PICK i \in Slot : Taken(i, g, pc.host, 0, 0) /\ Accepted(i, g, 0, port)
    BY <1>2, <1>4 DEF Failed, Refused
  <2>2. ~past.lapse
    BY <1>4, <2>1 DEF Accepted
  <2>3. /\ ConfiguredPowered /\ QuietUnpowered /\ PortBits
        /\ \A x, t \in Resetting : x = t
        /\ Resetting # {} => bResetInitiated
        /\ bResetInitiated => \E s \in Port : port[s].reset \/ port[s].cReset
    BY <2>2, ResetParts
  <2>4. /\ ConfiguredPowered'
        /\ \A x \in Gadget : addr'[x] = 0 => addr[x] = 0
        /\ addr'[g] = i /\ i # 0 /\ addr[g] = 0 /\ (g \in Hub => ~power[g])
        /\ \A x \in Hub : power[x] => power'[x]
        /\ g \in Hub => power'[g]
    BY <1>1, <2>1, <2>3, ConfigurePowered
  <2>5. /\ \A x \in Port : x[1] # g => port'[x] = port[x]
        /\ \A x \in Port : x[1] = g => port'[x] = [Quiet EXCEPT !.cConnection = socket[x] # NoGadget]
    BY <2>1 DEF Accepted
  <2>6. \A x \in Port : x[1] = g => port[x] = Quiet
    BY <2>3, <2>4, SocketFacts DEF QuietUnpowered
  <2>7. ASSUME NEW x \in Port, x[1] = g
        PROVE  ~port'[x].enabled /\ ~port'[x].reset /\ ~port'[x].cReset
    BY <2>5, <2>7 DEF Quiet
  <2>8. QuietUnpowered'
    <3> SUFFICES ASSUME NEW x \in Port, ~power'[x[1]] PROVE port'[x] = Quiet
      BY DEF QuietUnpowered
    <3>1. x[1] # g /\ ~power[x[1]]
      BY <2>4, SocketFacts
    <3> QED BY <2>3, <2>5, <3>1 DEF QuietUnpowered
  <2>9. PortBits'
    <3> SUFFICES ASSUME NEW x \in Port
                 PROVE  /\ port'[x].enabled \/ port'[x].reset => socket[x] # NoGadget
                        /\ ~(port'[x].enabled /\ port'[x].reset)
      BY <1>2 DEF PortBits
    <3> QED BY <2>3, <2>5, <2>7 DEF PortBits
  <2>10. ASSUME NEW x \in Port, x \in Resetting' PROVE x \in Resetting
    <3>1. \/ port'[x].reset \/ port'[x].cReset
          \/ port'[x].enabled /\ socket[x] # NoGadget /\ addr'[socket[x]] = 0
      BY <1>2, <2>10 DEF Resetting
    <3>2. x[1] # g
      BY <2>7, <3>1
    <3>3. socket[x] # NoGadget => socket[x] \in Gadget
      BY SocketFacts DEF Inv, TypeOK
    <3> QED BY <2>4, <2>5, <3>1, <3>2, <3>3 DEF Resetting
  <2>11. bResetInitiated' => \E x \in Port : port'[x].reset \/ port'[x].cReset
    <3> SUFFICES ASSUME bResetInitiated' PROVE \E x \in Port : port'[x].reset \/ port'[x].cReset
      OBVIOUS
    <3>1. PICK x \in Port : port[x].reset \/ port[x].cReset
      BY <1>1, <2>3
    <3>2. x[1] # g
      BY <2>6, <3>1 DEF Quiet
    <3> QED BY <2>5, <3>1, <3>2
  <2> QED BY <1>1, <2>3, <2>4, <2>8, <2>9, <2>10, <2>11, ResetPartsNext
<1> QED BY <1>3, <1>4

-----------------------------------------------------------------------------
(* One entry for a port, after a step.                                      *)

UniqueEntry ==
  \A i, j \in Slot :
    /\ Live(i) /\ Live(j) /\ devices[i].host = devices[j].host
    /\ devices[i].parent = devices[j].parent /\ devices[i].port = devices[j].port
    => i = j

\* Entry e stands for socket s, of the hub of entry k.
Placed(e, k, s) ==
  /\ Live(e) /\ k = devices[e].parent /\ k # 0 /\ LiveHub(k, devices[e].host)
  /\ s = <<devices[k].gadget, devices[e].port>> /\ s \in Port
  /\ s[1] = devices[k].gadget /\ s[1] \in Hub /\ s[1] \in Gadget /\ addr[s[1]] = k
  /\ Shows(e, k, s)

LEMMA ListParts ==
  ASSUME ListInv, Seen
  PROVE  NoStray /\ UniqueEntry /\ EntryDevice
BY DEF ListInv, Seen, OneEntryPerPort, UniqueEntry, Live

LEMMA ListPartsNext ==
  ASSUME Seen' => NoStray' /\ UniqueEntry' /\ EntryDevice'
  PROVE  ListInv'
BY DEF ListInv, Seen, OneEntryPerPort, UniqueEntry, Live

LEMMA PlacedEntry ==
  ASSUME Inv, EntriesInv, EntryDevice, NEW e \in Slot, NEW k, k = devices[e].parent,
         Live(e), k # 0, ~Clearing(devices[e].host), addr[devices[k].gadget] = k
  PROVE  Placed(e, k, <<devices[k].gadget, devices[e].port>>)
<1>1. LiveHub(k, devices[e].host)
  BY DEF EntriesInv, HubsKept
<1>2. devices[k].gadget \in Hub
  BY <1>1 DEF LiveHub, EntriesInv, HubsAreHubs
<1>3. <<devices[k].gadget, devices[e].port>> \in Port /\ Shows(e, k, <<devices[k].gadget, devices[e].port>>)
  BY DEF EntryDevice
<1> QED BY <1>1, <1>2, <1>3, SocketFacts DEF Placed

SamePlace(i) ==
  LET d == devices[i]
      e == devices'[i]
  IN  /\ (e.used => d.used) /\ e.host = d.host /\ e.parent = d.parent /\ e.port = d.port
      /\ e.class = d.class /\ e.gadget = d.gadget

\* Entries that are left go on showing what is at their sockets.
LEMMA ListShrinks ==
  ASSUME Inv, EntriesInv, ListInv, Seen' => Seen,
         \A i \in Slot : SamePlace(i),
         \A i \in Slot, h \in Host : Live(i) /\ devices[i].host = h /\ ~Clearing(h)' => ~Clearing(h),
         \A x \in Gadget : addr'[x] # 0 => addr'[x] = addr[x],
         Seen' => \A e, k \in Slot : \A s \in Port :
                    Placed(e, k, s) /\ Live(e)' /\ addr'[s[1]] = k => Shows(e, k, s)'
  PROVE  ListInv'
<1> SUFFICES ASSUME Seen' PROVE NoStray' /\ UniqueEntry' /\ EntryDevice'
  BY ListPartsNext
<1>1. NoStray /\ UniqueEntry /\ EntryDevice
  BY ListParts
<1>2. \A i \in Slot : Live(i)' => Live(i)
  BY DEF Live, SamePlace
<1>3. NoStray'
  BY <1>1 DEF NoStray, Live, SamePlace
<1>4. UniqueEntry'
  BY <1>1, <1>2 DEF UniqueEntry, SamePlace
<1>5. EntryDevice'
  <2> SUFFICES ASSUME NEW e \in Slot, NEW k, k = devices'[e].parent,
                      NEW s, s = <<devices'[k].gadget, devices'[e].port>>,
                      NEW h, h = devices'[e].host,
                      Live(e)', k # 0, ~Clearing(h)', addr'[devices'[k].gadget] = k
               PROVE  s \in Port /\ Shows(e, k, s)'
    BY DEF EntryDevice, Shows, Clearing, Live
  <2>1. Live(e) /\ k = devices[e].parent /\ h = devices[e].host /\ h \in Host /\ ~Clearing(h)
    BY <1>2, EntryType DEF SamePlace
  <2>2. k \in Slot /\ LiveHub(k, h)
    BY <2>1 DEF EntriesInv, HubsKept, LiveHub
  <2>3. devices'[k].gadget = devices[k].gadget /\ devices'[e].port = devices[e].port
        /\ devices[k].gadget \in Gadget
    BY <2>2, SocketFacts DEF SamePlace, LiveHub, EntriesInv, HubsAreHubs
  <2>4. addr[devices[k].gadget] = k
    BY <2>3
  <2>5. Placed(e, k, s)
    BY <1>1, <2>1, <2>3, <2>4, PlacedEntry
  <2>6. s \in Port /\ addr'[s[1]] = k
    BY <2>3, <2>5 DEF Placed
  <2> QED BY <2>2, <2>5, <2>6
<1> QED BY <1>3, <1>4, <1>5

\* The wiring is as it was; the entry that is just released stays so.
LEMMA ListMoved ==
  ASSUME Inv, EntriesInv, ListInv, Seen' => Seen, UNCHANGED <<socket, port, addr>>,
         \A i \in Slot : SamePlace(i),
         \A i \in Slot, h \in Host : Live(i) /\ devices[i].host = h /\ ~Clearing(h)' => ~Clearing(h),
         \A e \in Slot : pc.at = "release" /\ pc.stack[Len(pc.stack)] = e /\ Live(e)' =>
           pc'.at = "release" /\ pc'.slot = pc.slot /\ pc'.stack[Len(pc'.stack)] = e
  PROVE  ListInv'
<1>1. ASSUME NEW e \in Slot, NEW k \in Slot, NEW s \in Port, Placed(e, k, s), Live(e)'
      PROVE  Shows(e, k, s)'
  <2>1. Shows(e, k, s) /\ devices'[e].gadget = devices[e].gadget
    BY <1>1 DEF Placed, SamePlace
  <2> QED BY <1>1, <2>1 DEF Shows
<1> QED BY <1>1, ListShrinks

SeenKept == past'.lapse = past.lapse /\ past'.swapped = past.swapped /\ past'.stray = past.stray

LEMMA SeenFacts ==
  ASSUME Inv
  PROVE  /\ SeenKept => (Seen' <=> Seen)
         /\ past' = past => SeenKept
         /\ \A b : past' = [past EXCEPT !.moved = b] => SeenKept
         /\ \A b \in BOOLEAN : past' = [past EXCEPT !.plugs = @ + 1, !.lapse = @ \/ b] =>
              (Seen' => Seen /\ ~b)
         /\ \A b \in BOOLEAN : past' = [past EXCEPT !.lapse = @ \/ b] => (Seen' => Seen /\ ~b)
         /\ \A b \in BOOLEAN : past' = [past EXCEPT !.plugs = @ + 1, !.swapped = @ \/ b] =>
              (Seen' => Seen /\ ~b)
BY DEF Inv, TypeOK, SeenKept, Seen

LEMMA SamePlaces ==
  ASSUME \A i \in Slot : SameEntry(i)
  PROVE  \A i \in Slot : SamePlace(i)
BY DEF SameEntry, SamePlace

LEMMA ListKept ==
  ASSUME Inv, EntriesInv, ListInv, SeenKept, UNCHANGED <<socket, port, addr, pc, task>>,
         \A i \in Slot : SameEntry(i)
  PROVE  ListInv'
BY SamePlaces, SeenFacts, ListMoved DEF Clearing

\* usb_poll goes on, and no bus with entries is cleared.
LEMMA ListGoesOn ==
  ASSUME Inv, EntriesInv, ListInv, UNCHANGED <<socket, port, addr, devices, past>>,
         NoneCleared, pc.at # "release"
  PROVE  ListInv'
<1>1. \A i \in Slot : SameEntry(i)
  BY DEF SameEntry
<1>2. Seen' => Seen
  BY SeenFacts
<1>3. \A i \in Slot, h \in Host : Live(i) /\ devices[i].host = h /\ ~Clearing(h)' => ~Clearing(h)
  BY DEF NoneCleared
<1> QED BY <1>1, <1>2, <1>3, SamePlaces, ListMoved

LEMMA ListUsbPoll == ASSUME Inv, EntriesInv, ListInv, UsbPoll PROVE ListInv'
<1>1. pc.at = "idle" /\ UNCHANGED <<socket, port, addr, devices, past>>
  BY DEF UsbPoll, wiring
<1>2. NoneCleared
  BY <1>1 DEF NoneCleared, Clearing
<1> QED BY <1>1, <1>2, ListGoesOn

LEMMA ListPollHub ==
  ASSUME Inv, WiringInv, EntriesInv, ListInv, NEW i \in Slot, PollHub(i)
  PROVE  ListInv'
<1>1. pc.at = "devices" /\ Answers(i) /\ UNCHANGED <<socket, port, addr, devices, past>>
  BY DEF PollHub, wiring
<1>2. task[pc.host] = "running"
  <2>1. i # 0 /\ pc.host \in Host
    BY UsbAssumption DEF Slot, Inv, PcInv
  <2> QED BY <1>1, <2>1, NoneAnswers DEF Answers
<1>3. NoneCleared
  BY <1>2 DEF NoneCleared, Clearing
<1> QED BY <1>1, <1>3, ListGoesOn

LEMMA ListLoopEnds == ASSUME Inv, EntriesInv, ListInv, LoopEnds PROVE ListInv'
<1>1. Polling /\ pc.at # "release" /\ UNCHANGED <<socket, port, addr, devices, past>>
  BY DEF LoopEnds, wiring, Polling
<1> QED BY <1>1, PollFacts, ListGoesOn

LEMMA ListGo == ASSUME Inv, EntriesInv, ListInv, TaskIdle \/ Settled PROVE ListInv'
<1>1. UNCHANGED <<socket, port, addr, devices, past>>
  BY DEF TaskIdle, Settled, wiring
<1>2. PICK from, to : Goes(from, to) /\ from # "initialize" /\ (from = "running" => to = "running")
  BY DEF TaskIdle, Settled
<1>3. NoneCleared /\ pc.at = "devices"
  BY <1>2, GoesOn, GoesFacts
<1> QED BY <1>1, <1>3, ListGoesOn

LEMMA ListReleaseKid == ASSUME Inv, EntriesInv, ListInv, ReleaseKid PROVE ListInv'
<1> DEFINE next == Min(Match(Top, devices[Min(Kids)].port))
           n == Len(pc.stack)
<1>1. /\ pc.at = "release" /\ Polling
      /\ UNCHANGED <<socket, port, addr, devices, task, past>>
  BY DEF ReleaseKid, Polling, wiring
<1>2. pc' = [pc EXCEPT !.stack = <<next>> \o pc.stack]
  BY DEF ReleaseKid, Inv, PcInv
<1> HIDE DEF next
<1>3. pc.stack \in Seq(Slot) /\ n \in Nat /\ n >= 1
  BY <1>1, StackType
<1>4. pc'.at = "release" /\ pc'.slot = pc.slot /\ pc'.host = pc.host /\ pc'.stack = <<next>> \o pc.stack
  BY <1>1, <1>2 DEF Inv, PcInv
<1>5. pc'.stack[Len(pc'.stack)] = pc.stack[n]
  <2>1. <<next>> \in Seq({next} \cup Slot) /\ pc.stack \in Seq({next} \cup Slot) /\ Len(<<next>>) = 1
    BY <1>3
  <2> QED BY <1>3, <1>4, <2>1
<1>6. \A i \in Slot : SameEntry(i)
  BY <1>1 DEF SameEntry
<1>7. Seen' => Seen
  BY <1>1, SeenFacts
<1>8. \A h : ~Clearing(h)
  BY <1>1 DEF Clearing
<1> QED BY <1>1, <1>4, <1>5, <1>6, <1>7, <1>8, SamePlaces, ListMoved

\* An entry that is not the last of the stack is given up.
LEMMA ListRemoved ==
  ASSUME Inv, EntriesInv, ListInv, NEW m \in Slot, devices' = [devices EXCEPT ![m].used = FALSE],
         UNCHANGED <<socket, port, addr, task, past>>,
         \A h \in Host : Clearing(h)' <=> Clearing(h),
         \A e \in Slot : pc.at = "release" /\ pc.stack[Len(pc.stack)] = e /\ e # m =>
           pc'.at = "release" /\ pc'.slot = pc.slot /\ pc'.stack[Len(pc'.stack)] = e
  PROVE  ListInv'
<1>1. \A i \in Slot : SamePlace(i)
  BY FreedEntry DEF SamePlace, SameEntry
<1>2. ~Live(m)'
  BY FreedEntry DEF Live
<1> QED BY <1>1, <1>2, SeenFacts, ListMoved

LEMMA ListReleaseDevice == ASSUME Inv, EntriesInv, ListInv, ReleaseDevice PROVE ListInv'
<1> DEFINE n == Len(pc.stack)
<1>1. pc.at = "release"
  BY DEF ReleaseDevice
<1>2. pc.stack \in Seq(Slot) /\ pc.stack # <<>> /\ n \in Nat /\ n >= 1 /\ Top = pc.stack[1] /\ Top \in Slot
  BY <1>1, StackType, TailOfStack DEF Inv, PcInv
<1>3. CASE ReleaseStick(Top)
  <2>1. UNCHANGED <<socket, port, addr, pc, task, past>>
    BY <1>3 DEF ReleaseStick, wiring
  <2> QED BY <1>2, <1>3, <2>1, SeenFacts, ReleaseStickEntries, ListKept
<1>4. CASE /\ devices' = [devices EXCEPT ![Top].used = FALSE]
           /\ pc' = IF Len(pc.stack) = 1 THEN [pc EXCEPT !.at = "changed", !.stack = <<>>]
                    ELSE [pc EXCEPT !.stack = Tail(@)]
           /\ UNCHANGED <<wiring, task, past>>
  <2>1. pc'.at \in {"changed", "release"} /\ pc'.slot = pc.slot
        /\ (n # 1 => pc'.at = "release" /\ pc'.stack = Tail(pc.stack))
    BY <1>1, <1>4 DEF Inv, PcInv
  <2>2. \A h \in Host : Clearing(h)' <=> Clearing(h)
    BY <1>1, <2>1 DEF Clearing
  <2>3. n # 1 => pc'.stack[Len(pc'.stack)] = pc.stack[n]
    <3>1. Len(Tail(pc.stack)) = n - 1
      BY <1>2, TailOfStack
    <3> SUFFICES ASSUME n # 1 PROVE pc'.stack[Len(pc'.stack)] = pc.stack[n]
      OBVIOUS
    <3> DEFINE j == n - 1
    <3>2. j \in 1 .. n - 1 /\ j + 1 = n /\ n - 1 = j
      <4>1. n \in Nat /\ n >= 1
        BY <1>2
      <4> HIDE DEF n
      <4> QED BY <4>1
    <3> HIDE DEF j
    <3>3. Tail(pc.stack)[j] = pc.stack[j + 1]
      BY <1>2, <3>2
    <3>4. pc'.stack = Tail(pc.stack) /\ Len(pc'.stack) = j
      BY <2>1, <3>1, <3>2
    <3> QED BY <3>2, <3>3, <3>4
  <2>4. \A e \in Slot : pc.stack[n] = e /\ e # Top => n # 1
    BY <1>2
  <2> QED BY <1>2, <1>4, <2>1, <2>2, <2>3, <2>4, ListRemoved DEF wiring
<1> QED BY <1>3, <1>4 DEF ReleaseDevice

LEMMA ListInitialize == ASSUME Inv, EntriesInv, ListInv, Initialize PROVE ListInv'
<1> DEFINE m == Min(Doomed)
<1>1. Doomed # {} => m \in Slot
  <2>1. Doomed \in SUBSET Slot
    BY DEF Doomed
  <2> QED BY <2>1, FirstSlot
<1> HIDE DEF m
<1>2. CASE Doomed # {} /\ ReleaseStick(m)
  <2>1. UNCHANGED <<socket, port, addr, pc, task, past>>
    BY <1>2 DEF ReleaseStick, wiring
  <2> QED BY <1>1, <1>2, <2>1, SeenFacts, ReleaseStickEntries, ListKept
<1>3. CASE /\ Doomed # {} /\ AllPolled
           /\ devices' = [devices EXCEPT ![m].used = FALSE]
           /\ UNCHANGED <<wiring, task, pc, past>>
  <2>1. \A h \in Host : Clearing(h)' <=> Clearing(h)
    BY <1>3 DEF Clearing
  <2>2. UNCHANGED <<socket, port, addr, task, past>> /\ pc.at # "release"
    BY <1>3 DEF wiring, AllPolled
  <2> QED BY <1>1, <1>3, <2>1, <2>2, ListRemoved
<1>4. CASE Doomed = {} /\ Goes("initialize", "wait") /\ UNCHANGED <<wiring, devices, past>>
  <2>1. NoneCleared
    BY <1>4 DEF Doomed, NoneCleared, Clearing, Live
  <2>2. pc.at # "release" /\ UNCHANGED <<socket, port, addr, devices, past>>
    BY <1>4, GoesFacts DEF wiring
  <2> QED BY <2>1, <2>2, ListGoesOn
<1> QED BY <1>2, <1>3, <1>4 DEF Initialize, m

\* An entry on whose socket a device has just come or gone, and one elsewhere.
LEMMA ListResetPort ==
  ASSUME Inv, EntriesInv, ListInv, NEW p, NEW ok \in BOOLEAN, ResetPort(p, ok)
  PROVE  ListInv'
<1> DEFINE s == <<ThisHub, p>>
<1>1. s \in Port /\ Polling /\ pc.at # "release"
  BY PolledPort DEF ResetPort, PortStatus
<1>2. /\ UNCHANGED <<socket, addr, devices>> /\ socket[s] # NoGadget /\ ~port[s].enabled
  BY DEF ResetPort, ConnectEvent, Occupied, Register
<1>3. Seen' => Seen
  <2> DEFINE b == ~ok
  <2>1. past' = [past EXCEPT !.lapse = @ \/ b]
    BY DEF ResetPort
  <2>2. b \in BOOLEAN
    OBVIOUS
  <2> HIDE DEF b
  <2> QED BY <2>1, <2>2, SeenFacts
<1>4. port' = [port EXCEPT ![s].cConnection = FALSE, ![s].reset = ok] /\ port \in [Port -> PortRegister]
  BY DEF ResetPort, Inv, TypeOK
<1> HIDE DEF s
<1>5. \A x \in Port : x # s => port'[x] = port[x]
  BY <1>1, <1>4 DEF PortRegister
<1>6. \A i \in Slot : SameEntry(i)
  BY <1>2 DEF SameEntry
<1>7. ASSUME NEW e \in Slot, NEW k \in Slot, NEW x \in Port, Placed(e, k, x) PROVE Shows(e, k, x)'
  <2>1. Shows(e, k, x)
    BY <1>7 DEF Placed
  <2>2. x # s
    BY <1>1, <1>2, <2>1 DEF Shows
  <2> QED BY <1>1, <1>2, <1>5, <2>1, <2>2 DEF Shows
<1>8. \A h : ~Clearing(h)
  BY <1>1 DEF Clearing, Polling
<1> QED BY <1>2, <1>3, <1>6, <1>7, <1>8, SamePlaces, ListShrinks

\* The entry of a port that is found empty is the only one, and so the one that
\* is released.
LEMMA ListPortEmptied ==
  ASSUME Inv, EntriesInv, ListInv, NEW p, PortEmptied(p)
  PROVE  ListInv'
<1> DEFINE s == <<ThisHub, p>>
           gone == Match(pc.slot, p)
           first == Min(gone)
<1>1. s \in Port /\ Polling /\ pc.at # "release" /\ addr[ThisHub] = pc.slot /\ pc.slot # 0
      /\ s = <<ThisHub, p>> /\ s[1] = ThisHub
  BY PolledPort DEF PortEmptied, PortStatus
<1>2. UNCHANGED <<socket, addr, devices>>
  BY DEF PortEmptied
<1>3. Seen' => Seen
  <2>1. past' = [past EXCEPT !.lapse = @ \/ bResetInitiated] /\ bResetInitiated \in BOOLEAN
    BY DEF PortEmptied, Inv, TypeOK
  <2> QED BY <2>1, SeenFacts
<1>4. port' = [port EXCEPT ![s].cConnection = FALSE] /\ port \in [Port -> PortRegister]
  BY DEF PortEmptied, Inv, TypeOK
<1>5. gone # {} => /\ first \in gone
                   /\ pc'.at = "release" /\ pc'.slot = pc.slot /\ pc'.stack = <<first>>
  <2> SUFFICES ASSUME gone # {} PROVE first \in gone
                   /\ pc'.at = "release" /\ pc'.slot = pc.slot /\ pc'.stack = <<first>>
    OBVIOUS
  <2>1. first \in gone
    <3>1. gone \in SUBSET Slot
      BY DEF Match
    <3> HIDE DEF gone
    <3> QED BY <3>1, FirstSlot
  <2>2. pc' = [Past(p) EXCEPT !.at = "release", !.stack = <<first>>]
    BY DEF PortEmptied
  <2> HIDE DEF first
  <2> QED BY <2>1, <2>2 DEF Past, Inv, PcInv
<1> HIDE DEF s, first
<1>6. \A x \in Port : x # s => port'[x] = port[x]
  BY <1>1, <1>4 DEF PortRegister
<1>7. \A i \in Slot : SameEntry(i)
  BY <1>2 DEF SameEntry
<1>8. ASSUME Seen', NEW e \in Slot, NEW k \in Slot, NEW x \in Port, Placed(e, k, x) PROVE Shows(e, k, x)'
  <2>1. /\ Shows(e, k, x) /\ x = <<devices[k].gadget, devices[e].port>> /\ addr[x[1]] = k /\ Live(e)
        /\ k = devices[e].parent /\ LiveHub(k, devices[e].host) /\ k # 0
    BY <1>8 DEF Placed
  <2>2. CASE x = s
    <3>1. k = pc.slot /\ devices[e].port = p
      BY <1>1, <2>1, <2>2
    <3>2. devices[e].host = pc.host
      BY <1>1, <2>1, <3>1, PollFacts DEF LiveHub
    <3>3. e \in gone
      BY <2>1, <3>1, <3>2 DEF Match, Live
    <3>4. \A f \in gone : f = e
      <4> SUFFICES ASSUME NEW f \in gone PROVE f = e
        OBVIOUS
      <4>1. f \in Slot /\ devices[f].used /\ devices[f].parent = pc.slot /\ devices[f].port = p
            /\ devices[f].host = pc.host
        BY DEF Match
      <4>2. NoStray /\ UniqueEntry
        BY <1>3, <1>8, ListParts
      <4>3. Live(f)
        BY <1>1, <4>1, <4>2 DEF NoStray
      <4> HIDE DEF gone
      <4> QED BY <2>1, <3>1, <3>2, <4>1, <4>2, <4>3 DEF UniqueEntry
    <3>5. pc'.at = "release" /\ pc'.slot = pc.slot /\ pc'.stack = <<e>>
      BY <1>5, <3>3, <3>4
    <3> QED BY <3>1, <3>5 DEF Shows
  <2>3. CASE x # s
    BY <1>1, <1>2, <1>6, <2>1, <2>3 DEF Shows
  <2> QED BY <2>2, <2>3
<1>9. \A h : ~Clearing(h)
  BY <1>1 DEF Clearing, Polling
<1> QED BY <1>2, <1>3, <1>7, <1>8, <1>9, SamePlaces, ListShrinks

\* A port that a device left unseen is not plugged into, or the exchange is noted.
LEMMA ListPlug ==
  ASSUME Inv, EntriesInv, ResetInv, ListInv, NEW g \in Gadget, NEW s \in Socket, Plug(g, s)
  PROVE  ListInv'
<1>1. socket \in [Socket -> Gadget \cup {NoGadget}] /\ port \in [Port -> PortRegister]
  BY DEF Inv, TypeOK
<1>2. /\ UNCHANGED <<power, addr, devices, pc, task>> /\ socket[s] = NoGadget
      /\ \A x \in Socket : x # s => socket'[x] = socket[x]
  BY <1>1 DEF Plug
<1>3. \A x \in Port : x # s => port'[x] = port[x]
  BY <1>1 DEF Plug
<1>4. Seen' => Seen /\ ~Unnoticed(s)
  <2> DEFINE b == Unnoticed(s)
  <2>1. past' = [past EXCEPT !.plugs = @ + 1, !.swapped = @ \/ b]
    BY DEF Plug
  <2>2. b \in BOOLEAN
    BY DEF Unnoticed, Inv, TypeOK, PortRegister
  <2> HIDE DEF b
  <2>3. Seen' => Seen /\ ~b
    BY <2>1, <2>2, SeenFacts
  <2> QED BY <2>3 DEF b
<1>5. \A i \in Slot : SameEntry(i)
  BY <1>2 DEF SameEntry
<1>6. ASSUME Seen', NEW e \in Slot, NEW k \in Slot, NEW x \in Port, Placed(e, k, x) PROVE Shows(e, k, x)'
  <2>1. /\ Shows(e, k, x) /\ x[1] = devices[k].gadget /\ addr[x[1]] = k /\ x[1] \in Hub
    BY <1>6 DEF Placed
  <2>2. CASE x = s
    <3>1. power[x[1]]
      BY <1>4, <1>6, <2>1, ResetParts DEF Seen, ConfiguredPowered
    <3>2. ~port[x].cConnection
      BY <1>4, <1>6, <2>2, <3>1 DEF Unnoticed
    <3>3. pc.at = "release" /\ pc.slot = k /\ pc.stack[Len(pc.stack)] = e
      BY <1>2, <2>1, <2>2, <3>2 DEF Shows
    <3> QED BY <1>2, <3>3 DEF Shows
  <2>3. CASE x # s
    BY <1>2, <1>3, <2>1, <2>3, SocketFacts DEF Shows
  <2> QED BY <2>2, <2>3
<1>7. \A h : Clearing(h)' <=> Clearing(h)
  BY <1>2 DEF Clearing
<1> QED BY <1>2, <1>4, <1>5, <1>6, <1>7, SamePlaces, ListShrinks

\* Power goes off at a device and below it: elsewhere the entries show what they
\* did, so the socket of the device is what matters.
LEMMA ListPowerless ==
  ASSUME Inv, WiringInv, EntriesInv, ListInv, NEW t \in Socket, NEW ports, socket[t] # NoGadget,
         PoweredOff(socket[t], ports),
         \A s \in Socket : s # t => socket'[s] = socket[s],
         \A s \in Port : s # t => ports[s] = port[s],
         UNCHANGED devices, Seen' => Seen,
         \A i \in Slot, h \in Host : Live(i) /\ devices[i].host = h /\ ~Clearing(h)' => ~Clearing(h),
         pc.at = "release" => pc' = pc,
         ASSUME Seen', t \in Port, t[1] \notin Off(socket[t]), NEW e \in Slot, NEW k \in Slot,
                Placed(e, k, t)
         PROVE  Shows(e, k, t)'
  PROVE  ListInv'
<1>1. \A i \in Slot : SamePlace(i)
  BY DEF SamePlace
<1>2. \A x \in Gadget : addr'[x] # 0 => addr'[x] = addr[x]
  BY DEF PoweredOff
<1>3. ASSUME Seen', NEW e \in Slot, NEW k \in Slot, NEW x \in Port, Placed(e, k, x), addr'[x[1]] = k
      PROVE  Shows(e, k, x)'
  <2>1. Shows(e, k, x) /\ x[1] \in Hub /\ k # 0 /\ x \in Socket
    BY <1>3, SocketFacts DEF Placed
  <2>2. x[1] \notin Off(socket[t])
    BY <1>3, <2>1 DEF PoweredOff
  <2>3. CASE x = t
    BY <1>3, <2>2, <2>3
  <2>4. CASE x # t
    <3>1. port'[x] = port[x] /\ socket'[x] = socket[x]
      BY <2>1, <2>2, <2>4 DEF PoweredOff
    <3>2. socket[x] # NoGadget => addr'[socket[x]] = addr[socket[x]]
      BY <2>1, <2>2, <2>4 DEF PoweredOff, WiringInv, PluggedOnce
    <3> QED BY <2>1, <3>1, <3>2 DEF Shows
  <2> QED BY <2>3, <2>4
<1> QED BY <1>1, <1>2, <1>3, ListShrinks

LEMMA ListUnplug ==
  ASSUME Inv, WiringInv, EntriesInv, ResetInv, ListInv, NEW s \in Socket, Unplug(s)
  PROVE  ListInv'
<1> DEFINE g == socket[s]
           left == IF s \in Port /\ power[s[1]]
                   THEN [port EXCEPT ![s].cConnection = TRUE, ![s].enabled = FALSE, ![s].reset = FALSE]
                   ELSE port
<1>1. socket \in [Socket -> Gadget \cup {NoGadget}] /\ port \in [Port -> PortRegister]
  BY DEF Inv, TypeOK
<1>2. /\ UNCHANGED <<devices, pc, task>> /\ g # NoGadget
      /\ \A x \in Socket : socket'[x] = IF x = s THEN NoGadget ELSE socket[x]
  BY <1>1 DEF Unplug
<1>3. Powerless(Off(g), {g}, left)
  BY DEF Unplug, Off
<1>4. Seen' => Seen
  <2>1. past' = [past EXCEPT !.plugs = @ + 1, !.lapse = @ \/ bResetInitiated] /\ bResetInitiated \in BOOLEAN
    BY DEF Unplug, Inv, TypeOK
  <2> QED BY <2>1, SeenFacts
<1>5. \A x \in Port : x # s => left[x] = port[x]
  BY <1>1
<1>6. s \in Port /\ power[s[1]] => left[s].cConnection
  BY <1>1 DEF PortRegister
<1> HIDE DEF left
<1>7. PoweredOff(g, left)
  BY <1>2, <1>3, PowerlessAddr
<1>8. ASSUME Seen', s \in Port, s[1] \notin Off(g), NEW e \in Slot, NEW k \in Slot, Placed(e, k, s)
      PROVE  Shows(e, k, s)'
  <2>1. s[1] = devices[k].gadget /\ addr[s[1]] = k /\ s[1] \in Hub
    BY <1>8 DEF Placed
  <2>2. power[s[1]]
    BY <1>4, <1>8, <2>1, ResetParts DEF Seen, ConfiguredPowered
  <2>3. port'[s] = left[s]
    BY <1>7, <1>8 DEF PoweredOff
  <2> QED BY <1>2, <1>6, <1>8, <2>2, <2>3 DEF Shows
<1>9. \A h : Clearing(h)' <=> Clearing(h)
  BY <1>2 DEF Clearing
<1> QED BY <1>2, <1>4, <1>5, <1>7, <1>8, <1>9, ListPowerless

LEMMA ListResetDone ==
  ASSUME Inv, WiringInv, EntriesInv, ResetInv, ListInv, NEW s, ResetDone(s)
  PROVE  ListInv'
<1> DEFINE g == socket[s]
           done == [port EXCEPT ![s] = [@ EXCEPT !.enabled = TRUE, !.reset = FALSE, !.cReset = TRUE]]
<1>1. port \in [Port -> PortRegister]
  BY DEF Inv, TypeOK
<1>2. UNCHANGED <<socket, devices, pc, task, past>> /\ s \in Port /\ s \in Socket /\ port[s].reset
  BY SocketFacts DEF ResetDone
<1>3. Seen' => Seen
  BY <1>2, SeenFacts
<1>4. CASE ~Seen
  BY <1>3, <1>4, ListPartsNext
<1>5. CASE Seen
  <2>1. g # NoGadget /\ ~port[s].enabled
    BY <1>2, <1>5, ResetParts DEF Seen, PortBits
  <2>2. Powerless(Off(g), {g}, done)
    BY DEF ResetDone, Off
  <2>3. \A x \in Port : x # s => done[x] = port[x]
    BY <1>1
  <2> HIDE DEF done
  <2>4. PoweredOff(g, done)
    BY <1>2, <2>1, <2>2, PowerlessAddr
  <2>5. ASSUME NEW e \in Slot, NEW k \in Slot, Placed(e, k, s) PROVE Shows(e, k, s)'
    BY <1>2, <2>1, <2>5 DEF Placed, Shows
  <2>6. \A h : Clearing(h)' <=> Clearing(h)
    BY <1>2 DEF Clearing
  <2> QED BY <1>2, <1>3, <2>1, <2>3, <2>4, <2>5, <2>6, ListPowerless
<1> QED BY <1>4, <1>5

LEMMA ListResetBus ==
  ASSUME Inv, WiringInv, EntriesInv, ListInv, ResetBus
  PROVE  ListInv'
<1> DEFINE t == <<pc.host, 0>>
           g == socket[t]
<1>1. Goes("reset", "configuring") /\ UNCHANGED <<socket, devices, past>>
  BY DEF ResetBus
<1>2. NoneCleared /\ pc.at = "devices" /\ pc.host \in Host
  BY <1>1, GoesOn, GoesFacts
<1>3. t \in Socket /\ t \notin Port
  BY <1>2, SocketFacts
<1> HIDE DEF t
<1>4. CASE g = NoGadget
  <2>1. UNCHANGED <<power, port, addr>>
    BY <1>4 DEF ResetBus, t
  <2> QED BY <1>1, <1>2, <2>1, ListGoesOn
<1>5. CASE g # NoGadget
  <2>1. Powerless(Off(g), {g}, port)
    BY <1>5 DEF ResetBus, Off, t
  <2>2. PoweredOff(g, port)
    BY <1>3, <1>5, <2>1, PowerlessAddr
  <2>3. Seen' => Seen
    BY <1>1, SeenFacts
  <2>4. \A i \in Slot, h \in Host : Live(i) /\ devices[i].host = h /\ ~Clearing(h)' => ~Clearing(h)
    BY <1>2 DEF NoneCleared
  <2> QED BY <1>1, <1>2, <1>3, <1>5, <2>2, <2>3, <2>4, ListPowerless
<1> QED BY <1>4, <1>5

\* A device that takes an address has no entry yet.
LEMMA ListConfigure ==
  ASSUME Inv, WiringInv, EntriesInv, ListInv, NEW h \in Host, NEW i, NEW g, NEW parent, NEW p,
         NEW ports, Taken(i, g, h, parent, p), Accepted(i, g, parent, ports), socket' = socket,
         NoneCleared, pc.at # "release",
         \A s \in Port : /\ ports[s].enabled = port[s].enabled
                         /\ ports[s].cConnection = port[s].cConnection,
         parent # 0 => /\ LiveHub(parent, h) /\ addr[devices[parent].gadget] = parent
                       /\ <<devices[parent].gadget, p>> \in Port
                       /\ socket[<<devices[parent].gadget, p>>] = g
                       /\ port[<<devices[parent].gadget, p>>].enabled,
         parent = 0 => \A j \in Slot : Live(j) => devices[j].host # h
  PROVE  ListInv'
<1> SUFFICES ASSUME Seen' PROVE NoStray' /\ UniqueEntry' /\ EntryDevice'
  BY ListPartsNext
<1>1. /\ past'.lapse = past.lapse /\ past'.swapped = past.swapped
      /\ past'.stray = (past.stray \/ (ClassOf(g) = "none" /\ parent # 0))
      /\ devices'[i].class = ClassOf(g)
  BY DEF Accepted
<1>2. Seen /\ (parent # 0 => ClassOf(g) # "none")
  BY <1>1 DEF Seen
<1>3. NoStray /\ UniqueEntry /\ EntryDevice
  BY <1>2, ListParts
<1>4. /\ i \in Slot /\ ~Live(i) /\ i # 0 /\ g \in Gadget /\ g # NoGadget
      /\ \A j \in Slot : j # i => devices'[j] = devices[j]
      /\ devices'[i].used /\ devices'[i].host = h /\ devices'[i].parent = parent
      /\ devices'[i].port = p /\ devices'[i].gadget = g
      /\ addr[g] = 0 /\ addr'[g] = i
      /\ \A x \in Gadget : addr[x] # 0 => addr'[x] = addr[x]
      /\ \A x \in Gadget : addr'[x] # i => addr'[x] = addr[x]
  BY TakenFacts DEF Taken, Live
<1>5. \A j \in Slot : j # i => Live(j)' = Live(j)
  BY <1>4 DEF Live
<1>6. \A s \in Port : s[1] # g => /\ port'[s].enabled = port[s].enabled
                                  /\ port'[s].cConnection = port[s].cConnection
  BY DEF Accepted
<1>7. NoStray'
  <2> SUFFICES ASSUME NEW j \in Slot, devices'[j].used, devices'[j].parent # 0 PROVE Live(j)'
    BY DEF NoStray
  <2>1. CASE j = i
    BY <1>1, <1>2, <1>4, <2>1 DEF Live
  <2>2. CASE j # i
    BY <1>3, <1>4, <1>5, <2>2 DEF NoStray
  <2> QED BY <2>1, <2>2
<1>8. ASSUME NEW j \in Slot, Live(j), devices[j].host = h, devices[j].parent = parent, devices[j].port = p
      PROVE  FALSE
  <2>1. parent # 0
    BY <1>8
  <2> DEFINE s == <<devices[parent].gadget, p>>
  <2>2. Placed(j, parent, s)
    BY <1>3, <1>8, <2>1, PlacedEntry DEF NoneCleared
  <2>3. Shows(j, parent, s)
    BY <2>2 DEF Placed
  <2>4. j # 0 /\ socket[s] = g
    BY <2>1, UsbAssumption DEF Slot
  <2> HIDE DEF s
  <2> QED BY <1>4, <2>3, <2>4 DEF Shows
<1>9. UniqueEntry'
  <2> SUFFICES ASSUME NEW j \in Slot, NEW k \in Slot, Live(j)', Live(k)',
                      devices'[j].host = devices'[k].host, devices'[j].parent = devices'[k].parent,
                      devices'[j].port = devices'[k].port
               PROVE  j = k
    BY DEF UniqueEntry
  <2>1. CASE j = i /\ k # i
    BY <1>4, <1>5, <1>8, <2>1
  <2>2. CASE j # i /\ k = i
    BY <1>4, <1>5, <1>8, <2>2
  <2>3. CASE j # i /\ k # i
    <3>1. Live(j) /\ Live(k) /\ devices'[j] = devices[j] /\ devices'[k] = devices[k]
      BY <1>4, <1>5, <2>3
    <3> QED BY <1>3, <3>1 DEF UniqueEntry
  <2> QED BY <2>1, <2>2, <2>3
<1>10. EntryDevice'
  <2> SUFFICES ASSUME NEW e \in Slot, NEW k, k = devices'[e].parent,
                      NEW s, s = <<devices'[k].gadget, devices'[e].port>>,
                      Live(e)', k # 0, addr'[devices'[k].gadget] = k
               PROVE  s \in Port /\ Shows(e, k, s)'
    BY DEF EntryDevice, Shows, Live
  <2>1. CASE e = i
    <3>1. /\ k = parent /\ LiveHub(k, h) /\ addr[devices[k].gadget] = k
          /\ <<devices[k].gadget, p>> \in Port /\ socket[<<devices[k].gadget, p>>] = g
          /\ port[<<devices[k].gadget, p>>].enabled
      BY <1>4, <2>1
    <3>2. k \in Slot /\ k # i /\ devices'[k] = devices[k]
      BY <1>4, <3>1 DEF LiveHub
    <3>3. s = <<devices[k].gadget, p>> /\ s[1] = devices[k].gadget
      BY <1>4, <2>1, <3>2
    <3>4. s \in Port /\ socket[s] = g /\ port[s].enabled /\ s[1] # g
      BY <1>4, <3>1, <3>3
    <3>5. port'[s].enabled
      BY <1>6, <3>4
    <3> QED BY <1>4, <2>1, <3>4, <3>5 DEF Shows
  <2>2. CASE e # i
    <3>1. Live(e) /\ devices'[e] = devices[e] /\ k = devices[e].parent
      BY <1>4, <1>5, <2>2
    <3>2. LiveHub(k, devices[e].host) /\ k \in Slot /\ k # i /\ devices'[k] = devices[k]
          /\ devices[k].gadget \in Gadget
      BY <1>4, <3>1, SocketFacts DEF EntriesInv, HubsKept, HubsAreHubs, LiveHub, NoneCleared
    <3>3. addr[devices[k].gadget] = k
      BY <1>4, <3>2
    <3>4. Placed(e, k, s)
      BY <1>3, <3>1, <3>2, <3>3, PlacedEntry DEF NoneCleared
    <3>5. Shows(e, k, s) /\ s \in Port /\ s[1] = devices[k].gadget /\ s \in Socket
      BY <3>4, SocketFacts DEF Placed
    <3>6. s[1] # g
      BY <1>4, <3>3, <3>5
    <3>7. socket[s] # NoGadget => socket[s] \in Gadget
      BY <3>5 DEF Inv, TypeOK
    <3>8. e # 0
      BY UsbAssumption DEF Slot
    <3> QED BY <1>4, <1>6, <3>1, <3>5, <3>6, <3>7, <3>8 DEF Shows
  <2> QED BY <2>1, <2>2
<1> QED BY <1>7, <1>9, <1>10

LEMMA ListPortReset ==
  ASSUME Inv, WiringInv, EntriesInv, ListInv, NEW p \in Nat, NEW outcome, NEW n \in 0 .. MAX_IFACES,
         PortReset(p, outcome, n)
  PROVE  ListInv'
<1> DEFINE s == <<ThisHub, p>>
           g == socket[s]
           ports == [port EXCEPT ![s].cReset = FALSE]
<1>1. /\ PortStatus(p) /\ ResetEvent(p) /\ pc.at = "changed" /\ Polling
      /\ pc.slot \in 0 .. USB_NUMDEVICES /\ pc.host \in Host
      /\ Configure(pc.host, ThisHub, pc.slot, p, ports, outcome, n)
  BY PortResetFacts
<1>2. s \in Port /\ addr[ThisHub] = pc.slot /\ devices[pc.slot].gadget = ThisHub /\ pc.slot # 0
  BY <1>1, PolledPort DEF ThisHub
<1>3. port[s].enabled
  BY <1>1 DEF ResetEvent, Register
<1>4. port \in [Port -> PortRegister]
  BY DEF Inv, TypeOK
<1>5. socket' = socket /\ (Failed(ports) \/
        \E i \in Slot : /\ Taken(i, g, pc.host, pc.slot, p)
                        /\ Refused(i, ports) \/ Accepted(i, g, pc.slot, ports))
  BY <1>1, ConfigureCases
<1>6. \A x \in Port : ports[x].enabled = port[x].enabled /\ ports[x].cConnection = port[x].cConnection
  BY <1>4 DEF PortRegister
<1>7. NoneCleared /\ LiveHub(pc.slot, pc.host)
  BY <1>1, PollFacts
<1> HIDE DEF ports
<1>8. CASE past'.lapse
  BY <1>8, ListPartsNext DEF Seen
<1>9. CASE ~past'.lapse
  <2>1. PICK i \in Slot : Taken(i, g, pc.host, pc.slot, p) /\ Accepted(i, g, pc.slot, ports)
    BY <1>5, <1>9 DEF Failed, Refused
  <2>2. <<devices[pc.slot].gadget, p>> = s
    BY <1>2
  <2> HIDE DEF g
  <2>3. socket[s] = g
    BY DEF g
  <2> HIDE DEF s
  <2> QED BY <1>1, <1>2, <1>3, <1>5, <1>6, <1>7, <2>1, <2>2, <2>3, ListConfigure
<1> QED BY <1>8, <1>9

LEMMA ListConfiguring ==
  ASSUME Inv, WiringInv, EntriesInv, ListInv, NEW outcome, NEW n \in 0 .. MAX_IFACES,
         Configuring(outcome, n)
  PROVE  ListInv'
<1> DEFINE g == socket[<<pc.host, 0>>]
<1>1. /\ Goes("configuring", "running") /\ pc.host \in Host
      /\ 0 \in 0 .. USB_NUMDEVICES /\ 0 \in Nat
      /\ Configure(pc.host, pc.host, 0, 0, port, outcome, n)
  BY ConfiguringFacts
<1>2. socket' = socket /\ (Failed(port) \/
        \E i \in Slot : Taken(i, g, pc.host, 0, 0) /\ (Refused(i, port) \/ Accepted(i, g, 0, port)))
  BY <1>1, ConfigureCases
<1>3. NoneCleared /\ pc.at = "devices" /\ task[pc.host] = "configuring"
  BY <1>1, GoesOn, GoesFacts
<1>4. \A j \in Slot : Live(j) => devices[j].host # pc.host
  BY <1>3 DEF NoneCleared, EntriesInv, Cleared
<1> HIDE DEF g
<1>5. CASE past'.lapse
  BY <1>5, ListPartsNext DEF Seen
<1>6. CASE ~past'.lapse
  <2>1. PICK i \in Slot : Taken(i, g, pc.host, 0, 0) /\ Accepted(i, g, 0, port)
    BY <1>2, <1>6 DEF Failed, Refused
  <2> QED BY <1>1, <1>2, <1>3, <1>4, <2>1, ListConfigure
<1> QED BY <1>5, <1>6

-----------------------------------------------------------------------------
(* Every action keeps the invariant.                                       *)

\* The firmware reads only, or works on its own tables.
StepsAside ==
  \/ Rotate \/ UsbPoll \/ (\E i \in Slot : PollHub(i)) \/ LoopEnds \/ ReleaseKid \/ ReleaseDevice
  \/ Initialize \/ TaskIdle \/ Settled

LEMMA StepsAsideFacts ==
  ASSUME Inv, StepsAside
  PROVE  /\ UNCHANGED <<socket, power, port, addr, bResetInitiated>>
         /\ past'.lapse = past.lapse
         /\ TaskStops
         /\ \A i \in Slot : devices'[i].gadget = devices[i].gadget
<1>1. UNCHANGED <<socket, power, port, addr, bResetInitiated>>
  BY DEF StepsAside, Rotate, UsbPoll, PollHub, LoopEnds, ReleaseKid, ReleaseDevice, ReleaseStick,
         Initialize, TaskIdle, Settled, wiring
<1>2. past'.lapse = past.lapse
  <2>1. CASE Rotate
    BY <2>1, PastLapse DEF Rotate
  <2> QED BY <2>1 DEF StepsAside, UsbPoll, PollHub, LoopEnds, ReleaseKid, ReleaseDevice, ReleaseStick,
                      Initialize, TaskIdle, Settled
<1>3. TaskStops
  <2>1. CASE task' = task
    BY <1>1, <2>1 DEF TaskStops
  <2>2. CASE UsbPoll
    <3>1. /\ pc.host \in Host
          /\ \A h \in Host : h # pc.host => task'[h] = task[h]
          /\ task'[pc.host] = IF ~Connected(pc.host)
                              THEN IF task[pc.host] = "wait" THEN task[pc.host] ELSE "initialize"
                              ELSE IF task[pc.host] \in {"initialize", "wait"} THEN "settle"
                                   ELSE task[pc.host]
      BY <2>2 DEF UsbPoll, Inv, PcInv, TypeOK
    <3> QED BY <1>1, <3>1 DEF TaskStops, Connected
  <2>3. ASSUME NEW from, NEW to, Goes(from, to), from = "running" => to = "running" PROVE TaskStops
    BY <1>1, <2>3, GoesFacts DEF TaskStops
  <2>4. CASE Initialize
    BY <2>1, <2>3, <2>4 DEF Initialize, ReleaseStick
  <2>5. CASE TaskIdle \/ Settled
    BY <2>3, <2>5 DEF TaskIdle, Settled
  <2> QED BY <2>1, <2>2, <2>4, <2>5 DEF StepsAside, Rotate, PollHub, LoopEnds, ReleaseKid,
                                        ReleaseDevice, ReleaseStick
<1>4. \A i \in Slot : devices'[i].gadget = devices[i].gadget
  <2>0. devices \in [Slot -> Entry]
    BY DEF Inv, TypeOK
  <2>1. CASE devices' = devices
    BY <2>1
  <2>2. ASSUME NEW i \in Slot, ReleaseStick(i) PROVE \A j \in Slot : devices'[j].gadget = devices[j].gadget
    BY <2>2, ReleaseStickEntries DEF SameEntry
  <2>3. ASSUME NEW i, devices' = [devices EXCEPT ![i].used = FALSE]
        PROVE  \A j \in Slot : devices'[j].gadget = devices[j].gadget
    BY <2>0, <2>3 DEF Entry
  <2>4. CASE Rotate
    <3>1. \A i \in Slot : devices'[i] = devices[i] \/ \E f : devices'[i] = [devices[i] EXCEPT !.jindex = f]
      BY <2>4 DEF Rotate
    <3> QED BY <2>0, <3>1 DEF Entry
  <2>5. CASE ReleaseDevice
    <3>1. Top \in Slot
      BY <2>5, StackType DEF ReleaseDevice
    <3> QED BY <2>2, <2>3, <2>5, <3>1 DEF ReleaseDevice
  <2>6. CASE Initialize
    <3>1. Doomed # {} => Min(Doomed) \in Slot
      <4>1. Doomed \in SUBSET Slot
        BY DEF Doomed
      <4> QED BY <4>1, FirstSlot
    <3> QED BY <2>1, <2>2, <2>3, <2>6, <3>1 DEF Initialize
  <2> QED BY <2>1, <2>4, <2>5, <2>6 DEF StepsAside, UsbPoll, PollHub, LoopEnds, ReleaseKid, TaskIdle,
                                        Settled
<1> QED BY <1>1, <1>2, <1>3, <1>4

LEMMA StepsAsideKeep ==
  ASSUME Inv, WiringInv, ResetInv, StepsAside
  PROVE  WiringInv' /\ ResetInv'
BY StepsAsideFacts, WiringKept, ResetKept

\* Joysticks change their numbers, and entries nothing else.
LEMMA RotateEntries ==
  ASSUME Inv, Rotate
  PROVE  (\A i \in Slot : SameEntry(i)) /\ SeenKept /\ UNCHANGED <<socket, port, addr, pc, task>>
<1>1. devices \in [Slot -> Entry]
  BY DEF Inv, TypeOK
<1>2. \A i \in Slot : devices'[i] = devices[i] \/ \E f : devices'[i] = [devices[i] EXCEPT !.jindex = f]
  BY DEF Rotate
<1>3. \A i \in Slot : SameEntry(i)
  BY <1>1, <1>2 DEF Entry, SameEntry
<1>4. SeenKept
  BY SeenFacts DEF Rotate
<1> QED BY <1>3, <1>4 DEF Rotate, wiring

LEMMA WiringUnplug ==
  ASSUME Inv, WiringInv, NEW s \in Socket, Unplug(s)
  PROVE  WiringInv'
<1> DEFINE left == IF s \in Port /\ power[s[1]]
                   THEN [port EXCEPT ![s].cConnection = TRUE, ![s].enabled = FALSE, ![s].reset = FALSE]
                   ELSE port
<1>1. socket \in [Socket -> Gadget \cup {NoGadget}] /\ port \in [Port -> PortRegister]
  BY DEF Inv, TypeOK
<1>2. /\ \A x \in Socket : socket'[x] = IF x = s THEN NoGadget ELSE socket[x]
      /\ Powerless(Off(socket[s]), {socket[s]}, left) /\ task' = task
  BY <1>1 DEF Unplug, Off
<1>3. \A x \in Port : x # s => left[x] = port[x]
  BY <1>1
<1>4. TaskStops
  BY <1>2 DEF TaskStops
<1> HIDE DEF left
<1> QED BY <1>2, <1>3, <1>4, WiringPowerless

LEMMA WiringResetDone ==
  ASSUME Inv, WiringInv, NEW s, ResetDone(s)
  PROVE  WiringInv'
<1> DEFINE done == [port EXCEPT ![s] = [@ EXCEPT !.enabled = TRUE, !.reset = FALSE, !.cReset = TRUE]]
<1>1. port \in [Port -> PortRegister]
  BY DEF Inv, TypeOK
<1>2. s \in Socket /\ socket' = socket /\ Powerless(Off(socket[s]), {socket[s]}, done) /\ task' = task
  BY SocketFacts DEF ResetDone, Off
<1>3. \A x \in Port : x # s => done[x] = port[x]
  BY <1>1
<1>4. TaskStops
  BY <1>2 DEF TaskStops
<1> HIDE DEF done
<1> QED BY <1>2, <1>3, <1>4, WiringPowerless

LEMMA WiringResetBus == ASSUME Inv, WiringInv, ResetBus PROVE WiringInv'
<1> DEFINE t == <<pc.host, 0>>
<1>1. t \in Socket /\ socket' = socket /\ TaskStops
  <2>1. Goes("reset", "configuring") /\ socket' = socket
    BY DEF ResetBus
  <2> QED BY <2>1, GoesFacts, SocketFacts DEF TaskStops
<1>2. CASE UNCHANGED <<power, port, addr>>
  BY <1>1, <1>2, WiringKept
<1>3. CASE Powerless(Off(socket[t]), {socket[t]}, port)
  <2> HIDE DEF t
  <2> QED BY <1>1, <1>3, WiringPowerless
<1> QED BY <1>2, <1>3 DEF ResetBus, Off

LEMMA WiringAttempt ==
  ASSUME Inv, WiringInv, NEW h \in Host, NEW w, NEW parent \in 0 .. USB_NUMDEVICES, NEW p \in Nat,
         NEW ports, NEW outcome, NEW n \in 0 .. MAX_IFACES,
         Configure(h, w, parent, p, ports, outcome, n),
         \A s \in Port : ports[s].enabled = port[s].enabled,
         TaskStops, task'[h] = "running"
  PROVE  WiringInv'
<1> DEFINE g == socket[<<w, p>>]
<1>1. /\ socket' = socket
      /\ \/ Failed(ports)
         \/ \E i \in Slot : Taken(i, g, h, parent, p) /\ (Refused(i, ports) \/ Accepted(i, g, parent, ports))
  BY ConfigureCases
<1> HIDE DEF g
<1>2. CASE Failed(ports)
  BY <1>1, <1>2, WiringKept DEF Failed
<1>3. ASSUME NEW i \in Slot, Taken(i, g, h, parent, p), Refused(i, ports) \/ Accepted(i, g, parent, ports)
      PROVE  WiringInv'
  BY <1>1, <1>3, WiringConfigure
<1> QED BY <1>1, <1>2, <1>3

LEMMA WiringPortReset ==
  ASSUME Inv, WiringInv, EntriesInv, NEW p \in Nat, NEW outcome, NEW n \in 0 .. MAX_IFACES,
         PortReset(p, outcome, n)
  PROVE  WiringInv'
<1> DEFINE ports == [port EXCEPT ![<<ThisHub, p>>].cReset = FALSE]
<1>1. /\ Polling /\ task' = task
      /\ pc.slot \in 0 .. USB_NUMDEVICES /\ pc.host \in Host
      /\ Configure(pc.host, ThisHub, pc.slot, p, ports, outcome, n)
  BY PortResetFacts
<1>2. \A s \in Port : ports[s].enabled = port[s].enabled
  BY DEF Inv, TypeOK, PortRegister
<1>3. task'[pc.host] = "running" /\ socket' = socket
  BY <1>1, PollFacts DEF Configure
<1>4. TaskStops
  BY <1>1, <1>3 DEF TaskStops
<1> HIDE DEF ports
<1> QED BY <1>1, <1>2, <1>3, <1>4, WiringAttempt

LEMMA WiringConfiguring ==
  ASSUME Inv, WiringInv, NEW outcome, NEW n \in 0 .. MAX_IFACES, Configuring(outcome, n)
  PROVE  WiringInv'
<1>1. /\ Goes("configuring", "running") /\ pc.host \in Host
      /\ Configure(pc.host, pc.host, 0, 0, port, outcome, n)
      /\ 0 \in 0 .. USB_NUMDEVICES /\ 0 \in Nat
  BY ConfiguringFacts
<1>2. task'[pc.host] = "running" /\ socket' = socket /\ TaskStops
  BY <1>1, GoesFacts DEF Configure, TaskStops
<1> QED BY <1>1, <1>2, WiringAttempt

-----------------------------------------------------------------------------
(* The invariant.                                                          *)

Related == Inv /\ WiringInv /\ EntriesInv /\ ResetInv /\ ListInv

LEMMA RelatedParts ==
  ASSUME Related PROVE Inv /\ WiringInv /\ EntriesInv /\ ResetInv /\ ListInv
BY DEF Related

LEMMA RelatedPartsNext ==
  ASSUME Inv', WiringInv', EntriesInv', ResetInv', ListInv' PROVE Related'
BY DEF Related

LEMMA InitRelated == Init => Related
<1> SUFFICES ASSUME Init PROVE Related
  OBVIOUS
<1>1. Inv
  BY InitInv
<1>2. /\ \A s \in Socket : socket[s] = NoGadget
      /\ \A g \in Hub : ~power[g]
      /\ \A s \in Port : port[s] = Quiet
      /\ \A g \in Gadget : addr[g] = 0
      /\ \A i \in Slot : devices[i] = Unused
      /\ pc.at = "idle" /\ bResetInitiated = FALSE
  BY DEF Init, Idle
<1>3. \A i \in Slot : ~devices[i].used /\ ~Live(i) /\ devices[i].class = "none"
  BY <1>2 DEF Live, Unused
<1>4. WiringInv
  BY <1>2, SocketFacts DEF WiringInv, PluggedOnce, PoweredReachable, UnpluggedDumb, RootFresh
<1>5. EntriesInv
  <2>1. Grounded
    <3> SUFFICES ASSUME NEW S \in SUBSET Slot, S # {}, \A i \in S : Live(i) PROVE FALSE
      BY DEF Grounded
    <3> QED BY <1>3
  <2> QED BY <1>2, <1>3, <2>1 DEF EntriesInv, HubsAreHubs, PolledHub, Polling, HubsKept, StackInv, Cleared
<1>6. ResetInv
  <2>1. ConfiguredPowered
    BY <1>2, UsbAssumption, SocketFacts DEF ConfiguredPowered, Slot
  <2>2. Resetting = {}
    BY <1>2 DEF Resetting, Quiet
  <2> QED BY <1>2, <2>1, <2>2 DEF ResetInv, QuietUnpowered, PortBits, OneReset, FlagHasReset, Quiet
<1>7. ListInv
  BY <1>3 DEF ListInv, NoStray, OneEntryPerPort, EntryDevice
<1> QED BY <1>1, <1>4, <1>5, <1>6, <1>7 DEF Related

LEMMA NextRelated == Related /\ [Next]_vars => Related'
<1> SUFFICES ASSUME Related, [Next]_vars PROVE Related'
  OBVIOUS
<1>1. Inv /\ WiringInv /\ EntriesInv /\ ResetInv /\ ListInv
  BY RelatedParts
<1>2. Inv'
  BY <1>1, NextInv
<1>3. StepsAside => WiringInv' /\ ResetInv'
  BY <1>1, StepsAsideKeep
<1>4. ASSUME NEW g \in Gadget, NEW s \in Socket, Plug(g, s) PROVE Related'
  <2>1. EntriesInv'
    <3>1. UNCHANGED <<devices, pc, task>>
      BY <1>4 DEF Plug
    <3> QED BY <1>1, <3>1, EntriesKept DEF SameEntry
  <2> QED BY <1>1, <1>2, <1>4, <2>1, WiringPlug, ResetPlug, ListPlug, RelatedPartsNext
<1>5. ASSUME NEW s \in Socket, Unplug(s) PROVE Related'
  <2>1. EntriesInv'
    <3>1. UNCHANGED <<devices, pc, task>>
      BY <1>5 DEF Unplug
    <3> QED BY <1>1, <3>1, EntriesKept DEF SameEntry
  <2> QED BY <1>1, <1>2, <1>5, <2>1, WiringUnplug, ResetUnplug, ListUnplug, RelatedPartsNext
<1>6. ASSUME NEW s \in Socket, ResetDone(s) PROVE Related'
  <2>1. EntriesInv'
    <3>1. UNCHANGED <<devices, pc, task>>
      BY <1>6 DEF ResetDone
    <3> QED BY <1>1, <3>1, EntriesKept DEF SameEntry
  <2> QED BY <1>1, <1>2, <1>6, <2>1, WiringResetDone, ResetResetDone, ListResetDone, RelatedPartsNext
<1>7. CASE Rotate
  <2>1. EntriesInv'
    BY <1>1, <1>7, RotateEntries, EntriesKept
  <2>2. ListInv'
    BY <1>1, <1>7, RotateEntries, ListKept
  <2> QED BY <1>2, <1>3, <1>7, <2>1, <2>2, RelatedPartsNext DEF StepsAside
<1>8. CASE UsbPoll
  BY <1>1, <1>2, <1>3, <1>8, EntriesUsbPoll, ListUsbPoll, RelatedPartsNext DEF StepsAside
<1>9. ASSUME NEW i \in Slot, PollHub(i) PROVE Related'
  <2>1. StepsAside
    BY <1>9 DEF StepsAside
  <2> QED BY <1>1, <1>2, <1>3, <1>9, <2>1, EntriesPollHub, ListPollHub, RelatedPartsNext
<1>10. HubPort \subseteq Nat
  BY UsbAssumption DEF HubPort, Hub
<1>11. ASSUME NEW p \in HubPort, NEW ok \in BOOLEAN, ResetPort(p, ok) PROVE Related'
  <2>1. WiringInv'
    <3>1. UNCHANGED <<socket, power, addr, task>> /\ \A s \in Port : port'[s].enabled = port[s].enabled
      BY <1>1, <1>11 DEF ResetPort, Inv, TypeOK, PortRegister
    <3> QED BY <1>1, <3>1, WiringKept DEF TaskStops
  <2> QED BY <1>1, <1>2, <1>11, <2>1, EntriesResetPort, ResetResetPort, ListResetPort, RelatedPartsNext
<1>12. ASSUME NEW p \in HubPort, PortEmptied(p) PROVE Related'
  <2>1. WiringInv'
    <3>1. UNCHANGED <<socket, power, addr, task>> /\ \A s \in Port : port'[s].enabled = port[s].enabled
      BY <1>1, <1>12 DEF PortEmptied, Inv, TypeOK, PortRegister
    <3> QED BY <1>1, <3>1, WiringKept DEF TaskStops
  <2> QED BY <1>1, <1>2, <1>12, <2>1, EntriesPortEmptied, ResetPortEmptied, ListPortEmptied,
             RelatedPartsNext
<1>13. ASSUME NEW p \in HubPort, NEW outcome \in Outcome, NEW n \in 0 .. MAX_IFACES,
              PortReset(p, outcome, n)
       PROVE  Related'
  <2>1. p \in Nat
    BY <1>10
  <2> QED BY <1>1, <1>2, <1>13, <2>1, WiringPortReset, EntriesPortReset, ResetPortReset, ListPortReset,
             RelatedPartsNext
<1>14. CASE LoopEnds
  BY <1>1, <1>2, <1>3, <1>14, EntriesLoopEnds, ListLoopEnds, RelatedPartsNext DEF StepsAside
<1>15. CASE ReleaseKid
  BY <1>1, <1>2, <1>3, <1>15, EntriesReleaseKid, ListReleaseKid, RelatedPartsNext DEF StepsAside
<1>16. CASE ReleaseDevice
  BY <1>1, <1>2, <1>3, <1>16, EntriesReleaseDevice, ListReleaseDevice, RelatedPartsNext DEF StepsAside
<1>17. CASE Initialize
  BY <1>1, <1>2, <1>3, <1>17, EntriesInitialize, ListInitialize, RelatedPartsNext DEF StepsAside
<1>18. CASE TaskIdle \/ Settled
  BY <1>1, <1>2, <1>3, <1>18, EntriesGo, ListGo, RelatedPartsNext DEF StepsAside
<1>19. CASE ResetBus
  BY <1>1, <1>2, <1>19, WiringResetBus, EntriesGo, ResetResetBus, ListResetBus, RelatedPartsNext
<1>20. ASSUME NEW outcome \in Outcome, NEW n \in 0 .. MAX_IFACES, Configuring(outcome, n)
       PROVE  Related'
  BY <1>1, <1>2, <1>20, WiringConfiguring, EntriesConfiguring, ResetConfiguring, ListConfiguring,
     RelatedPartsNext
<1>21. CASE UNCHANGED vars
  <2>1. UNCHANGED <<socket, power, port, addr, devices, task, pc, bResetInitiated, past>>
    BY <1>21 DEF vars
  <2>2. WiringInv'
    BY <1>1, <2>1, WiringKept DEF TaskStops
  <2>3. ResetInv'
    BY <1>1, <2>1, ResetKept
  <2>4. \A i \in Slot : SameEntry(i)
    BY <2>1 DEF SameEntry
  <2>5. EntriesInv'
    BY <1>1, <2>1, <2>4, EntriesKept
  <2>6. ListInv'
    BY <1>1, <2>1, <2>4, ListKept DEF SeenKept
  <2> QED BY <1>2, <2>2, <2>3, <2>5, <2>6, RelatedPartsNext
<1> QED BY <1>4, <1>5, <1>6, <1>7, <1>8, <1>9, <1>11, <1>12, <1>13, <1>14, <1>15, <1>16, <1>17, <1>18,
           <1>19, <1>20, <1>21 DEF Next

\* The entries of usb.c, the states of the ports and the wiring stay related.
THEOREM RelatedAlways == Spec => []Related
BY InitRelated, NextRelated, PTL DEF Spec

-----------------------------------------------------------------------------
(* What follows.                                                           *)

\* A device that listens to 0 is in the root port, or in a port that is
\* enabled, below a hub in the root port that has power.
LEMMA ListenerPlace ==
  ASSUME Inv, WiringInv, NEW h \in Host, NEW x \in Answering(h, 0)
  PROVE  /\ x \in Gadget /\ addr[x] = 0 /\ x # NoGadget
         /\ \/ socket[<<h, 0>>] = x
            \/ \E s \in Port : /\ socket[s] = x /\ port[s].enabled
                               /\ socket[<<h, 0>>] \in Hub /\ power[socket[<<h, 0>>]]
<1>1. x \in Gadget /\ addr[x] = 0 /\ x # NoGadget /\ Reachable(x) /\ h \in HostOf(x)
  BY SocketFacts DEF Answering
<1>2. PICK s \in Socket : socket[s] = x /\ (s \in Root \/ (power[s[1]] /\ port[s].enabled))
  BY <1>1 DEF Reachable
<1>3. CASE s \in Root
  <2>1. s[1] \in Host /\ s = <<s[1], 0>>
    BY <1>3, SocketFacts
  <2>2. h = s[1]
    BY <1>1, <1>2, <2>1, RootHost
  <2> QED BY <1>1, <1>2, <2>1, <2>2
<1>4. CASE s \in Port /\ socket[<<h, 0>>] # x
  <2>1. PICK r \in Hub : /\ socket[<<h, 0>>] = r
                         /\ x \in {socket[t] : t \in {y \in Port : y[1] \in Below(r)}}
    BY <1>1, <1>4 DEF HostOf
  <2>2. PICK t \in Port : t[1] \in Below(r) /\ socket[t] = x
    BY <2>1
  <2>3. t = s
    BY <1>1, <1>2, <2>2, SocketFacts DEF WiringInv, PluggedOnce
  <2>4. power[s[1]] /\ port[s].enabled
    BY <1>2, <1>4, SocketFacts
  <2>5. power[r]
    BY <2>2, <2>3, <2>4, BelowUnpowered
  <2> QED BY <1>1, <1>2, <1>4, <2>1, <2>4, <2>5
<1> QED BY <1>1, <1>2, <1>3, <1>4, SocketFacts

LEMMA OneListens ==
  ASSUME Inv, WiringInv, ResetInv, ~past.lapse, NEW h \in Host,
         NEW x \in Answering(h, 0), NEW y \in Answering(h, 0)
  PROVE  x = y
<1>1. /\ x \in Gadget /\ addr[x] = 0 /\ x # NoGadget
      /\ \/ socket[<<h, 0>>] = x
         \/ \E s \in Port : /\ socket[s] = x /\ port[s].enabled
                            /\ socket[<<h, 0>>] \in Hub /\ power[socket[<<h, 0>>]]
  BY ListenerPlace
<1>2. /\ y \in Gadget /\ addr[y] = 0 /\ y # NoGadget
      /\ \/ socket[<<h, 0>>] = y
         \/ \E s \in Port : /\ socket[s] = y /\ port[s].enabled
                            /\ socket[<<h, 0>>] \in Hub /\ power[socket[<<h, 0>>]]
  BY ListenerPlace
<1>3. socket[<<h, 0>>] \in Hub /\ power[socket[<<h, 0>>]] => addr[socket[<<h, 0>>]] # 0
  BY DEF WiringInv, PoweredReachable
<1>4. ASSUME NEW s \in Port, NEW t \in Port, socket[s] = x, port[s].enabled, socket[t] = y, port[t].enabled
      PROVE  x = y
  <2>1. s \in Resetting /\ t \in Resetting
    BY <1>1, <1>2, <1>4 DEF Resetting
  <2> QED BY <1>4, <2>1, ResetParts
<1> QED BY <1>1, <1>2, <1>3, <1>4

\* However many hubs there are and whatever is plugged where, no two devices
\* of a bus listen to address 0 at a time, unless a device left while a reset
\* was under way or did not take an address: what bResetInitiated is for.
THEOREM OneListensToZero == Spec => []OneAtAddressZero
<1>1. Related => OneAtAddressZero
  <2> SUFFICES ASSUME Related, ~past.lapse, NEW h \in Host PROVE Cardinality(Answering(h, 0)) <= 1
    BY Zenon DEF OneAtAddressZero
  <2> DEFINE S == Answering(h, 0)
  <2>1. \A x, y \in S : x = y
    BY RelatedParts, OneListens
  <2> HIDE DEF S
  <2>2. CASE S = {}
    BY <2>2, FS_EmptySet DEF S
  <2>3. CASE S # {}
    <3>1. PICK x : S = {x}
      BY <2>1, <2>3
    <3>2. Cardinality({x}) = 1
      BY FS_Singleton
    <3> QED BY <3>1, <3>2 DEF S
  <2> QED BY <2>2, <2>3
<1> QED BY <1>1, RelatedAlways, PTL

\* hub.c never waits with bResetInitiated for a reset that is over or was
\* never begun, unless a request to reset failed or a device left meanwhile.
THEOREM FlagMeansReset == Spec => []FlagHasReset
<1>1. Related => FlagHasReset
  BY RelatedParts DEF ResetInv, FlagHasReset
<1> QED BY <1>1, RelatedAlways, PTL

\* Between two polls every entry of a class is of the root port or below the
\* entry of a hub of its host: usb_release_device leaves no orphan, however
\* deep the hubs are nested.
THEOREM EntriesStayBelowHubs == Spec => []EntriesHaveHubs
<1>1. Related => EntriesHaveHubs
  <2> SUFFICES ASSUME EntriesInv, pc.at = "idle", NEW i \in Slot, Live(i), devices[i].parent # 0
               PROVE  LiveHub(devices[i].parent, devices[i].host)
    BY RelatedParts DEF EntriesHaveHubs, Live, LiveHub
  <2> QED BY DEF EntriesInv, HubsKept, Clearing
<1> QED BY <1>1, RelatedAlways, PTL

\* No two entries of a class stand for the same port, unless an exchange of
\* devices went unseen or a device of no class was on a hub.
THEOREM OneEntryStays == Spec => []OneEntryPerPort
<1>1. Related => OneEntryPerPort
  <2> SUFFICES ASSUME ListInv, Seen PROVE OneEntryPerPort
    BY RelatedParts DEF Seen, OneEntryPerPort
  <2> QED BY DEF ListInv
<1> QED BY <1>1, RelatedAlways, PTL
=============================================================================
