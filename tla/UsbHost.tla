------------------------------ MODULE UsbHost ------------------------------
(***************************************************************************)
(* The USB host of the firmware: the table of devices and the states of a  *)
(* root port (usb/usb.c), hubs (usb/hub.c) and the numbers of joysticks    *)
(* (usb/hid.c, rotate_usb_sticks in main.h).                               *)
(*                                                                         *)
(* usb_poll is called from the loops of the firmware.  Whoever sits at the *)
(* machine plugs and unplugs at any moment, also between two transfers of  *)
(* one poll, so a poll takes a step for each port that it looks at and for *)
(* each device that it releases.  A hub remembers what changed at a port   *)
(* until the change is cleared; the firmware knows an event only by all    *)
(* bits of status and change together.                                     *)
(*                                                                         *)
(* Report contents, speeds and timers are left out: a timer may have       *)
(* elapsed or not whenever the code asks.                                  *)
(***************************************************************************)
EXTENDS Integers, Sequences, FiniteSetsExt

CONSTANTS
  PollOrder,       \* the root ports, in the order in which they are polled
  Gadget,          \* the devices that are plugged
  NoGadget,
  Kind,            \* Gadget -> "hub", "hid" or "other", what its descriptors say
  Sticks,          \* Gadget -> its joystick interfaces, at most MAX_IFACES
  NbrPorts,        \* Gadget -> the ports of a hub
  Fits,            \* Gadget -> the sockets it may be plugged into
  USB_NUMDEVICES,
  MaxPlugs         \* bound: how often something is plugged or unplugged

MAX_IFACES == 2

Slot == 1 .. USB_NUMDEVICES     \* the address of devices[i] is i + 1
Hub  == {g \in Gadget : Kind[g] = "hub"}

Host == {PollOrder[k] : k \in DOMAIN PollOrder}

\* Where a device can be: a root port, or a port of a hub.
Root   == Host \X {0}
Port   == UNION {{g} \X (1 .. NbrPorts[g]) : g \in Hub}
Socket == Root \cup Port

ASSUME UsbAssumption ==
  /\ PollOrder \in Seq(Host) \ {<<>>} /\ NoGadget \notin Gadget /\ Host \cap Gadget = {}
  /\ Kind \in [Gadget -> {"hub", "hid", "other"}]
  /\ Sticks \in [Gadget -> 0 .. MAX_IFACES]
  /\ \A g \in Gadget : Kind[g] # "hid" => Sticks[g] = 0
  /\ NbrPorts \in [Gadget -> Nat]
  /\ \A g \in Gadget : Fits[g] \subseteq Socket
  /\ USB_NUMDEVICES \in Nat /\ MaxPlugs \in Nat

VARIABLES
  \* the devices and their wiring
  socket,          \* Socket -> the device in it
  power,           \* Hub -> it has been configured and powers its ports
  port,            \* Port -> [enabled, reset, cConnection, cReset]
  addr,            \* Gadget -> the address it answers to
  \* usb.c
  devices,         \* Slot -> [used, host, parent, port, class, gadget, jindex]
  task,            \* Host -> usb_task_state
  pc,              \* where usb_poll is
  \* hub.c, hid.c
  bResetInitiated,
  joysticks,
  \* what has happened
  past             \* [plugs, lapse, swapped, stray, moved, leaked]

wiring == <<socket, power, port, addr>>
vars == <<socket, power, port, addr, devices, task, pc, bResetInitiated, joysticks, past>>

Quiet == [enabled |-> FALSE, reset |-> FALSE, cConnection |-> FALSE, cReset |-> FALSE]
Unused == [used |-> FALSE, host |-> PollOrder[1], parent |-> 0, port |-> 0,
           class |-> "none", gadget |-> NoGadget, jindex |-> <<>>]

\* Between two calls of usb_poll, the next for the k-th port
Idle(k) == [at |-> "idle", turn |-> k, host |-> PollOrder[k], slot |-> 1, ports |-> {}, stack |-> <<>>]

\* usb_init
Init ==
  /\ socket = [s \in Socket |-> NoGadget]
  /\ power = [g \in Hub |-> FALSE]
  /\ port = [s \in Port |-> Quiet]
  /\ addr = [g \in Gadget |-> 0]
  /\ devices = [i \in Slot |-> Unused]
  /\ task = [h \in Host |-> "initialize"]
  /\ pc = Idle(1)
  /\ bResetInitiated = FALSE
  /\ joysticks = 0
  /\ past = [plugs |-> 0, lapse |-> FALSE, swapped |-> FALSE, stray |-> FALSE,
             moved |-> FALSE, leaked |-> 0]

-----------------------------------------------------------------------------
(* The wiring.                                                             *)

\* The hubs that lose their power with hub g: itself and what hangs on it.
Below(g) ==
  {x \in Hub : \A S \in SUBSET Hub :
      g \in S /\ (\A s \in Port : s[1] \in S /\ socket[s] \in Hub => socket[s] \in S) => x \in S}

\* Power goes off at the hubs off, and the devices gone forget their addresses.
Powerless(off, gone, ports) ==
  /\ power' = [g \in Hub |-> power[g] /\ g \notin off]
  /\ port' = [s \in Port |-> IF s[1] \in off THEN Quiet ELSE ports[s]]
  /\ addr' = [g \in Gadget |-> IF g \in gone \/ \E s \in Port : s[1] \in off /\ socket[s] = g
                               THEN 0 ELSE addr[g]]

\* A device can be spoken to: all ports up to the root are enabled.
Reachable(g) ==
  \E s \in Socket : socket[s] = g /\ (s \in Root \/ (power[s[1]] /\ port[s].enabled))

HostOf(g) == {h \in Host : socket[<<h, 0>>] = g \/ \E r \in Hub : socket[<<h, 0>>] = r /\ g \in
                {socket[s] : s \in {x \in Port : x[1] \in Below(r)}}}

\* The devices on the bus of host h that answer to address a.
Answering(h, a) == {g \in Gadget : Reachable(g) /\ addr[g] = a /\ h \in HostOf(g)}

\* What was last in socket s has gone and usb_poll has not seen it.
Unnoticed(s) == IF s \in Port THEN power[s[1]] /\ port[s].cConnection
                ELSE task[s[1]] \notin {"initialize", "wait"}

Plug(g, s) ==
  /\ past.plugs < MaxPlugs
  /\ s \in Fits[g] /\ socket[s] = NoGadget /\ \A x \in Socket : socket[x] # g
  /\ socket' = [socket EXCEPT ![s] = g]
  /\ port' = IF s \in Port /\ power[s[1]] THEN [port EXCEPT ![s].cConnection = TRUE] ELSE port
  /\ past' = [past EXCEPT !.plugs = @ + 1, !.swapped = @ \/ Unnoticed(s)]
  /\ UNCHANGED <<power, addr, devices, task, pc, bResetInitiated, joysticks>>

Unplug(s) ==
  /\ past.plugs < MaxPlugs
  /\ socket[s] # NoGadget
  /\ socket' = [socket EXCEPT ![s] = NoGadget]
  /\ LET g == socket[s]
         left == IF s \in Port /\ power[s[1]]
                 THEN [port EXCEPT ![s].cConnection = TRUE, ![s].enabled = FALSE, ![s].reset = FALSE]
                 ELSE port
     IN Powerless(IF g \in Hub THEN Below(g) ELSE {}, {g}, left)
  /\ past' = [past EXCEPT !.plugs = @ + 1, !.lapse = @ \/ bResetInitiated]
  /\ UNCHANGED <<devices, task, pc, bResetInitiated, joysticks>>

\* A hub has reset a port.
ResetDone(s) ==
  /\ s \in Port /\ port[s].reset
  /\ LET g == socket[s] IN
       Powerless(IF g \in Hub THEN Below(g) ELSE {}, {g},
                 [port EXCEPT ![s] = [@ EXCEPT !.enabled = TRUE, !.reset = FALSE, !.cReset = TRUE]])
  /\ UNCHANGED <<socket, devices, task, pc, bResetInitiated, joysticks, past>>
-----------------------------------------------------------------------------
(* Joysticks.                                                              *)

\* The interfaces that have a number, and the numbers.
Iface == {x \in Slot \X (1 .. MAX_IFACES) :
             LET e == devices[x[1]] IN e.used /\ e.class = "hid" /\ x[2] <= Len(e.jindex)}
NumberOf(x) == devices[x[1]].jindex[x[2]]

\* usb_hid_release, for the first interface of entry i that is left: the
\* numbers above go down.
LoweredMutant(seq, c) == [k \in DOMAIN seq |-> seq[k] - 1]

Lowered(seq, c) == [k \in DOMAIN seq |-> IF seq[k] > c THEN seq[k] - 1 ELSE seq[k]]

RenumberedMutant(i) == [devices EXCEPT ![i].jindex = Tail(@)]

Renumbered(i) ==
  LET c == Head(devices[i].jindex)
      lower(j) == IF devices[j].used /\ devices[j].class = "hid"
                  THEN Lowered(devices[j].jindex, c) ELSE devices[j].jindex
  IN [j \in Slot |-> [devices[j] EXCEPT !.jindex = IF j = i THEN Tail(lower(i)) ELSE lower(j)]]

\* rotate_usb_sticks, from the menu; a lone stick may be the first or second
Rotate ==
  LET top == IF joysticks = 1 THEN 1 ELSE joysticks - 1
      turn(n) == IF n + 1 > top THEN 0 ELSE n + 1
  IN /\ pc.at = "idle" /\ Iface # {}
     /\ devices' = [i \in Slot |->
          IF devices[i].used /\ devices[i].class = "hid"
          THEN [devices[i] EXCEPT !.jindex = [k \in DOMAIN @ |-> turn(@[k])]] ELSE devices[i]]
     /\ past' = [past EXCEPT !.moved = @ \/ joysticks = 1]
     /\ UNCHANGED <<wiring, task, pc, bResetInitiated, joysticks>>
-----------------------------------------------------------------------------
(* usb_configure.                                                          *)

Free == {i \in Slot : ~devices[i].used}

\* The class whose init accepts g
ClassOf(g) == IF Kind[g] = "other" THEN "none" ELSE Kind[g]

Outcome == {"full", "deaf", "failed", "done"}

\* hid_get_report_descr gives the joystick interfaces of g their numbers.
Numbers(n) == [k \in 1 .. n |-> joysticks + k - 1]

\* w[p] is the hub's port or the root port, and ports the registers before.
\* The outcomes of usb_configure: "full", no entry is free; "deaf", no answer
\* to SET_ADDRESS; "failed", a transfer of a class's init fails after n of the
\* joystick interfaces have their numbers; "done".
Configure(h, w, parent, p, ports, outcome, n) ==
  LET i == Min(Free)
      g == socket[<<w, p>>]
      entry == [Unused EXCEPT !.host = h, !.parent = parent, !.port = p]
      takes(x) == x \in Answering(h, 0)
  IN /\ UNCHANGED socket
     /\ \/ /\ n = 0
           /\ \/ outcome = "full" /\ Free = {} /\ devices' = devices
              \/ outcome = "deaf" /\ Free # {} /\ devices' = [devices EXCEPT ![i] = entry]
           /\ port' = ports
           /\ past' = [past EXCEPT !.lapse = TRUE]
           /\ UNCHANGED <<power, addr, joysticks>>
        \/ /\ Free # {} /\ g \in Answering(h, 0)
           /\ addr' = [x \in Gadget |-> IF takes(x) THEN i ELSE addr[x]]
           /\ joysticks' = joysticks + n
           /\ \/ /\ outcome = "failed" /\ n <= Sticks[g]
                 /\ devices' = [devices EXCEPT ![i] = [entry EXCEPT !.used = TRUE, !.gadget = g]]
                 /\ past' = [past EXCEPT !.lapse = TRUE, !.leaked = @ + n]
                 /\ port' = ports
                 /\ UNCHANGED power
              \/ /\ outcome = "done" /\ n = Sticks[g]
                 /\ devices' = [devices EXCEPT ![i] =
                      [entry EXCEPT !.used = TRUE, !.gadget = g, !.class = ClassOf(g),
                                    !.jindex = Numbers(n)]]
                 /\ power' = [x \in Hub |-> power[x] \/ x = g]
                 /\ port' = [s \in Port |-> IF s[1] = g
                                THEN [Quiet EXCEPT !.cConnection = socket[s] # NoGadget] ELSE ports[s]]
                 /\ past' = [past EXCEPT !.stray = @ \/ (ClassOf(g) = "none" /\ parent # 0)]
-----------------------------------------------------------------------------
(* usb_poll.                                                               *)

\* The register of the root port overrides the task's state.
Connected(h) == socket[<<h, 0>>] # NoGadget

UsbPoll ==
  /\ pc.at = "idle"
  /\ task' = [task EXCEPT ![pc.host] =
       IF ~Connected(pc.host) THEN IF @ = "wait" THEN @ ELSE "initialize"
       ELSE IF @ \in {"initialize", "wait"} THEN "settle" ELSE @]
  /\ pc' = [pc EXCEPT !.at = "devices"]
  /\ UNCHANGED <<wiring, devices, bResetInitiated, joysticks, past>>

HubEntry(i) == devices[i].used /\ devices[i].class = "hub" /\ devices[i].host = pc.host

\* The hub at address i answers; ports that have changed are in its report.
Answers(i) == devices[i].gadget \in Answering(pc.host, i)
Changed(i) == {p \in 1 .. NbrPorts[devices[i].gadget] :
                 LET s == port[<<devices[i].gadget, p>>] IN s.cConnection \/ s.cReset}

\* The next entry that has something to do.  The entries before it are no
\* hubs, not due, or without news; usb_hid_poll's reports are left out.
PollHub(i) ==
  /\ pc.at = "devices" /\ i >= pc.slot
  /\ HubEntry(i) /\ Answers(i) /\ Changed(i) # {}
  /\ pc' = [pc EXCEPT !.at = "changed", !.slot = i, !.ports = Changed(i)]
  /\ UNCHANGED <<wiring, devices, task, bResetInitiated, joysticks, past>>

NextDevice == [pc EXCEPT !.at = "devices", !.slot = @ + 1, !.ports = {}]

\* usb_hub_check_hub_status is at port p of the hub.  It went past the ports
\* before: their bits are no event, or their status could not be read.
ThisHub    == devices[pc.slot].gadget
Register(p) == port[<<ThisHub, p>>]
Occupied(p) == socket[<<ThisHub, p>>] # NoGadget
PortStatus(p) == pc.at \in {"changed", "disabled"} /\ p \in pc.ports /\ Answers(pc.slot)
Past(p) == [pc EXCEPT !.ports = {q \in @ : q > p}]

\* The second loop makes a connection event of a port that is merely disabled.
ConnectEvent(p) ==
  /\ Occupied(p) /\ ~Register(p).enabled /\ ~Register(p).reset /\ ~Register(p).cReset
  /\ pc.at = "changed" => Register(p).cConnection
DisconnectEvent(p) ==
  pc.at = "changed" /\ ~Occupied(p) /\ Register(p).cConnection /\ ~Register(p).cReset
ResetEvent(p) ==
  /\ pc.at = "changed" /\ Occupied(p)
  /\ Register(p).enabled /\ Register(p).cReset /\ ~Register(p).cConnection

\* One port is reset at a time, on all hubs of all hosts.
MayResetMutant == TRUE
MayReset == ~bResetInitiated

ResetOverMutant == UNCHANGED bResetInitiated
ResetOver == bResetInitiated' = FALSE

\* USB_HUB_PORT_EVENT_CONNECT; ok: the request to reset reached the hub, whose
\* answer is not looked at
ResetPort(p, ok) ==
  /\ PortStatus(p) /\ ConnectEvent(p) /\ MayReset
  /\ port' = [port EXCEPT ![<<ThisHub, p>>].cConnection = FALSE, ![<<ThisHub, p>>].reset = ok]
  /\ bResetInitiated' = TRUE
  /\ pc' = NextDevice
  /\ past' = [past EXCEPT !.lapse = @ \/ ~ok]
  /\ UNCHANGED <<socket, power, addr, devices, task, joysticks>>

\* The entries that usb_release_device looks for
MatchMutant(parent, p) == {i \in Slot : devices[i].used /\ devices[i].parent = parent
                             /\ devices[i].port = p - 1 /\ devices[i].host = pc.host}
Match(parent, p) == {i \in Slot : devices[i].used /\ devices[i].parent = parent
                       /\ devices[i].port = p /\ devices[i].host = pc.host}

\* USB_HUB_PORT_EVENT_DISCONNECT
PortEmptied(p) ==
  LET gone == Match(pc.slot, p)
  IN /\ PortStatus(p) /\ DisconnectEvent(p)
     /\ port' = [port EXCEPT ![<<ThisHub, p>>].cConnection = FALSE]
     /\ ResetOver
     /\ pc' = IF gone = {} THEN Past(p)
              ELSE [Past(p) EXCEPT !.at = "release", !.stack = <<Min(gone)>>]
     /\ past' = [past EXCEPT !.lapse = @ \/ bResetInitiated]
     /\ UNCHANGED <<socket, power, addr, devices, task, joysticks>>

\* USB_HUB_PORT_EVENT_RESET_COMPLETE
PortReset(p, outcome, n) ==
  /\ PortStatus(p) /\ ResetEvent(p)
  /\ Configure(pc.host, ThisHub, pc.slot, p, [port EXCEPT ![<<ThisHub, p>>].cReset = FALSE], outcome, n)
  /\ ResetOver
  /\ pc' = Past(p)
  /\ UNCHANGED task

\* The end of either loop
LoopEnds ==
  /\ pc.at \in {"changed", "disabled"}
  /\ pc' = IF pc.at = "changed" THEN [pc EXCEPT !.at = "disabled", !.ports = 1 .. NbrPorts[ThisHub]]
           ELSE NextDevice
  /\ UNCHANGED <<wiring, devices, task, bResetInitiated, joysticks, past>>
-----------------------------------------------------------------------------
(* usb_release_device, its stack of entries whose children go first.       *)

Top  == Head(pc.stack)
KidsMutant == {}
Kids == {j \in Slot : devices[j].parent = Top /\ devices[j].host = pc.host
                        /\ Match(Top, devices[j].port) # {}}

ReleaseKid ==
  /\ pc.at = "release" /\ Kids # {}
  /\ pc' = [pc EXCEPT !.stack = <<Min(Match(Top, devices[Min(Kids)].port))>> \o @]
  /\ UNCHANGED <<wiring, devices, task, bResetInitiated, joysticks, past>>

\* usb_hid_release for an interface, then the entry
ReleaseStick(i) ==
  /\ devices[i].class = "hid" /\ devices[i].jindex # <<>>
  /\ devices' = Renumbered(i)
  /\ joysticks' = joysticks - 1
  /\ UNCHANGED <<wiring, task, pc, bResetInitiated, past>>

ReleaseDevice ==
  /\ pc.at = "release" /\ Kids = {}
  /\ \/ ReleaseStick(Top)
     \/ /\ devices[Top].jindex = <<>>
        /\ devices' = [devices EXCEPT ![Top].used = FALSE]
        /\ pc' = IF Len(pc.stack) = 1 THEN [pc EXCEPT !.at = "changed", !.stack = <<>>]
                 ELSE [pc EXCEPT !.stack = Tail(@)]
        /\ UNCHANGED <<wiring, task, bResetInitiated, joysticks, past>>
-----------------------------------------------------------------------------
(* The states of the root port, once all devices are polled.               *)

\* Nothing is left to do for the entries that follow.
AllPolled == pc.at = "devices"

Goes(from, to) ==
  /\ AllPolled /\ task[pc.host] = from
  /\ task' = [task EXCEPT ![pc.host] = to]
  /\ pc' = Idle((pc.turn % Len(PollOrder)) + 1)     \* update_keys polls one after the other

\* USB_DETACHED_SUBSTATE_INITIALIZE: devices of no class stay.
Doomed == {i \in Slot : devices[i].used /\ devices[i].class # "none" /\ devices[i].host = pc.host}

Initialize ==
  \/ /\ AllPolled /\ task[pc.host] = "initialize" /\ Doomed # {}
     /\ \/ ReleaseStick(Min(Doomed))
        \/ /\ devices[Min(Doomed)].jindex = <<>>
           /\ devices' = [devices EXCEPT ![Min(Doomed)].used = FALSE]
           /\ UNCHANGED <<wiring, task, pc, bResetInitiated, joysticks, past>>
  \/ /\ Doomed = {} /\ Goes("initialize", "wait")
     /\ UNCHANGED <<wiring, devices, bResetInitiated, joysticks, past>>

\* A timer is running, or there is nothing to do.
TaskIdle ==
  /\ task[pc.host] \in {"wait", "settle", "reset", "running"}
  /\ Goes(task[pc.host], task[pc.host])
  /\ UNCHANGED <<wiring, devices, bResetInitiated, joysticks, past>>

Settled ==
  /\ Goes("settle", "reset")
  /\ UNCHANGED <<wiring, devices, bResetInitiated, joysticks, past>>

\* The bus was reset, for whoever is there now.
ResetBus ==
  /\ Goes("reset", "configuring")
  /\ LET g == socket[<<pc.host, 0>>] IN
       IF g = NoGadget THEN UNCHANGED <<power, port, addr>>
       ELSE Powerless(IF g \in Hub THEN Below(g) ELSE {}, {g}, port)
  /\ UNCHANGED <<socket, devices, bResetInitiated, joysticks, past>>

Configuring(outcome, n) ==
  /\ Goes("configuring", "running")
  /\ Configure(pc.host, pc.host, 0, 0, port, outcome, n)
  /\ UNCHANGED bResetInitiated
-----------------------------------------------------------------------------
HubPort == UNION {1 .. NbrPorts[g] : g \in Hub}

Next ==
  \/ \E g \in Gadget, s \in Socket : Plug(g, s)
  \/ \E s \in Socket : Unplug(s) \/ ResetDone(s)
  \/ Rotate
  \/ UsbPoll
  \/ \E i \in Slot : PollHub(i)
  \/ \E p \in HubPort :
       \/ \E ok \in BOOLEAN : ResetPort(p, ok)
       \/ PortEmptied(p)
       \/ \E outcome \in Outcome, n \in 0 .. MAX_IFACES : PortReset(p, outcome, n)
  \/ LoopEnds \/ ReleaseKid \/ ReleaseDevice
  \/ Initialize \/ TaskIdle \/ Settled \/ ResetBus
  \/ \E outcome \in Outcome, n \in 0 .. MAX_IFACES : Configuring(outcome, n)

\* The loops of the firmware call usb_poll for both ports for ever; a timer
\* elapses and a device answers if asked again and again.
Polls ==
  \/ UsbPoll \/ LoopEnds \/ ReleaseKid \/ ReleaseDevice \/ Initialize \/ TaskIdle
  \/ \E outcome \in Outcome, n \in 0 .. MAX_IFACES : Configuring(outcome, n)
Fairness ==
  /\ WF_vars(Polls)
  /\ SF_vars(Settled \/ ResetBus)
  /\ \A i \in Slot : SF_vars(PollHub(i))
  /\ WF_vars(\E s \in Socket : ResetDone(s))
  /\ SF_vars(\E p \in HubPort : ResetPort(p, TRUE))
  /\ SF_vars(\E p \in HubPort : PortEmptied(p))
  /\ SF_vars(\E p \in HubPort, outcome \in Outcome, n \in 0 .. MAX_IFACES : PortReset(p, outcome, n))

Spec == Init /\ [][Next]_vars
FairSpec == Spec /\ Fairness
-----------------------------------------------------------------------------
(* Properties.                                                             *)

Entry == [used : BOOLEAN, host : Host, parent : 0 .. USB_NUMDEVICES, port : Nat,
          class : {"none", "hub", "hid"}, gadget : Gadget \cup {NoGadget}, jindex : Seq(Nat)]

PortRegister == [enabled : BOOLEAN, reset : BOOLEAN, cConnection : BOOLEAN, cReset : BOOLEAN]

TypeOK ==
  /\ socket \in [Socket -> Gadget \cup {NoGadget}]
  /\ power \in [Hub -> BOOLEAN]
  /\ port \in [Port -> PortRegister]
  /\ addr \in [Gadget -> 0 .. USB_NUMDEVICES]
  /\ devices \in [Slot -> Entry]
  /\ task \in [Host -> {"initialize", "wait", "settle", "reset", "configuring", "running"}]
  /\ bResetInitiated \in BOOLEAN
  /\ joysticks \in Nat
  /\ past \in [plugs : Nat, lapse : BOOLEAN, swapped : BOOLEAN, stray : BOOLEAN,
              moved : BOOLEAN, leaked : Nat]

\* However sticks come, go, fail to be initialised and are rotated, the count
\* of sticks is right, but for numbers lost in failed initialisations; and the
\* numbers are distinct and below the count unless a lone stick was rotated.
SticksNumbered ==
  /\ Cardinality(Iface) = joysticks - past.leaked
  /\ ~past.moved => /\ \A x, y \in Iface : NumberOf(x) = NumberOf(y) => x = y
                    /\ \A x \in Iface : NumberOf(x) < joysticks

\* What bResetInitiated is for: no two devices on a bus listen to address 0,
\* unless a device left while a reset was under way or was not initialised.
OneAtAddressZero == ~past.lapse => \A h \in Host : Cardinality(Answering(h, 0)) <= 1

\* The flag does not outlive the reset that it stands for, unless a device or a
\* hub left while a reset was under way, a reset did not reach its hub, or a
\* device failed to be initialised (past.lapse).
FlagHasReset ==
  bResetInitiated /\ ~past.lapse => \E s \in Port : port[s].reset \/ port[s].cReset

\* No entry outlives its hub.
EntriesHaveHubs ==
  pc.at = "idle" =>
    \A i \in Slot : devices[i].used /\ devices[i].class # "none" /\ devices[i].parent # 0 =>
      /\ devices[devices[i].parent].used /\ devices[devices[i].parent].class = "hub"
      /\ devices[devices[i].parent].host = devices[i].host

\* No two entries stand for one port, unless one device was exchanged for
\* another unseen; or a device of no class was on a hub, whose entry stays and
\* may be released in place of a later one; or a device failed to be
\* initialised or left during a reset (past.lapse).
OneEntryPerPort ==
  ~past.lapse /\ ~past.swapped /\ ~past.stray =>
    \A i, j \in Slot :
      /\ devices[i].used /\ devices[i].class # "none" /\ devices[j].used /\ devices[j].class # "none"
      /\ devices[i].host = devices[j].host /\ devices[i].parent = devices[j].parent
      /\ devices[i].port = devices[j].port
      => i = j

\* Once nobody plugs or unplugs, all that is plugged comes to be configured
\* and stays so, unless a transfer failed, an exchange went unseen, or a device
\* left while a reset was under way: then the code makes no promise.
Plugged(g) == HostOf(g) # {}
Configured(g) == \E i \in Slot : devices[i].used /\ devices[i].gadget = g /\ addr[g] = i
                                   /\ devices[i].class = ClassOf(g)
PluggedIsServed ==
  <>[](past.lapse \/ past.swapped \/ \A g \in Gadget : Plugged(g) => Configured(g))
=============================================================================
