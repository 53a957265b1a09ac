\* Two root ports, a hub on a hub, a device of two sticks, a single stick and a device of no class,
\* plugged and unplugged four times.
SPECIFICATION FairSpec
CONSTANTS
  PollOrder <- MCPollOrder
  Gadget = {"outer", "inner", "pair", "stick", "odd"}
  NoGadget = "none"
  Kind <- MCKind
  Sticks <- MCSticks
  NbrPorts <- MCNbrPorts
  Fits <- MCFits
  USB_NUMDEVICES = 4
  MaxPlugs = 4
INVARIANTS
  TypeOK
  SticksNumbered
  OneAtAddressZero
  FlagHasReset
  EntriesHaveHubs
  OneEntryPerPort
PROPERTY
  PluggedIsServed
