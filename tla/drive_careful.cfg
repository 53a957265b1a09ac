\* Two drives, images of every layout, one whose header claims too much, one too short for a header, a careful user.
SPECIFICATION CarefulSpec
CONSTANTS
  MaxDrives = 2
  Image = {"dd", "xfd", "xex", "atx", "huge", "long", "tiny"}
  NoImage = "none"
  Ext <- MCExt
  Size <- MCSize
  ReadOnly <- MCReadOnly
  CardHeader <- MCCardHeader
  Scribble <- MCScribble
  ScratchByte = {16}
  Sector = {1, 5, 369}
  FrameUnits = 1
INVARIANTS
  AlwaysFits
  TransferFitsBuffer
  FormatStaysInside
  NeverNullFile
  NeverRunsAway
PROPERTY
  ServesDisks
\* the card may be waited for for ever, and handleFormat run away
CHECK_DEADLOCK FALSE
