\* What does a format write?
SPECIFICATION Spec
CONSTANTS
  MaxDrives = 2
  Image = {"xfd"}
  NoImage = "none"
  Ext <- MCExt
  Size <- MCSize
  ReadOnly <- MCReadOnly
  CardHeader <- MCCardHeader
  Scribble <- MCScribble
  ScratchByte = {16}
  Sector = {3}
  FrameUnits = 1
INVARIANT
  FormatFillsWithZeros
\* the card may be waited for for ever, and handleFormat run away
CHECK_DEADLOCK FALSE
