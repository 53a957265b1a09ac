\* Is an image that is reported write protected left alone by writes?
SPECIFICATION Spec
CONSTANTS
  MaxDrives = 2
  Image = {"sd", "xex"}
  NoImage = "none"
  Ext <- MCExt
  Size <- MCSize
  ReadOnly <- MCReadOnly
  CardHeader <- MCCardHeader
  Scribble <- MCScribble
  ScratchByte = {16}
  Sector = {3}
  FrameUnits = 1
INVARIANT
  WriteProtectHonoured
\* the card may be waited for for ever, and handleFormat run away
CHECK_DEADLOCK FALSE
