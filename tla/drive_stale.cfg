\* Two drives, menu at any moment: is every image served by its own layout?
SPECIFICATION Spec
CONSTANTS
  MaxDrives = 2
  Image = {"dd", "xfd"}
  NoImage = "none"
  Ext <- MCExt
  Size <- MCSize
  ReadOnly <- MCReadOnly
  CardHeader <- MCCardHeader
  Scribble <- MCScribble
  ScratchByte = {16}
  Sector = {5}
  FrameUnits = 1
INVARIANT
  ServedByOwnLayout
\* the card may be waited for for ever, and handleFormat run away
CHECK_DEADLOCK FALSE
