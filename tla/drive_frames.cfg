\* Frames of two units, disks changed in the middle of them; every acknowledged write is answered.
SPECIFICATION FairSpec
CONSTANTS
  MaxDrives = 2
  Image = {"sd", "rotx"}
  NoImage = "none"
  Ext <- MCExt
  Size <- MCSize
  ReadOnly <- MCReadOnly
  CardHeader <- MCCardHeader
  Scribble <- MCOneScribble
  ScratchByte = {16}
  Sector = {5, 9}
  FrameUnits = 2
INVARIANTS
  ReadOnlyNeverWritten
  CompletedWriteLanded
PROPERTY
  WriteAnswered
\* the card may be waited for for ever, and handleFormat run away
CHECK_DEADLOCK FALSE
