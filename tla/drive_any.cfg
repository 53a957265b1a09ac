\* Two drives, the menu and the card slot used at any moment, sector 3 being the header of an executable.
SPECIFICATION Spec
CONSTANTS
  MaxDrives = 2
  Image = {"dd", "xex"}
  NoImage = "none"
  Ext <- MCExt
  Size <- MCSize
  ReadOnly <- MCReadOnly
  CardHeader <- MCCardHeader
  Scribble <- MCOneScribble
  ScratchByte = {16}
  Sector = {3}
  FrameUnits = 1
INVARIANTS
  TypeOK
  RowsOwnDrives
  MenuTellsTruth
  NullFileOnlyIfOverwritten
PROPERTY
  OnlyMenuMakesStale

\* the card may be waited for for ever, and handleFormat run away
CHECK_DEADLOCK FALSE
