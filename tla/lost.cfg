SPECIFICATION Spec
CONSTANTS
  Handle = {h1, h2}
  File = {"A", "B"}
  NoFile = "none"
  Bytes <- MCBytes
  ReadOnlyFile <- MCReadOnlyFile
  Byte = {"new"}
  OldByte = "old"
  MetaByte = "meta"
  SecSize = 2
  csize = 1
  Offset = {0, 3}
  Count = {1, 3}
  MaxWritten = 0
PROPERTY SeekLosesNothing
CHECK_DEADLOCK FALSE
