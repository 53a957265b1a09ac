SPECIFICATION Spec
CONSTANTS
  NbrProfiles = 2
  c1 = c1
  c2 = c2
  r1 = r1
  o1 = o1
  x1 = x1
  NoFile = NoFile
  Car = {c1, c2}
  Short = {c2}
  Rpd = {r1}
  Other = {x1}
  Os <- OneRom
  Factory <- FactoryContents
  CardOs <- OneRom
  CardOther = {}
  CardFreezer = {}
  SectorBlocks = {0, 1, 4}
  MaxDepth = 1
  MaxSaves = 1
INVARIANT OnlyCoresFlashed
