\* Entries the host has deleted had clusters above 65535.
CONSTANTS
  Names = {"a"}
  Stems <- MCStems
  FileStem <- MCFileStem
  DirStem <- MCDirStem
  CdStem <- MCCdStem
  Dot = "."
  DotDot = ".."
  Texts = {"short"}
  NoText = "none"
  TextLen <- MCTextLen
  SectorSize = 512
  Cut <- MCCut
  Byte = 256
  LastClus = 4
  NSlots = 3
  RootLow = 2
  EditExts = {}
  HighWords = {0, 1}
  HighUnit = 65536
  ResSect = 32
  NumFats = 2
  SPF = 4
  SPC = 1
  MaxCrashes = 0
SPECIFICATION Spec
INVARIANT DirectoryReachable
