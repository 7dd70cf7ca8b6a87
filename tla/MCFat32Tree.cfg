\* Nested directories of three slots that fill up while the FAT runs out, and a power cut between any two sector writes.
CONSTANTS
  Names = {"a"}
  Stems <- MCStems
  FileStem <- MCFileStem
  DirStem <- MCDirStem
  CdStem <- MCCdStem
  Dot = "."
  DotDot = ".."
  Texts = {"short"}
  NoText = "none"
  TextLen <- MCTextLen
  SectorSize = 512
  Cut <- MCCut
  Byte = 256
  LastClus = 4
  NSlots = 3
  RootLow = 2
  EditExts = {"other"}
  HighWords = {0}
  HighUnit = 65536
  ResSect = 32
  NumFats = 2
  SPF = 4
  SPC = 1
  MaxCrashes = 1
SPECIFICATION Spec
INVARIANTS EntryAllocated NoCrossLink NoHiddenEntry Forest DirectoryReachable
PROPERTY EntriesStable
