\* Two names, one cut short, and four texts: longer than a byte can say and than a sector can hold; directories of two slots.
CONSTANTS
  Names = {"a", "documents"}
  Stems <- MCStems
  FileStem <- MCFileStem
  DirStem <- MCDirStem
  CdStem <- MCCdStem
  Dot = "."
  DotDot = ".."
  Texts = {"short", "long", "sector", "huge"}
  NoText = "none"
  TextLen <- MCTextLen
  SectorSize = 512
  Cut <- MCCut
  Byte = 256
  LastClus = 4
  NSlots = 2
  RootLow = 2
  EditExts = {"other"}
  HighWords = {0}
  HighUnit = 65536
  ResSect = 32
  NumFats = 2
  SPF = 4
  SPC = 1
  MaxCrashes = 0
SPECIFICATION Spec
INVARIANTS SizeMatchesText
PROPERTIES OnlyNamedFileChanges
