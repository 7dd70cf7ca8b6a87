\* Every map of three regions of 0, 1 or 16 pages; 23 framebuffers; three kinds of
\* drive with no key or two.
CONSTANTS
  Machines <- MCMachines
  MemMaps <- MCMemMaps
  PageBytes = 2
  IntPages = 33
  Framebuffers <- MCFramebuffers
  PoolSkews = {0, 15}
  DriveKinds = {"good", "failing", "absent"}
  Words = 2
  Lbas = {0, 3}
  Addressable = 2
  Contents <- MCContents
  LineCells = 2
SPECIFICATION BootSpec
INVARIANTS
  InBounds HandedSound PoolSuffices CellsInside PlotExact InStep
  StopsOnlySo Acknowledged PromptClean
PROPERTIES MovesSectors MountsFirstSector BootEnds KeysAnswered
CHECK_DEADLOCK FALSE
