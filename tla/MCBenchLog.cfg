SPECIFICATION Spec
CONSTANTS
  SectorBytes = 2
  BatchSectors = 2
  FileBatches = 2
  LineLengths = {1, 3}
  Tests = 5
INVARIANTS LinesDurable NeverElsewhere
PROPERTIES NothingUnwritten
CHECK_DEADLOCK FALSE
