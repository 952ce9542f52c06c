SPECIFICATION FairSpec
CONSTANTS
  SectorBytes = 2
  RingBlocks = 2
  Lba <- MCLba
  Commands <- MCAll
  NoEnd = NoEnd
  Settle = 4
  Polled = FALSE
  Overlap = TRUE
  MaxCommands = 2
  MaxResets = 1
  MaxEmpty = 1
INVARIANTS TypeOK FrontierHolds StatusAfterIO WriteReachesDisk
PROPERTIES WritesStayInRange BusIsFreed
