SPECIFICATION FairSpec
CONSTANTS
  SectorBytes = 4
  RingBlocks = 2
  Lba <- MCLba
  Commands <- MCBoth
  NoEnd = NoEnd
  MaxEmpty = 0
  Units <- MCEven
  LatchDelay = 2
  MinGap = 2
INVARIANTS TypeOK DmaReadsServeDisk DmaWritesReachDisk DmaCountsAgree IrqMeansMoved
PROPERTIES TransferEnds
