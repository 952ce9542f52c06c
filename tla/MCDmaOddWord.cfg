SPECIFICATION Spec
CONSTANTS
  SectorBytes = 4
  RingBlocks = 2
  Lba <- MCLba
  Commands <- MCWrite
  NoEnd = NoEnd
  MaxEmpty = 0
  Units <- MCOddWords
  LatchDelay = 2
  MinGap = 2
INVARIANTS DmaWritesReachDisk
