SPECIFICATION FairSpec
CONSTANTS
  Rows = {0, 1}
  Columns = {0, 1, 2}
  Lanes = {"upper", "lower"}
  Values = {0, 1}
  Ram <- MCRam
  Rom <- MCRom
  Video <- MCVideo
  Disk <- MCDisk
  Io <- MCIo
  Data <- MCData
  Images <- MCImages
INVARIANTS TypeOK OwnedSlotInTime NoPhantomWrite
PROPERTIES ImplementsAtomicMemory OnlyTheTargetChanges CycleEnds
