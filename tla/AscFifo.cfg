SPECIFICATION FairSpec
CONSTANTS
  Chans = {"A"}
  Stereo = {FALSE}
  Size = 4
  Byte = {0, 1}
  Div = 4
  Cycle = 3
INVARIANTS TypeOK HoldsWritten
PROPERTIES AsksForMore
