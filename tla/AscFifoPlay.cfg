SPECIFICATION Spec
CONSTANTS
  Chans = {"A", "B"}
  Stereo = {FALSE, TRUE}
  Size = 4
  Byte = {0, 1}
  Div = 4
  Cycle = 3
INVARIANTS PlaysOldest
