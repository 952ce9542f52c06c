SPECIFICATION FairSpec
CONSTANTS
  Drives = 3
  Used = {0, 1}
  Lba = {0, 1}
  Words = 2
  MountDelay = 6
  Latency = 3
  Requests = 2
  Startup <- MCStartup
  Menu <- MCMenu
  InitialReset = 5
  Boot = 8
  Release = 6
  BusResets = 1
  MenuUses = 1
INVARIANTS ReleasedReady WindowMoves NeverTorn
PROPERTIES RequestsServed
