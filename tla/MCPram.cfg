SPECIFICATION FairSpec
CONSTANTS
  Words = 2
  Values = {0, 1}
  Nvrs = {"nvr"}
  Others = {"disk", "none"}
  Tick = 2
  Hold = 1
  Settle = 1
  MacWrites = 1
  Menus = 2
  Mounts = 1
INVARIANTS TypeOK CleanMeansSaved
PROPERTIES RefusedIsLeft LateLoadReboots ResetErases ResetIsTaken MenuResetComes BootIsReleased
