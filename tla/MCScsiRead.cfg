SPECIFICATION Spec
CONSTANTS
  SectorBytes = 2
  RingBlocks = 2
  Lba <- MCLba
  Commands <- MCReads
  NoEnd = NoEnd
  Settle = 4
  Polled = TRUE
  Overlap = FALSE
  MaxCommands = 3
  MaxResets = 1
  MaxEmpty = 0
INVARIANTS RingNotOverrun ReadServesDisk CountsAgree
PROPERTIES RequestsStayInRange
