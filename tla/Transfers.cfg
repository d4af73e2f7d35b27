CONSTANTS
  MaxBufs = 2
  Numbers = {1, 2}
  Modes = {TRUE}
  ModeWhileMapped = FALSE
  MayAdd = TRUE
  Failures = {"alloc"}
  MaxBlocks = 2
  Sizes = {1, 2}
  Headers = {0, 1}
  Granularity = 1
  MaxHanded = 2
SPECIFICATION SpecTransfers
INVARIANTS  NextBufferInTurn SizesFit
CHECK_DEADLOCK FALSE
