CONSTANTS
  MaxBufs = 3
  Numbers = {1, 2}
  Modes = {TRUE, FALSE}
  ModeWhileMapped = FALSE
  MayAdd = TRUE
  Failures = {"alloc", "attach", "map"}
  MaxBlocks = 3
SPECIFICATION Spec
INVARIANTS  ConfiguredRingUsable CloseReleases
CHECK_DEADLOCK FALSE
