CONSTANTS
  NumBufs = 2
  CountMax = 7
  Counts = {1, 2}
  Starts = {0, 1}
  ResetTo = {0}
  Interrupts = {"timeout", "wakeup"}
  OneThread = TRUE
  MayClose = TRUE
  MaxCaptured = 4
  MaxNumber = 4
SPECIFICATION FairSpec
INVARIANTS ReturnsCompletedBuffer OverrunSound CountsAgree
PROPERTIES  WaitOnStartedEnds
CHECK_DEADLOCK FALSE
