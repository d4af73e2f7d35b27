CONSTANTS
  Modes = {"once", "continuous"}
  Settled = TRUE
  MayFail = TRUE
  MaxSets = 3
SPECIFICATION FairSpec
INVARIANTS OneThreadPerHandler NoCallbackAfterRemove OnceFiresOnce HandlerUsedSafely
PROPERTIES CallsReturn 
CHECK_DEADLOCK FALSE
