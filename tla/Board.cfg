CONSTANTS
  Kinds = {"pcd", "pdv", "p11w"}
  Calls <- CallsHere
  Plls <- OnePll
  Frequencies <- SomeFrequencies
  Callers = {1, 2}
  LongCallers = {1}
  MaxShort = 10
  Initial <- NoneOrAll
  Interleaved = FALSE
SPECIFICATION Spec
CHECK_DEADLOCK FALSE
INVARIANTS
  CallsDoWhatTheySay
  NothingLostAlone
  ClockLoaded
  CallsProper
