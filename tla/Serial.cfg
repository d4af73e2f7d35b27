SPECIFICATION FairSpec
CONSTANTS
  Options <- SomeOptions
  Lines <- SomeLines
  Messages <- SomeMessages
  Junk <- SomeJunk
  BufSize = 3
  LineSize = 4
  Shared = TRUE
  MaxCommands = 2
INVARIANTS
  JunkIsFlushed
  AnswerPrinted
  SendsWhatWasTyped
  
PROPERTIES
  CommandEnds
CHECK_DEADLOCK FALSE
