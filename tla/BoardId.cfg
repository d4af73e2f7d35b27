CONSTANTS
  Boards <- AllBoards
  Fields <- Widths
  MaxWords = 2
  Clocks = 9
  Channels = {0, 1}
  MaxLookups = 2
  MaxTroubles = 1
SPECIFICATION FairSpec
CHECK_DEADLOCK FALSE
INVARIANTS
  
  DriverTellsTruth
PROPERTIES
  LookupEnds
