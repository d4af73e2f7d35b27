CONSTANTS
  Codes = {0, 1, 2}
  Delays = {4, 5, 6}
  Ticks = {1, 3}
  Lossy = {2, 3}
  Patient = TRUE
  QueueSize = 2
  MaxWrites = 4
SPECIFICATION FairSpec
 
PROPERTIES CodesConverge DelaysConverge
CHECK_DEADLOCK FALSE
