SPECIFICATION FairSpec
CONSTANTS
  Workers = {w1, w2}
  Shapes <- OneShape
  GarbageSizes = {0}
  Cursors = {1}
  QueueSize = 1
  MaxFrames = 2
INVARIANTS
  LockDiscipline
PROPERTIES
  
  EveryFrameLeaves
