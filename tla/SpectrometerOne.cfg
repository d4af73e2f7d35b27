SPECIFICATION FairSpec
CONSTANTS
  Workers = {w1}
  Shapes <- VaryingShapes
  GarbageSizes = {1}
  Cursors = {0, 5}
  QueueSize = 1
  MaxFrames = 3
INVARIANTS
  TypeOK
  
  
  PacketOfItsFrame

  
