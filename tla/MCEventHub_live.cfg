CONSTANTS
  Clients = {w1}
  RingSize = 2
  SubBuffer = 8
  MaxLines = 2
SPECIFICATION FairSpec
INVARIANTS
  LinesInOrder
PROPERTIES
  ImplementsEventLog
  LostJobEnds
  StreamEnds
CHECK_DEADLOCK FALSE
