CONSTANTS
  Clients = {w1, w2}
  RingSize = 1
  SubBuffer = 7
  MaxLines = 1
SPECIFICATION Spec
SYMMETRY Requests
INVARIANTS
  StatesComplete
  SnapshotFits
PROPERTIES
  LostUnattended
CHECK_DEADLOCK FALSE
