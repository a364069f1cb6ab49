CONSTANTS
  Jobs = {j1, j2}
  Dirs = {d1}
  Puts = {p1, p2}
  Blocks = 2
  MaxRegs = 1
  MaxCloses = 1
  MaxRestarts = 0
SPECIFICATION Spec
PROPERTIES
  AckIsGroundTruth
CHECK_DEADLOCK FALSE
