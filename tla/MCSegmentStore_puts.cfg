CONSTANTS
  Jobs = {j1, j2}
  Dirs = {d1}
  Puts = {p1, p2}
  Blocks = 2
  MaxRegs = 2
  MaxCloses = 1
  MaxRestarts = 1
SPECIFICATION Spec
SYMMETRY Symmetric
INVARIANTS
  FinalIsWhole
  TombstoneJustified
  TmpCleaned
PROPERTIES
  AckLeavesChunk
  GoneIsFinal
CHECK_DEADLOCK FALSE
