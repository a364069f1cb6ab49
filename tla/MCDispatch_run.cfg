CONSTANTS
  WireCap = 1
  InboxCap = 1
SPECIFICATION FairSpec
INVARIANTS
  ExitTruthful
  NobodyWaitsInVain
PROPERTIES
  OrphanEnds
  ShimEnds
  SessionEnds
  DeadNotOffered
CHECK_DEADLOCK FALSE
