CONSTANTS
  WireCap = 2
  InboxCap = 2
SPECIFICATION Spec
INVARIANTS
  PreSegmentFallback
CHECK_DEADLOCK FALSE
