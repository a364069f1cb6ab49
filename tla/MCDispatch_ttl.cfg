CONSTANTS
  WireCap = 2
  InboxCap = 2
SPECIFICATION Spec
PROPERTIES
  TTLOnlyVanished
CHECK_DEADLOCK FALSE
