CONSTANTS
  c1 = c1
  c2 = c2
  Chunks = {c1, c2}
  Uploaders = {u1, u2}
  Announces = {a1}
  AnnounceNames <- MCNames
  QueueCap = 1
  PushRetries = 0
SPECIFICATION Spec
SYMMETRY Workers
INVARIANTS
  NoLostWakeup
  ChunkBeforeAnnounce
  UnackedKept
  CompletedAccounted
  PendingExact
  CompletedDrained
PROPERTIES
  ImplementsChunkGate
  NoSendOnClosed
CHECK_DEADLOCK FALSE
