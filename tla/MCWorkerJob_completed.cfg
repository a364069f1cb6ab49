CONSTANTS
  c1 = c1
  c2 = c2
  Chunks = {c1}
  Uploaders = {u1}
  Announces = {}
  AnnounceNames <- MCNamesOne
  QueueCap = 1
  PushRetries = 0
SPECIFICATION Spec
INVARIANTS
  CompletedUploaded
CHECK_DEADLOCK FALSE
