CONSTANTS
  c1 = c1
  c2 = c2
  Chunks = {c1}
  Uploaders = {u1}
  Announces = {a1}
  AnnounceNames <- MCNamesOne
  QueueCap = 1
  PushRetries = 1
SPECIFICATION FairSpec
PROPERTIES
  ImplementsJobLife
  DrainEnds
  AbortEnds
  HeldAnswered
  UploadersReturn
CHECK_DEADLOCK FALSE
