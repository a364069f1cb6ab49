CONSTANTS
  Libs = {l1}
  Runs = {r1, r2}
  NoRun = NoRun
  NoDir = NoDir
  Jobs = {j1, j2}
  MaxJobs = 1
  MaxCrashes = 1
SPECIFICATION FairSpec
INVARIANTS
  WaitAnswered
  CacheClean
  VouchedCached
  ActiveKeepsDir
PROPERTIES
  ColdPublishWhole
  LeftoversGo
  RunEnds
