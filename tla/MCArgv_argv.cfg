CONSTANTS
  Argvs <- MCArgvs
  Bundles <- MCBundles
  MasterFiles <- MCFiles
  Roots <- MCRoots
SPECIFICATION Spec
INVARIANTS
  ArgvFaithful
  SameFrames
CHECK_DEADLOCK FALSE
