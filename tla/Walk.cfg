CONSTANTS
  CID <- Nodes
  Root = 1
  Graphs <- Acyclic
  NoCID = NoCID
  N = 4
SPECIFICATION WalkFairSpec
INVARIANTS WalkTypeOK Complete LoadsWithinPaths
PROPERTIES WalksTheGraph EndsOrHangs
CHECK_DEADLOCK FALSE
