CONSTANTS
  a = a
  b = b
  c = c
  Peer = {p1, p2}
  CID <- CIDs
  Graphs <- Found
  Worker = {w1, w2}
  Nobody = Nobody
  NoJob = NoJob
  NoCID = NoCID
  NoAnswer = NoAnswer
SPECIFICATION Spec
SYMMETRY Symmetry
INVARIANTS TypeOK RowsFromOneCrawl
PROPERTIES OneStep
