CONSTANTS
  p1 = p1
  p2 = p2
  a = a
  b = b
  f = f
  NoRec = NoRec
  NoJob = NoJob
  CID = {a, b, f}
  Peer = {p1, p2}
  Node = {n1, n2}
  Worker = {w1, w2}
  Sender = {s1}
  Unpinner = {}
  Published <- SharedRoots
  Graph <- Files
  Limit = 1
  PinFiles = TRUE
  Events = {}
SPECIFICATION Spec
SYMMETRY Symmetry
INVARIANTS PinnedIsRecorded ContentRetained
PROPERTIES UnpinSparesRecorded CrawlsAreAtomic
