CONSTANTS
  p1 = p1
  p2 = p2
  a = a
  b = b
  f = f
  NoRec = NoRec
  NoJob = NoJob
  CID = {a, b, f}
  Peer = {p1, p2}
  Node = {n1}
  Worker = {w1}
  Sender = {s1}
  Unpinner = {u1}
  Published <- SharedRoots
  Graph <- Files
  Limit = 1
  PinFiles = TRUE
  Events = {"ban", "sweep"}
SPECIFICATION Spec
SYMMETRY Symmetry
INVARIANTS PinnedIsRecorded ContentRetained
PROPERTIES UnpinSparesRecorded
