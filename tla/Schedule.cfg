CONSTANTS
  p1 = p1
  p2 = p2
  a = a
  b = b
  f = f
  NoRec = NoRec
  NoJob = NoJob
  CID = {a, b, f}
  Peer = {p1}
  Node = {n1}
  Worker = {w1}
  Sender = {s1}
  Unpinner = {u1}
  Published <- OnePeer
  Graph <- Files
  Limit = 1
  PinFiles = TRUE
  Events = {"ban", "oldnodes", "elapse", "connect"}
SPECIFICATION FairSpec
PROPERTIES BanTakesHold StalePinsGo
