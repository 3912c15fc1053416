CONSTANTS
  Peer = {p}
  NoPeer = NoPeer
  Client = {handler, c1}
  Nobody = Nobody
  NoCall = NoCall
  NoReply = NoReply
  MaxSeq = 2
  Node = {n1, n2}
  Handler = handler
  OtherKinds = {"crawl", "ban", "unban", "crawled"}
  NoMsg = NoMsg
SPECIFICATION Spec
SYMMETRY Symmetry
INVARIANTS TypeOK MutexHeldInside EmptyKeyIsInert
PROPERTIES AtomicTransactions NeverRegresses TakenOnce BannedGetNoJob
