CONSTANTS
  Client = {c1, c2}
  Notifier = {n1, n2}
  NoClient = NoClient
SPECIFICATION FairSpec
INVARIANTS TypeOK NoSendOnClosed
PROPERTIES NotifyReachesAll KeepsPromise NotifyEnds
CHECK_DEADLOCK FALSE
