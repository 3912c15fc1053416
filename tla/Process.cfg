CONSTANTS
  Peer = {p, q, r}
  Worker = {w}
  Limit = 2
  MaxSenders = 2
  NoPeer = {p, q, r}
  Node = {n}
SPECIFICATION FairSpec
INVARIANTS TypeOK FilesSound
PROPERTIES DueIsCrawled QueuedIsCrawled
