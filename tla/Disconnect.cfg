CONSTANTS
  Client = {c1}
  Notifier = {n1}
  NoClient = NoClient
SPECIFICATION FairSpec
PROPERTIES HandlerReturns
CHECK_DEADLOCK FALSE
