CONSTANTS
  XThreads = {x1, x2}
  MaxRequests = 4

SPECIFICATION FairSpec

INVARIANT OneAtATime
PROPERTIES
  ReplyIsOwn
  EveryCallReturns

CHECK_DEADLOCK FALSE
