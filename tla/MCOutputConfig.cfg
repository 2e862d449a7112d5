CONSTANTS
  XThreads = {x1}
  Sizes = {s1, s2}
  MaxCancelled = 2
  MaxRequests = 2
  MaxSerial = 3

SPECIFICATION FairConfigSpec

PROPERTIES
  OkOnlyIfShown
  HandshakeKept
  EveryRequestEnds

CHECK_DEADLOCK FALSE
