SPECIFICATION Spec
CONSTANTS
  Sels = {clip, prim}
  Ring = 2
  MaxFetches = 2
  MaxChunks = 1
  Takes = 3
INVARIANT OwnValue
PROPERTY EveryFetchResolved
CHECK_DEADLOCK FALSE
