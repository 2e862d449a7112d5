SPECIFICATION FairSpec
CONSTANTS
  o1 = o1
  o2 = o2
  Outputs = {o1, o2}
  Baked = FALSE
  MaxCursorChanges = 1
  MaxMishaps = 1
INVARIANT CursorFramesAccounted
PROPERTIES CursorShown SleepersWake
CHECK_DEADLOCK FALSE
