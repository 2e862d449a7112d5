SPECIFICATION FairSpec
CONSTANTS
  o1 = o1
  w1 = w1
  Outputs = {o1}
  MaxRows = 2
  Layouts <- MCLayouts
  Watchers = {w1}
  MayUse = {"raw", "delta", "bbox", "nonempty"}
  MaxChanges = 1
  MaxMishaps = 1
INVARIANTS NothingUnreported FramesAccounted
PROPERTIES EverythingShown ScreencopyRepaints
CHECK_DEADLOCK FALSE
