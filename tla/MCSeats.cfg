SPECIFICATION FairSpec
CONSTANTS
  Real = {1, 2}
  Ours = 3
  Managers = {"transient", "ext", "wlr", "vptr", "vkbd"}
  Modes = {"first", "named", "transient"}
  MayBeLate <- MCMayBeLate
  MaxStrokes = 2
  MaxPlugs = 3
  Hasty = FALSE
INVARIANTS WiredUp NoMissingCapability ClipboardStaysReal KeysAgree
PROPERTY KeymapSettles
CHECK_DEADLOCK FALSE
