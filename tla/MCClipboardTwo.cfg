CONSTANTS
  Clients = {c1, c2}
  Wayland = wl
  AppItems = {a1}
  TextItems = {a1}
  Nothing = nothing
  MaxEchoes = 1
  MaxJobs = 1
  MaxRequests = 2
  MaxTime = 1

SPECIFICATION Spec
SYMMETRY MCSymmetry

INVARIANT NobodyMisled

CHECK_DEADLOCK FALSE
