CONSTANTS
  Clients = {c1}
  Wayland = wl
  AppItems = {a1}
  TextItems = {}
  Nothing = nothing
  MaxEchoes = 6
  MaxJobs = 6
  MaxRequests = 2
  MaxTime = 2

SPECIFICATION FairSpec

INVARIANTS
  SidesAgree
  EchoesOwed
PROPERTIES
  EchoIsNoTakeover
  AcquisitionAnnounced

CHECK_DEADLOCK FALSE
