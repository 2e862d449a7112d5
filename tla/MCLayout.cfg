SPECIFICATION Spec
CONSTANTS
  XThreads = {x1}
  Outs = {o1, o2}
  Configs <- MCConfigs
  Sizes <- MCSizes
  Places <- MCPlaces
  FirstSize <- MCFirstSize
  Made <- MCMade
  MaxScreen = 6
  Xdg = {"v2"}
  MaxChanges = 3
  MaxRequests = 2
SYMMETRY MCSymmetry
INVARIANTS FollowersAgree AsTheCompositorHasIt NativeModesStand PointerMeetsPicture EdgesMeet
CHECK_DEADLOCK FALSE
