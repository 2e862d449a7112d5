CONSTANTS
  Convs = {c1, c2}
  Targets <- MCTargets
  MimeLists <- MCMimeLists
  MaxReceives = 1
  MaxBytes = 1
  MaxItems = 2

SPECIFICATION Spec

PROPERTIES
  ValueFits
  ListedIsServed

CHECK_DEADLOCK FALSE
