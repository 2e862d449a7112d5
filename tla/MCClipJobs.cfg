CONSTANTS
  XThreads = {x1, x2}
  Wayland = wl
  Convs = {c1, c2}
  Works = {w1}
  NoJob = none
  MaxJobs = 2
  MaxReceives = 1

SPECIFICATION FairSpec

INVARIANTS
  NoneLost
  RunsInOrder
  NoLostWakeup

PROPERTIES
  EveryoneAnswered
  PromiseKept

CHECK_DEADLOCK FALSE
