\* Two processes, two dimensions, one synchronizer for two arrays of different shape.
SPECIFICATION Spec
CONSTANTS
  a1 = a1
  a2 = a2
  NProc = 2
  NDims = 2
  Arrays = {a1, a2}
  Synchronizers = {1}
  SyncOf <- Shared
  Communicator <- World
  Shape <- OtherShape
  Policies = {"deferred", "threadpool"}
  Masks <- TwoMasks
  Periodic = FALSE
  EagerSends = TRUE
  MaxOps = 1
INVARIANTS
  TypeOK
  GhostsMatchMask
  SkippedGhostsKept
