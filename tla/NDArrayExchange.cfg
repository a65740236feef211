\* Two processes, two dimensions, one synchronizer for two arrays of different shape.
SPECIFICATION FairSpec
CONSTANTS
  a1 = a1
  a2 = a2
  NProc = 2
  NDims = 2
  Arrays = {a1, a2}
  Synchronizers = {1}
  SyncOf <- Shared
  Communicator <- World
  Shape <- OtherShape
  Policies = {"deferred", "threadpool"}
  Masks <- TwoMasks
  Periodic = TRUE
  EagerSends = TRUE
  MaxOps = 2
INVARIANTS
  GhostsMatchMask
  NoRequestLeftOver
PROPERTIES
  ExchangesEnd
