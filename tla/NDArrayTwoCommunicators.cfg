\* Two processes, two dimensions, one synchronizer for two arrays of different shape.
SPECIFICATION Spec
CONSTANTS
  a1 = a1
  a2 = a2
  NProc = 3
  NDims = 1
  Arrays = {a1, a2}
  Synchronizers = {1}
  SyncOf <- Shared
  Communicator <- Renumbered
  Shape <- OtherShape
  Policies = {"threadpool"}
  Masks <- OneMask
  Periodic = TRUE
  EagerSends = TRUE
  MaxOps = 2
INVARIANTS
  TypeOK
  GhostsMatchMask
  NoRequestLeftOver
