\* Three ranks with uneven ranges: writes of all cells (synchronous) and exchanges by
\* a worker, two operations.
SPECIFICATION Spec
CONSTANTS
  a1 = a1
  a2 = a2
  s1 = s1
  s2 = s2
  NProc = 3
  GlobalSize = 7
  Overlaps = 1
  Arrays = {a1}
  Synchronizers = {s1}
  SyncOf <- Shared
  WriteKinds = {"setValue"}
  Policies = {"threadpool"}
  Releases = {}
  EagerWrites = FALSE
  MaxOps = 2
INVARIANTS
  TypeOK
  GhostsMatchNeighbours
  NeighboursReached
PROPERTIES
  ImplementsGhostExchange
