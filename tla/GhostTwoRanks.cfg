SPECIFICATION Spec
CONSTANTS
  a1 = a1
  a2 = a2
  s1 = s1
  s2 = s2
  NProc = 2
  GlobalSize = 5
  Overlaps = 1
  Arrays = {a1}
  Synchronizers = {s1}
  SyncOf <- Shared
  WriteKinds = {"copyFromGlobal"}
  Policies = {"synchronous"}
  Releases = {}
  EagerWrites = FALSE
  MaxOps = 1
INVARIANTS
  GhostsMatchNeighbours
