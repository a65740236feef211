SPECIFICATION Spec
CONSTANTS
  a1 = a1
  a2 = a2
  s1 = s1
  s2 = s2
  NProc = 2
  GlobalSize = 4
  Overlaps = 1
  Arrays = {a1, a2}
  Synchronizers = {s1, s2}
  SyncOf <- Separate
  WriteKinds = {}
  Policies = {"deferred"}
  Releases = {}
  EagerWrites = FALSE
  MaxOps = 3
INVARIANTS
  NoCrossTalk
