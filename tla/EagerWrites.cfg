SPECIFICATION Spec
CONSTANTS
  a1 = a1
  a2 = a2
  s1 = s1
  s2 = s2
  NProc = 3
  GlobalSize = 6
  Overlaps = 1
  Arrays = {a1}
  Synchronizers = {s1}
  SyncOf <- Shared
  WriteKinds = {"setValue"}
  Policies = {"threadpool"}
  Releases = {}
  EagerWrites = TRUE
  MaxOps = 2
INVARIANTS
  GhostsMatchAtEnd
