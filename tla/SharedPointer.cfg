\* All operations of three pointers on two devices; clear() only of pointers that
\* do not share their object.
SPECIFICATION Spec
CONSTANTS
  Null = Null
  Unallocated = Unallocated
  Garbage = Garbage
  Handles = {h1, h2, h3}
  Objects = {o1, o2, o3}
  Values = {v1, v2}
  Devices = {d1, d2}
  Calls = {"construct", "nullptr", "copyConstruct", "moveConstruct",
           "copyAssign", "moveAssign", "swap", "clearUnshared", "recreate",
           "modify", "setDevice"}
  ReusedMemory = FALSE
SYMMETRY Permuted
INVARIANTS
  TypeOK
  CounterMatches
  RegisteredSynchronized
  RegisteredAlive
PROPERTIES
  RecreateIsolates
