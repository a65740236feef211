\* clear() of a pointer that shares its object.
SPECIFICATION Spec
CONSTANTS
  Null = Null
  Unallocated = Unallocated
  Garbage = Garbage
  Handles = {h1, h2}
  Objects = {o1, o2}
  Values = {v1}
  Devices = {d1}
  Calls = {"construct", "copyAssign", "clear"}
  ReusedMemory = FALSE
SYMMETRY Permuted
INVARIANTS
  NoDangling
