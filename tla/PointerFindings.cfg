\* Copies that nobody registered, destructors of null pointers,
\* self-assignment (tlc -continue).
SPECIFICATION Spec
CONSTANTS
  Null = Null
  Unallocated = Unallocated
  Garbage = Garbage
  Handles = {h1, h2}
  Objects = {o1, o2}
  Values = {v1, v2}
  Devices = {d1}
  Calls = {"construct", "nullptr", "copyConstruct", "copyAssign", "modify"}
  ReusedMemory = FALSE
INVARIANTS
  AllSynchronized
  NoDestructorThrows
PROPERTIES
  AssignmentShares
