\* A rank may own no vertex or no face: it throws, or its ghosts are miscounted.
SPECIFICATION Spec
CONSTANTS
  NumRanks = 3
  MeshDimension = 2
  Meshes <- AllMeshes
  NCommon = 2
  GhostLevels = 1
  ToleratedEmpty = TRUE
INVARIANTS
  NoRankThrows
