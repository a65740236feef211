\* Three meshes, all their partitions into three parts in which every rank owns
\* a vertex and a face.
SPECIFICATION FairSpec
CONSTANTS
  NumRanks = 3
  MeshDimension = 2
  Meshes <- AllMeshes
  NCommon = 2
  GhostLevels = 1
  ToleratedEmpty = FALSE
INVARIANTS
  IndicesAgree
  GhostsUpdated
PROPERTIES
  EveryRankFinishes
