------------------------- MODULE MCDistributedMesh -------------------------
(* Small triangular meshes for the model checker.                          *)
EXTENDS DistributedMeshSynchronizer

(* A triangle divided into four; one cell has no face on the boundary.     *)
Divided == {{1, 2, 3}, {1, 2, 4}, {2, 3, 5}, {1, 3, 6}}

(* Five triangles around a vertex.                                         *)
Fan == {{0, 1, 2}, {0, 2, 3}, {0, 3, 4}, {0, 4, 5}, {0, 5, 1}}

(* A strip of five triangles.                                              *)
Strip == {{1, 2, 3}, {2, 3, 4}, {3, 4, 5}, {4, 5, 6}, {5, 6, 7}}

AllMeshes == {Divided, Fan, Strip}
DividedOnly == {Divided}
=============================================================================
