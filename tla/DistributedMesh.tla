-------------------------- MODULE DistributedMesh --------------------------
(***************************************************************************)
(* The distributed mesh that tnl-decompose-mesh (decompose_and_save) makes *)
(* of a simplicial mesh: every rank has the cells of its part, ghost cells *)
(* around them, and the faces and vertices of all these cells.             *)
(*                                                                         *)
(* A cell or a face is the set of its vertices.  Entities are numbered by  *)
(* their owners; within an owner the order is any fixed one.               *)
(***************************************************************************)
EXTENDS Integers, FiniteSets, FiniteSetsExt

CONSTANTS
  NumRanks,
  MeshDimension,
  Meshes,         (* the meshes to decompose, as sets of cells             *)
  NCommon,        (* min-common-vertices: vertices that neighbours share   *)
  GhostLevels,
  ToleratedEmpty  (* may a rank own no vertices or faces?                  *)

FacesOf(cell) == {f \in SUBSET cell : Cardinality(f) = MeshDimension}

(* A face has two cells at most (distributeSubentities.h:180) and is not a *)
(* vertex (distributeSubentities.h:131).                                   *)
ASSUME MeshAssumption ==
  /\ NumRanks \in Nat \ {0}
  /\ MeshDimension \in Nat \ {0, 1}
  /\ \A mesh \in Meshes :
       /\ IsFiniteSet(mesh)
       /\ \A cell \in mesh :
            /\ cell \subseteq Nat /\ IsFiniteSet(cell)
            /\ Cardinality(cell) = MeshDimension + 1
            /\ \A f \in FacesOf(cell) : Cardinality({c \in mesh : f \subseteq c}) <= 2
  /\ NCommon \in 1 .. MeshDimension
  /\ GhostLevels \in Nat \ {0}
  /\ ToleratedEmpty \in BOOLEAN

Ranks == 0 .. (NumRanks - 1)

VARIABLES
  part,      (* the rank of every cell: an array that METIS computes       *)
  localCells (* the cells of the local mesh of every rank                  *)

Cells == DOMAIN part
Mine(r) == {c \in Cells : part[c] = r}

(* The dual graph of METIS_MeshToDual.                                     *)
Neighbours(c) == {d \in Cells \ {c} : Cardinality(c \intersect d) >= NCommon}

(* Cells of rank r and the given number of levels of ghosts around them.   *)
Decomposed(r) ==
  LET level[n \in 0 .. GhostLevels] ==
        IF n = 0 THEN Mine(r)
                 ELSE level[n - 1] \union UNION {Neighbours(c) :
                                                   c \in level[n - 1]}
  IN  level[GhostLevels]

LocalVertices(r) == UNION localCells[r]
LocalFaces(r) == UNION {FacesOf(c) : c \in localCells[r]}

(* "points at subdomain boundaries are assigned to the subdomain with the  *)
(* higher number"                                                          *)
VertexOwner(v) == Max({part[c] : c \in {d \in Cells : v \in d}})
OwnVertices(r) == {v \in LocalVertices(r) : VertexOwner(v) = r}

(* Vertices are numbered by their owners.  On a rank its own ones come     *)
(* first, ghosts follow in the order of their global indices.              *)
Precedes(v, w) ==
  \/ VertexOwner(v) < VertexOwner(w)
  \/ VertexOwner(v) = VertexOwner(w) /\ v < w
FirstVertex(r) ==
  LET candidates == IF OwnVertices(r) # {} THEN OwnVertices(r)
                                           ELSE LocalVertices(r)
  IN  CHOOSE v \in candidates : \A w \in candidates \ {v} : Precedes(v, w)

(* The partitions METIS may return: no part is empty.                      *)
Partition ==
  /\ \E mesh \in Meshes : part \in [mesh -> Ranks]
  /\ \A r \in Ranks : Mine(r) # {}
  /\ localCells = [r \in Ranks |-> Decomposed(r)]
=============================================================================
