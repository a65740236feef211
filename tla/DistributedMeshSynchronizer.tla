-------------------- MODULE DistributedMeshSynchronizer --------------------
(***************************************************************************)
(* TNL::Meshes::DistributedMeshes::DistributedMeshSynchronizer for the     *)
(* faces of a mesh after distributeSubentities: initialize() and one       *)
(* synchronize() of values at the faces.  The array of a rank holds its    *)
(* own faces first, ordered by their global indices, and then its ghosts.  *)
(***************************************************************************)
EXTENDS DistributeSubentities

VARIABLES
  globalOffsets,       (* attributes of the synchronizers of all ranks     *)
  ghostEntitiesCounts,
  ghostNeighbors,
  values               (* the array of every rank: the face whose value it *)
                       (* holds, {} for none                               *)

attributes == <<globalOffsets, ghostEntitiesCounts, ghostNeighbors, values>>
allVars == <<vars, attributes>>

SyncInit ==
  /\ Init
  /\ globalOffsets = [r \in Ranks |-> <<>>]
  /\ ghostEntitiesCounts = [r \in Ranks |-> <<>>]
  /\ ghostNeighbors = [r \in Ranks |-> <<>>]
  /\ values = [r \in Ranks |-> <<>>]

-----------------------------------------------------------------------------
Place(r, f, faces) == Cardinality({g \in faces : index[r][g] <= index[r][f]})
Sorted(r, faces) ==
  [k \in 1 .. Cardinality(faces) |->
     CHOOSE f \in faces : Place(r, f, faces) = k]
Array(r) == Sorted(r, OwnFaces(r)) \o Sorted(r, GhostFaces(r))

ownStart(r) == index[r][Array(r)[1]]

(* getEntityOwner of the synchronizer, by global index.                    *)
OwnerOf(offsets, global_idx) ==
  LET fits == {i \in 0 .. (NumRanks - 2) :
                 offsets[i] <= global_idx /\ global_idx < offsets[i + 1]}
  IN  IF fits = {} THEN NumRanks - 1 ELSE Min(fits)

LocalGhosts(r, i) ==
  {f \in GhostFaces(r) : OwnerOf(globalOffsets'[r], index[r][f]) = i}

(* Ranks that rank r sends values to, and that it receives values from.    *)
Requesters(r) == {i \in Ranks : ghostEntitiesCounts[r][i][r] > 0}
Providers(r) == {j \in Ranks : ghostEntitiesCounts[r][r][j] > 0}

(* The first of the ghosts of rank r that rank i owns; counts[j] of them   *)
(* belong to rank j.                                                       *)
GhostOffset(counts, i) == ExclusiveScan(counts)[i]

-----------------------------------------------------------------------------
(* initialize(): the offsets, so that "each rank can determine the owner of*)
(* every entity by its global index".                                      *)
ExchangeOffsets(r) ==
  /\ pc[r] = "distributed"
  /\ LET start == [q \in Ranks |-> ownStart(r)]
     IN  mail' = Posted(mail, r, Ranks, "offsets", start)
  /\ Goto(r, "offsets")
  /\ UNCHANGED <<meshVars, iter, owner, index, foreign, attributes>>

(* Count the ghosts that every rank owns; throw if the rank itself does.   *)
CountGhosts(r) ==
  /\ pc[r] = "offsets"
  /\ Arrived(r, Ranks)
  /\ globalOffsets' =
       [globalOffsets EXCEPT ![r] = [q \in Ranks |-> Message(q, r)]]
  /\ LET counts == [i \in Ranks |-> Cardinality(LocalGhosts(r, i))]
     IN  IF LocalGhosts(r, r) # {}
         THEN Goto(r, "failed") /\ mail' = Taken(r, Ranks)
         ELSE /\ Goto(r, "ghostCounts")
              /\ mail' = Exchanged(r, "ghostCounts", [q \in Ranks |-> counts])
  /\ UNCHANGED <<meshVars, iter, owner, index, foreign, ghostEntitiesCounts,
                 ghostNeighbors, values>>

(* Send the indices of ghosts to their owners.                             *)
SendGhosts(r) ==
  /\ pc[r] = "ghostCounts"
  /\ Arrived(r, Ranks)
  /\ ghostEntitiesCounts' =
       [ghostEntitiesCounts EXCEPT ![r] = [q \in Ranks |-> Message(q, r)]]
  /\ LET ghosts == [i \in Ranks |->
           LET counts == ghostEntitiesCounts'[r][r]
               slice == SubSeq(Sorted(r, GhostFaces(r)),
                               GhostOffset(counts, i) + 1,
                               GhostOffset(counts, i + 1))
           IN  [k \in DOMAIN slice |-> index[r][slice[k]]]]
     IN  mail' = Posted(Taken(r, Ranks), r, Providers(r)', "ghosts", ghosts)
  /\ Goto(r, "ghosts")
  /\ UNCHANGED <<meshVars, iter, owner, index, foreign, globalOffsets,
                 ghostNeighbors, values>>

(* Faulty: received indices are taken for local ones.                      *)
LocalIndex_Global(r, global_idx) == global_idx
LocalIndex(r, global_idx) == global_idx - ownStart(r)

(* "convert received ghost indices from global to local"                   *)
FinishInitialize(r) ==
  /\ pc[r] = "ghosts"
  /\ Arrived(r, Requesters(r))
  /\ ghostNeighbors' = [ghostNeighbors EXCEPT ![r] =
       [i \in Requesters(r) |-> [k \in DOMAIN Message(i, r) |->
                                   LocalIndex(r, Message(i, r)[k])]]]
  /\ values' = [values EXCEPT ![r] = [f \in Faces(r) |->
                  IF f \in OwnFaces(r) THEN f ELSE {}]]
  /\ mail' = Taken(r, Requesters(r))
  /\ Goto(r, "initialized")
  /\ UNCHANGED <<meshVars, iter, owner, index, foreign, globalOffsets,
                 ghostEntitiesCounts>>

(* synchronize(): copy values to the send buffers, receive into the ghosts.*)
Value(r, k) == IF k + 1 \in DOMAIN Array(r) THEN values[r][Array(r)[k + 1]]
                                            ELSE {}

Synchronize(r) ==
  /\ pc[r] = "initialized"
  /\ LET buffer == [i \in Requesters(r) |->
                     [k \in DOMAIN ghostNeighbors[r][i] |->
                        Value(r, ghostNeighbors[r][i][k])]]
     IN  mail' = Posted(mail, r, Requesters(r), "values", buffer)
  /\ Goto(r, "values")
  /\ UNCHANGED <<meshVars, iter, owner, index, foreign, attributes>>

FinishSynchronize(r) ==
  /\ pc[r] = "values"
  /\ Arrived(r, Providers(r))
  /\ LET counts == ghostEntitiesCounts[r][r]
         received(k) ==
           LET j == CHOOSE j \in Providers(r) :
                      /\ GhostOffset(counts, j) < k
                      /\ k <= GhostOffset(counts, j + 1)
           IN  Message(j, r)[k - GhostOffset(counts, j)]
     IN  values' = [values EXCEPT ![r] = [f \in Faces(r) |->
                      IF f \in GhostFaces(r)
                      THEN received(Place(r, f, GhostFaces(r))) ELSE @[f]]]
  /\ mail' = Taken(r, Providers(r))
  /\ Goto(r, "done")
  /\ UNCHANGED <<meshVars, iter, owner, index, foreign, globalOffsets,
                 ghostEntitiesCounts, ghostNeighbors>>

SynchronizeStep(r) ==
  \/ ExchangeOffsets(r)
  \/ CountGhosts(r)
  \/ SendGhosts(r)
  \/ FinishInitialize(r)
  \/ Synchronize(r)
  \/ FinishSynchronize(r)

RankStep(r) ==
  \/ DistributeStep(r) /\ UNCHANGED attributes
  \/ SynchronizeStep(r)

Finished == (\A r \in Ranks : pc[r] \in {"done", "failed"})
            /\ UNCHANGED allVars

Next == (\E r \in Ranks : RankStep(r)) \/ Finished

Spec == SyncInit /\ [][Next]_allVars

(* Every process runs.                                                     *)
FairSpec == Spec /\ \A r \in Ranks : WF_allVars(RankStep(r))

-----------------------------------------------------------------------------
TypeOK ==
  /\ preferHighRanks \in BOOLEAN
  /\ pc \in [Ranks -> {"start", "counts", "seeds", "answers", "done?",
                       "distributed", "offsets", "ghostCounts", "ghosts",
                       "initialized", "values", "done", "failed"}]
  /\ iter \in [Ranks -> 0 .. (MeshDimension - 1)]
  /\ \A r \in Ranks :
       /\ Faces(r) \in {{}, LocalFaces(r)}
       /\ DOMAIN index[r] \in {{}, Faces(r)}
       /\ \A f \in Faces(r) : owner[r][f] \in Ranks
       /\ \A f \in DOMAIN index[r] : index[r][f] \in Nat \union {Padding}
       /\ \A q \in Ranks : Len(mail[q][r]) <= 2

(* After synchronize() all ghosts have the values of their owners, although*)
(* owners are found by global indices, ghosts are sent in slices and the   *)
(* received indices address the array of the owner (initialize,            *)
(* synchronizeByteArrayAsyncWorker).                                       *)
GhostsUpdated ==
  \A r \in Ranks : pc[r] = "done" =>
    \A f \in Faces(r) : values[r][f] = f

(* No rank throws: the vertices of a face that another rank asks for are   *)
(* known here ("if two subdomains have a common face, they have common all *)
(* its subvertices"), and owners follow from global indices.               *)
NoRankThrows == \A r \in Ranks : pc[r] # "failed"

(* No rank throws or waits for ever: every vertex that another rank sends  *)
(* is found, no global index is left unset after as many passes as the mesh*)
(* has dimensions, and ranks agree when to stop.                           *)
EveryRankFinishes == <>(\A r \in Ranks : pc[r] = "done")
=============================================================================
