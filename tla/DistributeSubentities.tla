----------------------- MODULE DistributeSubentities -----------------------
(***************************************************************************)
(* distributeSubentities: every rank determines the owners of the faces of *)
(* its local mesh, numbers its own ones, and asks other ranks for the      *)
(* global indices of its ghosts, which may have to ask in their turn.      *)
(*                                                                         *)
(* One step of a rank is what it does between two blocking communications: *)
(* it receives from all ranks and sends to all ranks.  MPI buffers sends.  *)
(***************************************************************************)
EXTENDS DistributedMesh, Sequences

Padding == -1

VARIABLES
  preferHighRanks,
  pc,        (* the communication a rank waits in                          *)
  iter,      (* the loop variable of the same name                         *)
  owner,     (* owners of the local faces; the others are tagged as ghosts *)
  index,     (* global indices of the local faces                          *)
  foreign,   (* foreign_seeds: the ghosts other ranks ask for              *)
  mail       (* mail[q][r]: messages from rank q to rank r                 *)

meshVars == <<part, localCells, preferHighRanks>>
vars == <<meshVars, pc, iter, owner, index, foreign, mail>>

-----------------------------------------------------------------------------
(* Messages from one rank to another stay in order.  A message bears the   *)
(* label of the communication it belongs to.                               *)
Arrived(r, sources) == \A q \in sources : mail[q][r] # <<>>
Message(q, r) == Head(mail[q][r])[2]
Taken(r, sources) ==
  [q \in Ranks |-> [mail[q] EXCEPT ![r] = IF q \in sources THEN Tail(@)
                                                           ELSE @]]
Posted(box, r, targets, label, message) ==
  [box EXCEPT ![r] =
     [q \in Ranks |-> IF q \in targets
                      THEN Append(box[r][q], <<label, message[q]>>)
                      ELSE box[r][q]]]

(* A communication in which each rank waits for one message of every rank; *)
(* the next one is sent in the same step.                                  *)
Exchanged(r, label, message) ==
  Posted(Taken(r, Ranks), r, Ranks, label, message)

-----------------------------------------------------------------------------
(* The cells of the local mesh of rank r around a face.                    *)
Around(r, f) == {c \in localCells[r] : f \subseteq c}

(* Faulty: a rank takes all faces on its interface.                        *)
InterfaceOwner_Mine(r, owners) == r
InterfaceOwner(r, owners) ==
  IF preferHighRanks THEN Max(owners) ELSE Min(owners)

(* If a face has only ghost neighbours, the first of them decides: the one *)
(* with the lowest index, whose owner is the lowest rank.                  *)
getEntityOwner(r, f) ==
  LET owners == {part[c] : c \in Around(r, f)}
      local_neighbor_cells_count == Cardinality(Around(r, f) \intersect Mine(r))
  IN  CASE local_neighbor_cells_count = 2 -> r
        [] local_neighbor_cells_count = 1 -> InterfaceOwner(r, owners)
        [] OTHER -> Min(owners)

Faces(r) == DOMAIN owner[r]
GhostFaces(r) == {f \in Faces(r) : owner[r][f] # r}
OwnFaces(r) == {f \in Faces(r) : owner[r][f] = r}

(* Position of a face among others, in a fixed order of sets of numbers.   *)
Before(g, f) ==
  g # f /\ Min((g \ f) \union (f \ g)) \in g
Position(f, faces) == Cardinality({g \in faces : Before(g, f)})

(* inplaceExclusiveScan: the sums of the counts of all lower ranks.        *)
ExclusiveScan(count) ==
  LET scan[n \in 0 .. NumRanks] ==
        IF n = 0 THEN 0 ELSE scan[n - 1] + count[n - 1]
  IN  scan

(* The assignment of global indices to local faces.                        *)
Numbered(r, offset) ==
  [f \in Faces(r) |-> IF f \in OwnFaces(r)
                      THEN offset + Position(f, OwnFaces(r))
                      ELSE Padding]

(* The ghosts that rank r asks rank q for; a face is sent as its vertices. *)
Seeds(r, q) == {f \in GhostFaces(r) : owner[r][f] = q}

(* The search for a received vertex on the local mesh: local index 0 is    *)
(* taken for "not found", unless the vertex is one of the rank itself.     *)
Found(r, v) ==
  /\ v \in LocalVertices(r)
  /\ OwnVertices(r) # {} \/ v # FirstVertex(r)

(* Faces of the local mesh with all vertices of a seed.                    *)
Common(r, seed) == {f \in Faces(r) : seed \subseteq f}

LookupFails(r, seeds) ==
  \E q \in Ranks : \E f \in seeds[q] :
    Cardinality(Common(r, f)) # 1 \/ \E v \in f : ~Found(r, v)

(* Global indices, possibly paddings, for the seeds of rank q.             *)
Answer(r, seeds, q) ==
  [f \in seeds[q] |-> index[r][CHOOSE g \in Common(r, f) : TRUE]]

-----------------------------------------------------------------------------
Init ==
  /\ Partition
  /\ preferHighRanks \in BOOLEAN
  /\ \/ ToleratedEmpty
     \/ \A r \in Ranks :
          /\ OwnVertices(r) # {}
          /\ \E f \in LocalFaces(r) : getEntityOwner(r, f) = r
  /\ pc = [r \in Ranks |-> "start"]
  /\ iter = [r \in Ranks |-> 0]
  /\ owner = [r \in Ranks |-> <<>>]
  /\ index = [r \in Ranks |-> <<>>]
  /\ foreign = [r \in Ranks |-> [q \in Ranks |-> {}]]
  /\ mail = [q \in Ranks |-> [r \in Ranks |-> <<>>]]

Goto(r, label) == pc' = [pc EXCEPT ![r] = label]

(* 1. and 2. Identify local entities, exchange their counts.               *)
CountEntities(r) ==
  /\ pc[r] = "start"
  /\ owner' = [owner EXCEPT ![r] =
                 [f \in LocalFaces(r) |-> getEntityOwner(r, f)]]
  /\ LET count == [q \in Ranks |-> Cardinality(OwnFaces(r)')]
     IN  mail' = Posted(mail, r, Ranks, "counts", count)
  /\ Goto(r, "counts")
  /\ UNCHANGED <<meshVars, iter, index, foreign>>

(* 3. to 5. Assign global indices, build and exchange seeds.               *)
AssignIndices(r) ==
  /\ pc[r] = "counts"
  /\ Arrived(r, Ranks)
  /\ LET count == [q \in Ranks |-> Message(q, r)]
         offset == ExclusiveScan(count)[r]
         seeds == [q \in Ranks |-> Seeds(r, q)]
     IN  /\ index' = [index EXCEPT ![r] = Numbered(r, offset)]
         /\ mail' = Exchanged(r, "seeds", seeds)
  /\ Goto(r, "seeds")
  /\ UNCHANGED <<meshVars, iter, owner, foreign>>

(* 6a. and 6b. Look the seeds up and send their global indices, or throw.  *)
SendAnswers(r, seeds) ==
  LET answer == [q \in Ranks |-> Answer(r, seeds, q)] IN
  IF LookupFails(r, seeds)
  THEN Goto(r, "failed") /\ mail' = Taken(r, Ranks)
  ELSE Goto(r, "answers") /\ mail' = Exchanged(r, "answers", answer)

ReceiveSeeds(r) ==
  /\ pc[r] = "seeds"
  /\ Arrived(r, Ranks)
  /\ LET seeds == [q \in Ranks |-> Message(q, r)] IN
       /\ foreign' = [foreign EXCEPT ![r] = seeds]
       /\ SendAnswers(r, seeds)
  /\ UNCHANGED <<meshVars, iter, owner, index>>

(* 6c. and 6d. Set the global indices of ghosts, ask if all ranks are done.*)
SetGhostIndices(r) ==
  /\ pc[r] = "answers"
  /\ Arrived(r, Ranks)
  /\ LET ghosts == [f \in GhostFaces(r) |->
                      Message(owner[r][f], r)[f]]
         done == \A f \in GhostFaces(r) : ghosts[f] # Padding
     IN  /\ index' = [index EXCEPT ![r] =
                        [f \in Faces(r) |-> IF f \in GhostFaces(r)
                                            THEN ghosts[f] ELSE @[f]]]
         /\ mail' = Exchanged(r, "done?", [q \in Ranks |-> done])
  /\ Goto(r, "done?")
  /\ UNCHANGED <<meshVars, iter, owner, foreign>>

(* Faulty: there is one pass only.                                         *)
LastPass_First(r) == TRUE

(* The passes end when all ranks are done, or after MeshDimension of them. *)
LastPass(r) ==
  (\A q \in Ranks : Message(q, r)) \/ iter[r] + 1 = MeshDimension

(* The end of the loop, and the check that no global index is left unset.  *)
(* (7. reorders the local mesh.)                                           *)
Repeat(r) ==
  /\ pc[r] = "done?"
  /\ Arrived(r, Ranks)
  /\ IF LastPass(r)
     THEN /\ Goto(r, IF \E f \in Faces(r) : index[r][f] = Padding
                     THEN "failed" ELSE "distributed")
          /\ mail' = Taken(r, Ranks)
          /\ UNCHANGED iter
     ELSE /\ SendAnswers(r, foreign[r])
          /\ iter' = [iter EXCEPT ![r] = @ + 1]
  /\ UNCHANGED <<meshVars, owner, index, foreign>>

DistributeStep(r) ==
  \/ CountEntities(r)
  \/ AssignIndices(r)
  \/ ReceiveSeeds(r)
  \/ SetGhostIndices(r)
  \/ Repeat(r)

-----------------------------------------------------------------------------
(* A face has one global index on all ranks that know it, and two faces    *)
(* have two: owners are chosen by every rank on its own, from different    *)
(* local meshes, and indices are passed on by ranks that do not own them   *)
(* (distributeSubentities, getEntityOwner).                                *)
IndicesAgree ==
  \A q, r \in Ranks : \A f \in DOMAIN index[q], g \in DOMAIN index[r] :
    index[q][f] # Padding /\ index[r][g] # Padding
      => (index[q][f] = index[r][g] <=> f = g)
=============================================================================
