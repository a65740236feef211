----------------------- MODULE DistributedMesh_proofs -----------------------
(***************************************************************************)
(* Proofs about the distribution of faces, for every simplicial mesh, in   *)
(* which a face has two cells at most, every partition of it and every     *)
(* number of ranks: the ranks agree on the global indices, the             *)
(* synchronizer that is built from them updates all ghosts, two passes     *)
(* suffice, and no rank throws as long as every rank owns a face.          *)
(***************************************************************************)
EXTENDS DistributedMeshSynchronizer, FiniteSetTheorems, WellFoundedInduction,
        TLAPS

-----------------------------------------------------------------------------
(* What the owners make of a mesh, before any message is sent.             *)

(* What the proofs use of a decomposed mesh: a face has two cells at most, *)
(* and a rank knows all neighbours of its own cells.                       *)
MeshOK ==
  /\ IsFiniteSet(Cells)
  /\ \A c \in Cells :
       /\ part[c] \in Ranks /\ c \in SUBSET Nat /\ IsFiniteSet(c)
       /\ \A f \in FacesOf(c) : Cardinality({d \in Cells : f \subseteq d}) <= 2
  /\ \A r \in Ranks :
       /\ Mine(r) \subseteq localCells[r] /\ localCells[r] \subseteq Cells
       /\ \A c \in Mine(r) : Neighbours(c) \subseteq localCells[r]

(* The faces that rank r owns.                                             *)
Owned(r) == {f \in LocalFaces(r) : getEntityOwner(r, f) = r}

(* The ghosts for which rank r asks rank q.                                *)
Asked(r, q) ==
  {f \in LocalFaces(r) : getEntityOwner(r, f) # r /\ getEntityOwner(r, f) = q}

Counts == [q \in Ranks |-> Cardinality(Owned(q))]

(* The global index that rank q gives to its face f.                       *)
TrueIndex(q, f) == ExclusiveScan(Counts)[q] + Position(f, Owned(q))

(* The values that any rank may hold for the index of face f.              *)
ValidIndex(f, x) ==
  x = Padding \/ \E q \in Ranks : f \in Owned(q) /\ x = TrueIndex(q, f)

ValidIndices(F, i) == DOMAIN i = F /\ \A f \in F : ValidIndex(f, i[f])

-----------------------------------------------------------------------------
(* The inductive invariant.                                                *)

Distributing == {"start", "counts", "seeds", "answers", "done?"}
Synchronizing == {"distributed", "offsets", "ghostCounts", "ghosts",
                  "initialized", "values", "done"}

(* Messages that a distributing rank has sent to and received from every   *)
(* rank: the counts, the seeds and, in each pass, answers and a verdict.   *)
SentBy(label, i) ==
  CASE label = "start" -> 0
    [] label = "counts" -> 1
    [] label = "seeds" -> 2
    [] label = "answers" -> 3 + 2 * i
    [] label = "done?" -> 4 + 2 * i
ReceivedBy(label, i) == IF label = "start" THEN 0 ELSE SentBy(label, i) - 1

SentCount(r) == SentBy(pc[r], iter[r])
ReceivedCount(r) == ReceivedBy(pc[r], iter[r])

(* No index of rank r is left unset.                                       *)
Complete(r) == \A f \in DOMAIN index[r] : index[r][f] # Padding

(* The passes end with pass i.                                             *)
Ends(i) == (\A r \in Ranks : Complete(r)) \/ i + 1 = MeshDimension

(* What the n-th message from rank q to rank r says.                       *)
Says(q, r, n, m) ==
  /\ n = 1 => m = Cardinality(Owned(q))
  /\ n = 2 => m = Asked(q, r)
  /\ \A i \in Nat : n = 3 + 2 * i => ValidIndices(Asked(r, q), m)
  /\ \A i \in Nat : n = 4 + 2 * i => m = Complete(q)

(* Rank r has left distributeSubentities: it has thrown in initialize() if *)
(* it has failed since.                                                    *)
HasLeft(r) ==
  \/ pc[r] \in Synchronizing
  \/ pc[r] = "failed" /\ globalOffsets[r] # <<>>

IsSequence(s) == \E S : s \in Seq(S)

TypesOK ==
  /\ MeshOK
  /\ pc \in [Ranks -> Distributing \union Synchronizing \union {"failed"}]
  /\ iter \in [Ranks -> 0 .. (MeshDimension - 1)]
  /\ DOMAIN owner = Ranks /\ DOMAIN index = Ranks /\ DOMAIN foreign = Ranks
  /\ DOMAIN globalOffsets = Ranks
  /\ \A r \in Ranks :
       /\ pc[r] \in Distributing => globalOffsets[r] = <<>>
       /\ pc[r] \in {"start", "counts", "seeds"} => iter[r] = 0
  /\ DOMAIN mail = Ranks /\ \A q \in Ranks : DOMAIN mail[q] = Ranks

OwnersOK(r) ==
  owner[r] = IF pc[r] = "start" THEN <<>>
             ELSE [f \in LocalFaces(r) |-> getEntityOwner(r, f)]

IndicesOK(r) ==
  \/ pc[r] \in {"start", "counts"} /\ index[r] = <<>>
  \/ /\ pc[r] \notin {"start", "counts"}
     /\ ValidIndices(LocalFaces(r), index[r])
     /\ \A f \in Owned(r) : index[r][f] = TrueIndex(r, f)

SeedsOK(r) ==
  pc[r] \in {"answers", "done?"} => foreign[r] = [q \in Ranks |-> Asked(q, r)]

LocalOK == \A r \in Ranks : OwnersOK(r) /\ IndicesOK(r) /\ SeedsOK(r)

(* The messages on the way to a rank that still distributes.               *)
ChannelOK(q, r) ==
  /\ IsSequence(mail[q][r])
  /\ \A j \in DOMAIN mail[q][r] : (HasLeft(q) => j = 1) =>
       Says(q, r, ReceivedCount(r) + j, mail[q][r][j][2])
  /\ pc[q] \in Distributing => Len(mail[q][r]) = SentCount(q) - ReceivedCount(r)
  /\ HasLeft(q) => /\ pc[r] = "done?" /\ iter[r] = iter[q]
                   /\ mail[q][r] # <<>>

MailOK == \A q, r \in Ranks : pc[r] \in Distributing => ChannelOK(q, r)

(* A rank is one message ahead of another at most, and they agree when to  *)
(* stop.                                                                   *)
RoundsOK ==
  /\ \A q, r \in Ranks : pc[q] \in Distributing /\ pc[r] \in Distributing =>
       /\ SentCount(q) <= SentCount(r) + 1
       /\ pc[r] = "done?" /\ pc[q] = "answers" /\ iter[q] = iter[r] + 1 =>
            ~Ends(iter[r])
  /\ \A q \in Ranks : HasLeft(q) => Ends(iter[q])

IndInv == TypesOK /\ LocalOK /\ MailOK /\ RoundsOK

-----------------------------------------------------------------------------
(* Numbers, recursion and sums.                                            *)

(* A nonempty set of natural numbers has a least element.                  *)
LEMMA Least ==
  ASSUME NEW T \in SUBSET Nat, T # {}
  PROVE  \E x \in T : \A y \in T : x <= y
<1> DEFINE R == OpToRel(<, Nat)
<1>1. IsWellFoundedOn(R, Nat)
  BY NatLessThanWellFounded
<1> HIDE DEF R
<1>2. PICK x \in T : \A y \in T : <<y, x>> \notin R
  BY <1>1, WFMin
<1>3. \A y \in T : ~(y < x)
  BY <1>2 DEF R, OpToRel
<1>. QED BY <1>3

(* Min and Max of a set of numbers.                                        *)
LEMMA MinIsLeast ==
  ASSUME NEW T \in SUBSET Nat, T # {}
  PROVE  Min(T) \in T /\ \A y \in T : Min(T) <= y
BY Least DEF Min

(* What is defined by recursion up to n exists.                            *)
Recursion(S, base, step, n) ==
  \E g \in [0 .. n -> S] :
    g = [k \in 0 .. n |-> IF k = 0 THEN base ELSE step[<<k, g[k - 1]>>]]

(* Every step of the recursion extends the function by one value.          *)
LEMMA RecursionExists ==
  ASSUME NEW S, NEW base \in S, NEW step \in [Nat \X S -> S], NEW n \in Nat
  PROVE  Recursion(S, base, step, n)
<1> DEFINE Exists(m) ==
      \E g \in [0 .. m -> S] :
        g = [k \in 0 .. m |-> IF k = 0 THEN base ELSE step[<<k, g[k - 1]>>]]
<1> DEFINE Missing == {m \in Nat : ~Exists(m)}
<1>1. Exists(0)
  <2> DEFINE g == [k \in 0 .. 0 |-> base]
  <2>1. g \in [0 .. 0 -> S]
    OBVIOUS
  <2>2. \A k \in 0 .. 0 : g[k] = IF k = 0 THEN base ELSE step[<<k, g[k - 1]>>]
    OBVIOUS
  <2> HIDE DEF g
  <2>3. g = [k \in 0 .. 0 |-> IF k = 0 THEN base ELSE step[<<k, g[k - 1]>>]]
    BY <2>1, <2>2
  <2>. QED BY <2>1, <2>3
<1>2. ASSUME NEW m \in Nat, Exists(m) PROVE Exists(m + 1)
  <2>1. PICK g \in [0 .. m -> S] :
          g = [k \in 0 .. m |-> IF k = 0 THEN base ELSE step[<<k, g[k - 1]>>]]
    BY <1>2
  <2> DEFINE h == [k \in 0 .. (m + 1) |->
                     IF k <= m THEN g[k] ELSE step[<<m + 1, g[m]>>]]
  <2>2. h \in [0 .. (m + 1) -> S]
    OBVIOUS
  <2>3. ASSUME NEW k \in 0 .. (m + 1)
        PROVE  h[k] = IF k = 0 THEN base ELSE step[<<k, h[k - 1]>>]
    <3>1. CASE k <= m
      <4>1. h[k] = g[k] /\ (k # 0 => k - 1 \in 0 .. m /\ h[k - 1] = g[k - 1])
        BY <3>1
      <4>2. g[k] = IF k = 0 THEN base ELSE step[<<k, g[k - 1]>>]
        BY <2>1, <3>1
      <4>. QED BY <4>1, <4>2
    <3>2. CASE k = m + 1
      <4>1. h[k] = step[<<m + 1, g[m]>>] /\ h[m] = g[m] /\ k # 0 /\ k - 1 = m
        BY <3>2
      <4>. QED BY <4>1, <3>2
    <3>. QED BY <3>1, <3>2
  <2> HIDE DEF h
  <2>4. h = [k \in 0 .. (m + 1) |->
               IF k = 0 THEN base ELSE step[<<k, h[k - 1]>>]]
    BY <2>2, <2>3
  <2>. QED BY <2>2, <2>4
<1> HIDE DEF Exists
<1>3. Missing = {}
  <2> SUFFICES ASSUME Missing # {} PROVE FALSE
    OBVIOUS
  <2>1. PICK m \in Missing : \A y \in Missing : m <= y
    BY Least
  <2>2. m # 0
    BY <1>1
  <2>3. m - 1 \in Nat /\ Exists(m - 1)
    BY <2>1, <2>2
  <2>. QED BY <1>2, <2>3, <2>1
<1>. QED BY <1>3 DEF Exists, Recursion

(* The sums of the counts of lower ranks.                                  *)
LEMMA ScanFacts ==
  ASSUME NEW count \in [Ranks -> Nat]
  PROVE  /\ ExclusiveScan(count) \in [0 .. NumRanks -> Nat]
         /\ ExclusiveScan(count)[0] = 0
         /\ \A n \in 1 .. NumRanks :
              ExclusiveScan(count)[n] = ExclusiveScan(count)[n - 1] + count[n - 1]
<1> DEFINE Sums(g) ==
      g = [n \in 0 .. NumRanks |-> IF n = 0 THEN 0 ELSE g[n - 1] + count[n - 1]]
    step == [p \in Nat \X Nat |->
               p[2] + (IF p[1] - 1 \in Ranks THEN count[p[1] - 1] ELSE 0)]
<1>1. NumRanks \in Nat /\ Ranks = 0 .. (NumRanks - 1)
  BY MeshAssumption DEF Ranks
<1>2. step \in [Nat \X Nat -> Nat]
  OBVIOUS
<1>3. PICK g \in [0 .. NumRanks -> Nat] :
        g = [n \in 0 .. NumRanks |-> IF n = 0 THEN 0 ELSE step[<<n, g[n - 1]>>]]
  <2> HIDE DEF step
  <2>1. NumRanks \in Nat /\ 0 \in Nat
    BY <1>1
  <2>2. Recursion(Nat, 0, step, NumRanks)
    BY <1>2, <2>1, RecursionExists
  <2>. QED BY <2>2 DEF Recursion
<1>4. ASSUME NEW n \in 0 .. NumRanks
      PROVE  g[n] = IF n = 0 THEN 0 ELSE g[n - 1] + count[n - 1]
  <2>1. CASE n = 0
    BY <1>3, <2>1
  <2>2. CASE n # 0
    <3>1. n - 1 \in Ranks /\ <<n, g[n - 1]>> \in Nat \X Nat
      BY <1>1, <2>2
    <3>2. step[<<n, g[n - 1]>>] = g[n - 1] + count[n - 1]
      BY <3>1
    <3>. QED BY <1>3, <2>2, <3>2
  <2>. QED BY <2>1, <2>2
<1>5. Sums(g)
  BY <1>4
<1>6. Sums(ExclusiveScan(count))
  BY <1>5 DEF ExclusiveScan
<1> DEFINE s == ExclusiveScan(count)
<1>7. DOMAIN s = 0 .. NumRanks
      /\ \A n \in 0 .. NumRanks :
           s[n] = IF n = 0 THEN 0 ELSE s[n - 1] + count[n - 1]
  BY <1>6
<1> HIDE DEF s
<1> DEFINE Bad == {n \in 0 .. NumRanks : s[n] \notin Nat}
<1>8. Bad = {}
  <2> SUFFICES ASSUME Bad # {} PROVE FALSE
    OBVIOUS
  <2>0. Bad \in SUBSET Nat
    BY <1>1
  <2>1. PICK n \in Bad : \A y \in Bad : n <= y
    <3> HIDE DEF Bad
    <3>. QED BY Least, <2>0
  <2>2. n # 0
    BY <1>7
  <2>3. n - 1 \in 0 .. NumRanks /\ n - 1 \in Ranks /\ s[n - 1] \in Nat
    BY <2>1, <2>2, <1>1
  <2>. QED BY <2>2, <2>3, <1>7
<1>9. \A n \in 0 .. NumRanks : s[n] \in Nat
  BY <1>8
<1>10. s = [n \in 0 .. NumRanks |-> s[n]]
  BY <1>6 DEF s
<1>11. s \in [0 .. NumRanks -> Nat]
  BY <1>9, <1>10
<1>12. s[0] = 0 /\ \A n \in 1 .. NumRanks : s[n] = s[n - 1] + count[n - 1]
  BY <1>1, <1>7
<1>. QED BY <1>11, <1>12 DEF s

(* A rank's indices begin after those of all lower ranks.                  *)
LEMMA ScanIncreases ==
  ASSUME NEW count \in [Ranks -> Nat], NEW p \in Ranks, NEW q \in Ranks, p < q
  PROVE  ExclusiveScan(count)[p] + count[p] <= ExclusiveScan(count)[q]
<1> DEFINE s == ExclusiveScan(count)
           Bad == {n \in p + 1 .. q : ~(s[p] + count[p] <= s[n])}
<1>1. NumRanks \in Nat /\ Ranks = 0 .. (NumRanks - 1)
  BY MeshAssumption DEF Ranks
<1>2. /\ s \in [0 .. NumRanks -> Nat]
      /\ \A n \in 1 .. NumRanks : s[n] = s[n - 1] + count[n - 1]
  BY ScanFacts
<1> HIDE DEF s
<1>. p \in Nat /\ q \in Nat /\ p + 1 <= q /\ q < NumRanks
  BY <1>1
<1>. \A n \in 0 .. q : n \in 0 .. NumRanks /\ n \in Ranks
  BY <1>1
<1>. \A n \in 0 .. q : s[n] \in Nat /\ count[n] \in Nat
  BY <1>2
<1>3. Bad = {}
  <2> SUFFICES ASSUME Bad # {} PROVE FALSE
    OBVIOUS
  <2>0. Bad \in SUBSET Nat
    OBVIOUS
  <2>1. PICK n \in Bad : \A y \in Bad : n <= y
    <3> HIDE DEF Bad
    <3>. QED BY Least, <2>0
  <2>2. n \in 1 .. NumRanks /\ n - 1 \in Ranks /\ s[n] = s[n - 1] + count[n - 1]
    BY <1>1, <1>2
  <2>3. n # p + 1
    BY <2>2
  <2>4. s[p] + count[p] <= s[n - 1]
    BY <2>1, <2>3
  <2>5. s[n - 1] \in Nat /\ count[n - 1] \in Nat /\ s[p] + count[p] \in Nat
    BY <2>2
  <2>. QED BY <2>2, <2>4, <2>5
<1>4. q \in p + 1 .. q
  BY <1>1
<1>. QED BY <1>3, <1>4 DEF s

-----------------------------------------------------------------------------
(* The decomposed mesh.                                                    *)

(* What METIS and the assumptions say of the cells.                        *)
LEMMA CellFacts ==
  ASSUME Partition
  PROVE  /\ IsFiniteSet(Cells)
         /\ \A c \in Cells : /\ part[c] \in Ranks /\ c \in SUBSET Nat
                             /\ IsFiniteSet(c)
                             /\ \A f \in FacesOf(c) :
                                  Cardinality({d \in Cells : f \subseteq d}) <= 2
<1>1. PICK mesh \in Meshes : part \in [mesh -> Ranks]
  BY DEF Partition
<1>2. Cells = mesh
  BY <1>1 DEF Cells
<1>. QED BY <1>1, <1>2, MeshAssumption

(* One level of ghosts or more surrounds the cells of a rank.              *)
LEMMA LocalCells ==
  ASSUME Partition, NEW r \in Ranks
  PROVE  /\ Mine(r) \subseteq localCells[r]
         /\ localCells[r] \subseteq Cells
         /\ \A c \in Mine(r) : Neighbours(c) \subseteq localCells[r]
<1> DEFINE around(X) == UNION {Neighbours(c) : c \in X}
           Levels(g) == g = [n \in 0 .. GhostLevels |->
                               IF n = 0 THEN Mine(r)
                               ELSE g[n - 1] \union around(g[n - 1])]
           step == [p \in Nat \X SUBSET Cells |-> p[2] \union around(p[2])]
<1>1. GhostLevels \in Nat /\ GhostLevels >= 1
  BY MeshAssumption
<1>2. Mine(r) \in SUBSET Cells /\ \A c : Neighbours(c) \subseteq Cells
  BY DEF Mine, Neighbours
<1>3. \A X \in SUBSET Cells : X \union around(X) \in SUBSET Cells
  BY <1>2
<1> HIDE DEF around
<1>4. step \in [Nat \X SUBSET Cells -> SUBSET Cells]
  BY <1>3
<1>5. PICK g \in [0 .. GhostLevels -> SUBSET Cells] :
        g = [k \in 0 .. GhostLevels |->
               IF k = 0 THEN Mine(r) ELSE step[<<k, g[k - 1]>>]]
  <2> HIDE DEF step
  <2>1. Recursion(SUBSET Cells, Mine(r), step, GhostLevels)
    BY <1>1, <1>2, <1>4, RecursionExists
  <2>. QED BY <2>1 DEF Recursion
<1>6. ASSUME NEW k \in 0 .. GhostLevels, k # 0
      PROVE  g[k] = g[k - 1] \union around(g[k - 1])
  <2>1. <<k, g[k - 1]>> \in Nat \X SUBSET Cells
    BY <1>1, <1>6
  <2>2. g[k] = step[<<k, g[k - 1]>>]
    BY <1>5, <1>6
  <2>. QED BY <2>1, <2>2
<1>7. g[0] = Mine(r)
  BY <1>5, <1>1
<1>8. Levels(g)
  BY <1>6, <1>7
<1> DEFINE level == CHOOSE h : Levels(h)
<1>9. Levels(level)
  BY <1>8
<1>10. localCells[r] = level[GhostLevels]
  BY DEF Partition, Decomposed, around
<1> HIDE DEF level
<1>11. \A k \in 0 .. GhostLevels :
         level[k] = IF k = 0 THEN Mine(r)
                    ELSE level[k - 1] \union around(level[k - 1])
  BY <1>9
<1> DEFINE Bad == {k \in 0 .. GhostLevels :
                     ~(level[k] \subseteq Cells /\ Mine(r) \subseteq level[k]
                       /\ (k # 0 => around(Mine(r)) \subseteq level[k]))}
<1>12. Bad = {}
  <2> SUFFICES ASSUME Bad # {} PROVE FALSE
    OBVIOUS
  <2>1. Bad \in SUBSET Nat
    BY <1>1
  <2>2. PICK k \in Bad : \A y \in Bad : k <= y
    <3> HIDE DEF Bad
    <3>. QED BY <2>1, Least
  <2>3. k # 0
    BY <1>2, <1>11
  <2>4. k - 1 \in 0 .. GhostLevels /\ k - 1 \notin Bad
    BY <2>2, <2>3, <1>1
  <2>5. /\ level[k] = level[k - 1] \union around(level[k - 1])
        /\ level[k - 1] \in SUBSET Cells /\ Mine(r) \subseteq level[k - 1]
        /\ k - 1 # 0 => around(Mine(r)) \subseteq level[k - 1]
    BY <1>11, <2>3, <2>4
  <2>6. level[k] \in SUBSET Cells
    BY <2>5, <1>3
  <2>7. around(Mine(r)) \subseteq level[k]
    <3>1. CASE k - 1 = 0
      <4>0. 0 \in 0 .. GhostLevels
        BY <1>1
      <4>1. level[0] = Mine(r)
        BY <4>0, <1>11
      <4>2. level[k - 1] = Mine(r)
        BY <3>1, <4>1
      <4>. QED BY <4>2, <2>5
    <3>. QED BY <3>1, <2>5
  <2>. QED BY <2>5, <2>6, <2>7
<1>13. GhostLevels \in 0 .. GhostLevels /\ GhostLevels # 0
  BY <1>1
<1>14. level[GhostLevels] \subseteq Cells /\ Mine(r) \subseteq level[GhostLevels]
       /\ around(Mine(r)) \subseteq level[GhostLevels]
  BY <1>12, <1>13
<1>. QED BY <1>10, <1>14 DEF around

(* The mesh that the program starts with.                                  *)
LEMMA MeshFacts ==
  ASSUME Partition
  PROVE  MeshOK
BY CellFacts, LocalCells DEF MeshOK

(* The cells around a face.                                                *)
Both(f) == {d \in Cells : f \subseteq d}

(* A face of a rank's local mesh has one or two cells.                     *)
LEMMA FaceFacts ==
  ASSUME MeshOK, NEW r \in Ranks, NEW f \in LocalFaces(r)
  PROVE  /\ f \in SUBSET Nat /\ IsFiniteSet(f)
         /\ Cardinality(f) = MeshDimension
         /\ IsFiniteSet(Both(f)) /\ Cardinality(Both(f)) \in 0 .. 2
         /\ Around(r, f) \subseteq Both(f) /\ Around(r, f) # {}
<1>1. PICK c \in localCells[r] : f \in FacesOf(c)
  BY DEF LocalFaces
<1>2. c \in Cells
  BY <1>1 DEF MeshOK
<1>3. f \in SUBSET c /\ Cardinality(f) = MeshDimension
  BY <1>1 DEF FacesOf
<1>4. f \in SUBSET Nat /\ IsFiniteSet(f)
  BY <1>2, <1>3, FS_Subset DEF MeshOK
<1>5. IsFiniteSet(Both(f)) /\ Cardinality(Both(f)) \in Nat
  <2>1. Both(f) \in SUBSET Cells
    BY DEF Both
  <2>. QED BY <2>1, FS_Subset, FS_CardinalityType DEF MeshOK
<1>6. Cardinality(Both(f)) <= 2
  BY <1>1, <1>2 DEF Both, MeshOK
<1>7. Around(r, f) \subseteq Both(f) /\ c \in Around(r, f)
  BY <1>1, <1>3 DEF Around, Both, MeshOK
<1>. QED BY <1>3, <1>4, <1>5, <1>6, <1>7

(* A rank that has a cell of a face knows all its cells.                   *)
LEMMA OwnCellShowsFace ==
  ASSUME MeshOK, NEW r \in Ranks, NEW f \in LocalFaces(r),
         NEW c \in Mine(r), f \subseteq c
  PROVE  Around(r, f) = Both(f)
<1>1. c \in Cells
  BY DEF Mine
<1>2. ASSUME NEW d \in Both(f) PROVE d \in localCells[r]
  <2>1. CASE d = c
    BY <2>1 DEF MeshOK
  <2>2. CASE d # c
    <3>1. IsFiniteSet(c \intersect d) /\ f \in SUBSET (c \intersect d)
      BY <1>1, FS_Intersection DEF Both, MeshOK
    <3>2. Cardinality(f) <= Cardinality(c \intersect d)
      BY <3>1, FS_Subset
    <3>3. Cardinality(c \intersect d) \in Nat
      BY <3>1, FS_CardinalityType
    <3>4. Cardinality(c \intersect d) >= NCommon
      BY <3>2, <3>3, FaceFacts, MeshAssumption
    <3>5. d \in Neighbours(c)
      BY <3>4, <2>2 DEF Neighbours, Both
    <3>. QED BY <3>5 DEF MeshOK
  <2>. QED BY <2>1, <2>2
<1>. QED BY <1>2, FaceFacts DEF Around, Both

(* An owner has a cell of its face and takes both cells into account.      *)
LEMMA OwnerDecides ==
  ASSUME MeshOK, NEW r \in Ranks, NEW f \in Owned(r)
  PROVE  /\ Cardinality(Both(f) \intersect Mine(r)) \in 1 .. 2
         /\ Cardinality(Both(f) \intersect Mine(r)) = 1 =>
              r = InterfaceOwner(r, {part[c] : c \in Both(f)})
<1> DEFINE owners == {part[c] : c \in Around(r, f)}
           k == Cardinality(Around(r, f) \intersect Mine(r))
<1>1. f \in LocalFaces(r) /\ getEntityOwner(r, f) = r
  BY DEF Owned
<1>2. Around(r, f) \intersect Mine(r) = Both(f) \intersect Mine(r)
  BY DEF Around, Both, Mine, MeshOK
<1>3. IsFiniteSet(Both(f) \intersect Mine(r)) /\ k \in 0 .. 2
  <2>1. Both(f) \intersect Mine(r) \in SUBSET Both(f)
    OBVIOUS
  <2>2. IsFiniteSet(Both(f)) /\ Cardinality(Both(f)) \in 0 .. 2
    BY <1>1, FaceFacts
  <2>3. IsFiniteSet(Both(f) \intersect Mine(r))
        /\ Cardinality(Both(f) \intersect Mine(r)) <= Cardinality(Both(f))
    BY <2>1, <2>2, FS_Subset
  <2>4. Cardinality(Both(f) \intersect Mine(r)) \in Nat
    BY <2>3, FS_CardinalityType
  <2>. QED BY <1>2, <2>2, <2>3, <2>4
<1>4. owners \in SUBSET Nat /\ owners # {}
  <2>1. \A c \in Around(r, f) : part[c] \in Nat
    <3>1. Around(r, f) \subseteq Cells
      BY <1>1, FaceFacts DEF Both
    <3>2. Ranks \subseteq Nat
      BY MeshAssumption DEF Ranks
    <3>. QED BY <3>1, <3>2 DEF MeshOK
  <2>. QED BY <2>1, <1>1, FaceFacts
<1>5. k # 0
  <2> SUFFICES ASSUME k = 0 PROVE FALSE
    OBVIOUS
  <2>1. Around(r, f) \intersect Mine(r) = {}
    BY <1>2, <1>3, FS_EmptySet
  <2>2. getEntityOwner(r, f) = Min(owners)
    BY DEF getEntityOwner
  <2>3. r \in owners
    BY <2>2, <1>1, <1>4, MinIsLeast
  <2>4. PICK c \in Around(r, f) : part[c] = r
    BY <2>3
  <2>5. c \in Mine(r)
    BY <2>4, <1>1, FaceFacts DEF Mine, Both
  <2>. QED BY <2>1, <2>4, <2>5
<1>6. PICK c \in Mine(r) : f \subseteq c
  <2>1. Both(f) \intersect Mine(r) # {}
    BY <1>2, <1>5, FS_EmptySet
  <2>. QED BY <2>1 DEF Both
<1>7. Around(r, f) = Both(f)
  BY <1>1, <1>6, OwnCellShowsFace
<1>8. k = 1 => getEntityOwner(r, f) = InterfaceOwner(r, owners)
  BY DEF getEntityOwner
<1>. QED BY <1>1, <1>2, <1>3, <1>5, <1>7, <1>8

(* No two ranks own a face.                                                *)
LEMMA OneOwner ==
  ASSUME MeshOK, NEW q \in Ranks, NEW r \in Ranks,
         NEW f \in Owned(q), f \in Owned(r)
  PROVE  q = r
<1> SUFFICES ASSUME q # r PROVE FALSE
  OBVIOUS
<1> DEFINE Q == Both(f) \intersect Mine(q)
           R == Both(f) \intersect Mine(r)
<1>1. IsFiniteSet(Both(f)) /\ Cardinality(Both(f)) \in 0 .. 2
  BY FaceFacts DEF Owned
<1>2. IsFiniteSet(Q) /\ IsFiniteSet(R) /\ Q \intersect R = {}
  BY <1>1, FS_Intersection DEF Mine
<1>3. Cardinality(Q \union R) = Cardinality(Q) + Cardinality(R)
  <2>1. Cardinality(Q) \in Nat /\ Cardinality(R) \in Nat
    BY <1>2, FS_CardinalityType
  <2>2. Cardinality(Q \union R)
          = Cardinality(Q) + Cardinality(R) - Cardinality(Q \intersect R)
    BY <1>2, FS_Union
  <2>3. Cardinality(Q \intersect R) = 0
    BY <1>2, FS_EmptySet
  <2>. QED BY <2>1, <2>2, <2>3
<1>4. Cardinality(Q \union R) <= Cardinality(Both(f))
  <2>1. Q \union R \in SUBSET Both(f)
    OBVIOUS
  <2>. QED BY <2>1, <1>1, FS_Subset
<1>5. Cardinality(Q) \in 1 .. 2 /\ Cardinality(R) \in 1 .. 2
  BY OwnerDecides
<1>6. Cardinality(Q) = 1 /\ Cardinality(R) = 1
  BY <1>1, <1>3, <1>4, <1>5
<1>7. q = InterfaceOwner(q, {part[c] : c \in Both(f)})
      /\ r = InterfaceOwner(r, {part[c] : c \in Both(f)})
  BY <1>6, OwnerDecides
<1>. QED BY <1>7 DEF InterfaceOwner

-----------------------------------------------------------------------------
(* Numbers of faces.                                                       *)

(* The vertices that only one of two faces has.                            *)
Difference(f, g) == (g \ f) \union (f \ g)

(* The order of faces is total ...                                         *)
LEMMA BeforeFacts ==
  ASSUME NEW f \in SUBSET Nat, NEW g \in SUBSET Nat
  PROVE  /\ ~Before(f, f)
         /\ f # g => Before(f, g) \/ Before(g, f)
         /\ Before(f, g) => ~Before(g, f)
<1>1. (g \ f) \union (f \ g) = (f \ g) \union (g \ f)
  OBVIOUS
<1>2. CASE f # g
  <2>1. Difference(f, g) \in SUBSET Nat /\ Difference(f, g) # {}
    BY <1>2 DEF Difference
  <2>2. Min(Difference(f, g)) \in Difference(f, g)
    BY <2>1, MinIsLeast
  <2>. QED BY <1>1, <1>2, <2>2 DEF Before, Difference
<1>. QED BY <1>2 DEF Before

(* ... and transitive.                                                     *)
LEMMA BeforeTransitive ==
  ASSUME NEW f \in SUBSET Nat, NEW g \in SUBSET Nat, NEW h \in SUBSET Nat,
         Before(h, g), Before(g, f)
  PROVE  Before(h, f)
<1> DEFINE a == Min(Difference(g, h))
           b == Min(Difference(f, g))
           m == Min(Difference(f, h))
<1>1. Difference(g, h) \in SUBSET Nat /\ Difference(g, h) # {}
      /\ Difference(f, g) \in SUBSET Nat /\ Difference(f, g) # {}
  BY DEF Before, Difference
<1>2. /\ a \in h \ g /\ \A x \in Difference(g, h) : a <= x
      /\ b \in g \ f /\ \A x \in Difference(f, g) : b <= x
  <2>1. a \in h /\ b \in g
    <3>1. Difference(g, h) = (h \ g) \union (g \ h)
          /\ Difference(f, g) = (g \ f) \union (f \ g)
      BY DEF Difference
    <3>2. Difference(g, h) = (g \ h) \union (h \ g)
          /\ Difference(f, g) = (f \ g) \union (g \ f)
      BY DEF Difference
    <3>. QED BY <3>1, <3>2 DEF Before
  <2>2. /\ a \in Difference(g, h) /\ \A x \in Difference(g, h) : a <= x
        /\ b \in Difference(f, g) /\ \A x \in Difference(f, g) : b <= x
    BY <1>1, MinIsLeast
  <2>. QED BY <2>1, <2>2 DEF Difference
<1> HIDE DEF a, b
<1>3. a \in Nat /\ b \in Nat /\ a # b
  BY <1>2
<1>4. PICK c \in h \ f : \A x \in Difference(f, h) : c <= x
  <2>1. \A x \in Difference(f, h) :
          x \in Nat /\ (x \in Difference(g, h) \/ x \in Difference(f, g))
    BY DEF Difference
  <2>2. CASE a < b
    <3>1. a \notin f
      BY <1>2, <1>3, <2>2 DEF Difference
    <3>. QED BY <1>2, <1>3, <2>1, <2>2, <3>1
  <2>3. CASE b < a
    <3>1. b \in h
      BY <1>2, <1>3, <2>3 DEF Difference
    <3>. QED BY <1>2, <1>3, <2>1, <2>3, <3>1
  <2>. QED BY <1>3, <2>2, <2>3
<1>5. Difference(f, h) \in SUBSET Nat /\ c \in Difference(f, h)
  BY <1>4 DEF Difference
<1>6. m \in Difference(f, h) /\ m <= c
  BY <1>5, MinIsLeast
<1>7. m = c
  BY <1>4, <1>5, <1>6
<1>8. Difference(f, h) = (h \ f) \union (f \ h)
      /\ Difference(f, h) = (f \ h) \union (h \ f)
  BY DEF Difference
<1>. QED BY <1>4, <1>7, <1>8 DEF Before

(* Positions among the faces of a rank differ and are below their number.  *)
LEMMA PositionFacts ==
  ASSUME NEW F \in SUBSET SUBSET Nat, IsFiniteSet(F), NEW f \in F
  PROVE  /\ Position(f, F) \in Nat
         /\ Position(f, F) < Cardinality(F)
         /\ \A g \in F : Before(g, f) => Position(g, F) < Position(f, F)
<1> DEFINE below(g) == {h \in F : Before(h, g)}
<1>1. \A g : IsFiniteSet(below(g)) /\ Position(g, F) = Cardinality(below(g))
             /\ Cardinality(below(g)) \in Nat
  <2> TAKE g
  <2>1. below(g) \in SUBSET F
    OBVIOUS
  <2>2. IsFiniteSet(below(g))
    BY <2>1, FS_Subset
  <2>. QED BY <2>2, FS_CardinalityType DEF Position
<1>2. Cardinality(below(f)) < Cardinality(F)
  <2>1. below(f) \in SUBSET F /\ f \notin below(f)
    BY BeforeFacts
  <2>2. Cardinality(F) \in Nat /\ Cardinality(below(f)) <= Cardinality(F)
        /\ Cardinality(below(f)) # Cardinality(F)
    BY <2>1, FS_Subset, FS_CardinalityType
  <2>. QED BY <1>1, <2>2
<1>3. ASSUME NEW g \in F, Before(g, f)
      PROVE  Cardinality(below(g)) < Cardinality(below(f))
  <2>1. below(g) \in SUBSET below(f)
    BY <1>3, BeforeTransitive
  <2>2. g \in below(f) /\ g \notin below(g)
    BY <1>3, BeforeFacts
  <2>3. Cardinality(below(g)) <= Cardinality(below(f))
        /\ Cardinality(below(g)) # Cardinality(below(f))
    BY <1>1, <2>1, <2>2, FS_Subset
  <2>. QED BY <1>1, <2>3
<1> HIDE DEF below
<1>4. Position(f, F) \in Nat /\ Position(f, F) < Cardinality(F)
  BY <1>1, <1>2
<1>5. ASSUME NEW g \in F, Before(g, f)
      PROVE  Position(g, F) < Position(f, F)
  BY <1>1, <1>3, <1>5
<1>. QED BY <1>4, <1>5

(* The faces of a rank can be counted.                                     *)
LEMMA OwnedFinite ==
  ASSUME MeshOK, NEW r \in Ranks
  PROVE  /\ IsFiniteSet(LocalFaces(r)) /\ LocalFaces(r) \in SUBSET SUBSET Nat
         /\ IsFiniteSet(Owned(r)) /\ Owned(r) \in SUBSET SUBSET Nat
         /\ Cardinality(Owned(r)) \in Nat
<1>1. LocalFaces(r) \in SUBSET SUBSET Nat
  BY FaceFacts
<1>2. LocalFaces(r) \in SUBSET SUBSET UNION Cells
  BY DEF LocalFaces, FacesOf, MeshOK
<1>3. IsFiniteSet(UNION Cells)
  BY FS_UNION DEF MeshOK
<1>4. IsFiniteSet(SUBSET UNION Cells)
  BY <1>3, FS_SUBSET
<1>5. IsFiniteSet(LocalFaces(r))
  BY <1>2, <1>4, FS_Subset
<1>6. Owned(r) \in SUBSET LocalFaces(r)
  BY DEF Owned
<1>7. IsFiniteSet(Owned(r))
  BY <1>5, <1>6, FS_Subset
<1>. QED BY <1>1, <1>5, <1>6, <1>7, FS_CardinalityType

(* The indices of a rank lie between those of lower and of higher ranks.   *)
LEMMA IndexRange ==
  ASSUME MeshOK, NEW r \in Ranks, NEW f \in Owned(r)
  PROVE  /\ Counts \in [Ranks -> Nat]
         /\ ExclusiveScan(Counts)[r] \in Nat
         /\ TrueIndex(r, f) \in Nat
         /\ ExclusiveScan(Counts)[r] <= TrueIndex(r, f)
         /\ TrueIndex(r, f) < ExclusiveScan(Counts)[r] + Counts[r]
<1>1. Counts \in [Ranks -> Nat] /\ Counts[r] = Cardinality(Owned(r))
  BY OwnedFinite DEF Counts
<1>2. r \in 0 .. NumRanks
  BY MeshAssumption DEF Ranks
<1>3. ExclusiveScan(Counts)[r] \in Nat
  BY <1>1, <1>2, ScanFacts
<1>4. Position(f, Owned(r)) \in Nat /\ Position(f, Owned(r)) < Counts[r]
  BY <1>1, OwnedFinite, PositionFacts
<1>. QED BY <1>1, <1>3, <1>4 DEF TrueIndex

(* Two faces have two indices.                                             *)
LEMMA IndicesDiffer ==
  ASSUME MeshOK, NEW q \in Ranks, NEW r \in Ranks,
         NEW f \in Owned(q), NEW g \in Owned(r)
  PROVE  TrueIndex(q, f) = TrueIndex(r, g) <=> f = g
<1>1. ASSUME f = g PROVE TrueIndex(q, f) = TrueIndex(r, g)
  BY <1>1, OneOwner
<1>2. ASSUME NEW p \in Ranks, NEW s \in Ranks, p < s,
             NEW h \in Owned(p), NEW k \in Owned(s)
      PROVE  TrueIndex(p, h) < TrueIndex(s, k)
  <2>1. ExclusiveScan(Counts)[p] + Counts[p] <= ExclusiveScan(Counts)[s]
    BY <1>2, IndexRange, ScanIncreases
  <2>2. /\ TrueIndex(p, h) \in Nat
        /\ TrueIndex(p, h) < ExclusiveScan(Counts)[p] + Counts[p]
    BY IndexRange
  <2>3. TrueIndex(s, k) \in Nat /\ ExclusiveScan(Counts)[s] <= TrueIndex(s, k)
    BY IndexRange
  <2>4. ExclusiveScan(Counts)[p] \in Nat /\ ExclusiveScan(Counts)[s] \in Nat
        /\ Counts[p] \in Nat
    BY IndexRange
  <2>. QED BY <2>1, <2>2, <2>3, <2>4
<1>3. ASSUME q = r, f # g PROVE TrueIndex(q, f) # TrueIndex(r, g)
  <2>1. Owned(r) \in SUBSET SUBSET Nat /\ IsFiniteSet(Owned(r))
    BY OwnedFinite
  <2>2. f \in Owned(r)
    BY <1>3
  <2>3. Before(f, g) \/ Before(g, f)
    BY <1>3, <2>1, <2>2, BeforeFacts
  <2>4. Position(f, Owned(r)) \in Nat /\ Position(g, Owned(r)) \in Nat
        /\ Position(f, Owned(r)) # Position(g, Owned(r))
    BY <2>1, <2>2, <2>3, PositionFacts
  <2>5. ExclusiveScan(Counts)[r] \in Nat
    BY IndexRange
  <2>. QED BY <1>3, <2>4, <2>5 DEF TrueIndex
<1>4. q \in Int /\ r \in Int
  BY MeshAssumption DEF Ranks
<1>5. CASE q < r
  <2>1. TrueIndex(q, f) < TrueIndex(r, g)
    BY <1>2, <1>5
  <2>2. TrueIndex(q, f) \in Nat /\ TrueIndex(r, g) \in Nat
    BY IndexRange
  <2>. QED BY <1>1, <2>1, <2>2
<1>6. CASE r < q
  <2>1. TrueIndex(r, g) < TrueIndex(q, f)
    BY <1>2, <1>6
  <2>2. TrueIndex(q, f) \in Nat /\ TrueIndex(r, g) \in Nat
    BY IndexRange
  <2>. QED BY <1>1, <2>1, <2>2
<1>. QED BY <1>1, <1>3, <1>4, <1>5, <1>6

(* Ranks that hold valid indices agree on them.                            *)
LEMMA ValidAgree ==
  ASSUME MeshOK, NEW f, NEW g, NEW x, NEW y,
         ValidIndex(f, x), ValidIndex(g, y), x # Padding, y # Padding
  PROVE  x = y <=> f = g
<1>1. PICK q \in Ranks : f \in Owned(q) /\ x = TrueIndex(q, f)
  BY DEF ValidIndex
<1>2. PICK r \in Ranks : g \in Owned(r) /\ y = TrueIndex(r, g)
  BY DEF ValidIndex
<1>. QED BY <1>1, <1>2, IndicesDiffer

-----------------------------------------------------------------------------
(* Messages on their way.                                                  *)

(* A message that is appended comes last.                                  *)
LEMMA AppendFacts ==
  ASSUME NEW s, IsSequence(s), NEW e
  PROVE  /\ IsSequence(Append(s, e)) /\ Append(s, e) # <<>>
         /\ Len(s) \in Nat /\ Len(Append(s, e)) = Len(s) + 1
         /\ DOMAIN s = 1 .. Len(s) /\ DOMAIN Append(s, e) = 1 .. (Len(s) + 1)
         /\ \A j \in 1 .. Len(s) : Append(s, e)[j] = s[j]
         /\ Append(s, e)[Len(s) + 1] = e
<1>1. PICK S : s \in Seq(S)
  BY DEF IsSequence
<1>2. s \in Seq(S \union {e}) /\ e \in S \union {e}
  BY <1>1
<1>3. Append(s, e) \in Seq(S \union {e})
  BY <1>2
<1>4. IsSequence(Append(s, e))
  BY <1>3 DEF IsSequence
<1>5. /\ Len(s) \in Nat /\ Len(Append(s, e)) = Len(s) + 1
      /\ DOMAIN s = 1 .. Len(s) /\ DOMAIN Append(s, e) = 1 .. (Len(s) + 1)
      /\ \A j \in 1 .. Len(s) : Append(s, e)[j] = s[j]
      /\ Append(s, e)[Len(s) + 1] = e
  BY <1>2
<1>6. Append(s, e) # <<>>
  BY <1>3, <1>5
<1>. QED BY <1>4, <1>5, <1>6

(* The first message is taken.                                             *)
LEMMA TailFacts ==
  ASSUME NEW s, IsSequence(s), s # <<>>
  PROVE  /\ IsSequence(Tail(s))
         /\ Len(s) \in Nat /\ Len(s) >= 1 /\ Len(Tail(s)) = Len(s) - 1
         /\ DOMAIN s = 1 .. Len(s) /\ DOMAIN Tail(s) = 1 .. (Len(s) - 1)
         /\ \A j \in 1 .. (Len(s) - 1) : Tail(s)[j] = s[j + 1]
         /\ 1 \in DOMAIN s /\ Head(s) = s[1]
<1>1. PICK S : s \in Seq(S)
  BY DEF IsSequence
<1>2. Tail(s) \in Seq(S) /\ Len(s) \in Nat /\ Len(s) >= 1
  BY <1>1
<1>3. IsSequence(Tail(s))
  BY <1>2 DEF IsSequence
<1>4. /\ Len(Tail(s)) = Len(s) - 1
      /\ DOMAIN s = 1 .. Len(s) /\ DOMAIN Tail(s) = 1 .. (Len(s) - 1)
      /\ \A j \in 1 .. (Len(s) - 1) : Tail(s)[j] = s[j + 1]
      /\ Head(s) = s[1]
  BY <1>1, <1>2
<1>. QED BY <1>2, <1>3, <1>4

(* A sequence of positive length has a message.                            *)
LEMMA LengthFacts ==
  ASSUME NEW s, IsSequence(s)
  PROVE  Len(s) \in Nat /\ DOMAIN s = 1 .. Len(s) /\ (Len(s) > 0 => s # <<>>)
<1>1. PICK S : s \in Seq(S)
  BY DEF IsSequence
<1>. QED BY <1>1

(* The mail is a box for every pair of ranks.                              *)
IsMail(box) == DOMAIN box = Ranks /\ \A q \in Ranks : DOMAIN box[q] = Ranks

(* Taken() removes the first messages to rank r.                           *)
LEMMA TakenBox ==
  ASSUME IsMail(mail), NEW r \in Ranks, NEW S
  PROVE  /\ IsMail(Taken(r, S))
         /\ \A q \in Ranks, x \in Ranks :
              Taken(r, S)[q][x] = IF x = r /\ q \in S THEN Tail(mail[q][x])
                                                      ELSE mail[q][x]
BY DEF IsMail, Taken

(* Posted() appends a message of rank r.                                   *)
LEMMA PostedBox ==
  ASSUME NEW box, IsMail(box), NEW r \in Ranks, NEW T, NEW l, NEW m
  PROVE  /\ IsMail(Posted(box, r, T, l, m))
         /\ \A q \in Ranks, x \in Ranks :
              Posted(box, r, T, l, m)[q][x] =
                IF q = r /\ x \in T THEN Append(box[q][x], <<l, m[x]>>)
                                    ELSE box[q][x]
BY DEF IsMail, Posted

(* Exchanged() does both, with all ranks.                                  *)
LEMMA ExchangedBox ==
  ASSUME IsMail(mail), NEW r \in Ranks, NEW l, NEW m
  PROVE  /\ IsMail(Exchanged(r, l, m))
         /\ \A q \in Ranks, x \in Ranks : q # r /\ x # r =>
              Exchanged(r, l, m)[q][x] = mail[q][x]
         /\ \A q \in Ranks : q # r => Exchanged(r, l, m)[q][r] = Tail(mail[q][r])
         /\ \A x \in Ranks : x # r =>
              Exchanged(r, l, m)[r][x] = Append(mail[r][x], <<l, m[x]>>)
         /\ Exchanged(r, l, m)[r][r] = Append(Tail(mail[r][r]), <<l, m[r]>>)
<1> DEFINE box == Taken(r, Ranks)
<1>1. /\ IsMail(box)
      /\ \A q \in Ranks, x \in Ranks :
           box[q][x] = IF x = r THEN Tail(mail[q][x]) ELSE mail[q][x]
  BY TakenBox
<1>2. Exchanged(r, l, m) = Posted(box, r, Ranks, l, m)
  BY DEF Exchanged
<1> HIDE DEF box
<1>3. /\ IsMail(Exchanged(r, l, m))
      /\ \A q \in Ranks, x \in Ranks :
           Exchanged(r, l, m)[q][x] =
             IF q = r THEN Append(box[q][x], <<l, m[x]>>) ELSE box[q][x]
  BY <1>1, <1>2, PostedBox
<1> DEFINE new == Exchanged(r, l, m)
<1>4. /\ \A q \in Ranks, x \in Ranks : q # r => new[q][x] = box[q][x]
      /\ \A x \in Ranks : new[r][x] = Append(box[r][x], <<l, m[x]>>)
  BY <1>3
<1>5. IsMail(new)
  BY <1>3
<1> HIDE DEF new
<1>6. \A q \in Ranks, x \in Ranks : q # r /\ x # r => new[q][x] = mail[q][x]
  BY <1>1, <1>4
<1>7. \A q \in Ranks : q # r => new[q][r] = Tail(mail[q][r])
  BY <1>1, <1>4
<1>8. \A x \in Ranks : x # r => new[r][x] = Append(mail[r][x], <<l, m[x]>>)
  BY <1>1, <1>4
<1>9. new[r][r] = Append(Tail(mail[r][r]), <<l, m[r]>>)
  BY <1>1, <1>4
<1>. QED BY <1>5, <1>6, <1>7, <1>8, <1>9 DEF new

(* What a rank that no longer distributes faces does to the mail of others.*)
Later(r, box) ==
  /\ IsMail(box)
  /\ \A q \in Ranks, x \in Ranks : q # r /\ x # r => box[q][x] = mail[q][x]
  /\ \A x \in Ranks : x # r =>
       box[r][x] = mail[r][x] \/ \E e : box[r][x] = Append(mail[r][x], e)

(* It posts messages, takes some, or does both.                            *)
LEMMA LaterBox ==
  ASSUME IsMail(mail), NEW r \in Ranks
  PROVE  /\ \A T, l, m : Later(r, Posted(mail, r, T, l, m))
         /\ \A S : Later(r, Taken(r, S))
         /\ \A S, T, l, m : Later(r, Posted(Taken(r, S), r, T, l, m))
<1>1. ASSUME NEW S PROVE Later(r, Taken(r, S))
  BY TakenBox DEF Later
<1>2. ASSUME NEW box, Later(r, box), \A x \in Ranks : x # r => box[r][x] = mail[r][x],
             NEW T, NEW l, NEW m
      PROVE  Later(r, Posted(box, r, T, l, m))
  <2>1. IsMail(box)
    BY <1>2 DEF Later
  <2> DEFINE new == Posted(box, r, T, l, m)
  <2>2. /\ IsMail(new)
        /\ \A q \in Ranks, x \in Ranks :
             new[q][x] = IF q = r /\ x \in T THEN Append(box[q][x], <<l, m[x]>>)
                                             ELSE box[q][x]
    BY <2>1, PostedBox
  <2> HIDE DEF new
  <2>3. ASSUME NEW x \in Ranks, x # r
        PROVE  new[r][x] = mail[r][x] \/ \E e : new[r][x] = Append(mail[r][x], e)
    <3>1. box[r][x] = mail[r][x]
      BY <1>2, <2>3
    <3>2. new[r][x] = mail[r][x] \/ new[r][x] = Append(mail[r][x], <<l, m[x]>>)
      BY <2>2, <3>1
    <3>. QED BY <3>2
  <2>4. \A q \in Ranks, x \in Ranks : q # r /\ x # r => new[q][x] = mail[q][x]
    <3> TAKE q \in Ranks, x \in Ranks
    <3>1. q # r => new[q][x] = box[q][x]
      BY <2>2
    <3>2. q # r /\ x # r => box[q][x] = mail[q][x]
      BY <1>2 DEF Later
    <3>. QED BY <3>1, <3>2
  <2>5. Later(r, new)
    BY <2>2, <2>3, <2>4 DEF Later
  <2>. QED BY <2>5 DEF new
<1>3. Later(r, mail)
  BY DEF Later
<1>4. ASSUME NEW T, NEW l, NEW m PROVE Later(r, Posted(mail, r, T, l, m))
  BY <1>2, <1>3
<1>5. ASSUME NEW S, NEW T, NEW l, NEW m
      PROVE  Later(r, Posted(Taken(r, S), r, T, l, m))
  <2>1. \A x \in Ranks : x # r => Taken(r, S)[r][x] = mail[r][x]
    BY TakenBox
  <2>. QED BY <1>1, <1>2, <2>1
<1>. QED BY <1>1, <1>4, <1>5

-----------------------------------------------------------------------------
(* Terms of the mesh, which no step changes.                               *)

(* The mesh and its partition stay, and with them the owners and what they *)
(* make of the mesh.                                                       *)
LEMMA MeshKept ==
  ASSUME UNCHANGED meshVars
  PROVE  /\ MeshOK' = MeshOK
         /\ \A r \in Ranks : /\ LocalFaces(r)' = LocalFaces(r)
                             /\ Owned(r)' = Owned(r)
                             /\ \A f : getEntityOwner(r, f)' = getEntityOwner(r, f)
                             /\ \A f : TrueIndex(r, f)' = TrueIndex(r, f)
         /\ \A q, r \in Ranks : Asked(q, r)' = Asked(q, r)
         /\ \A F, i : ValidIndices(F, i)' = ValidIndices(F, i)
<1>1. part' = part /\ localCells' = localCells /\ preferHighRanks' = preferHighRanks
  BY DEF meshVars
<1>2. Cells' = Cells
  BY <1>1 DEF Cells
<1>3. \A r : Mine(r)' = Mine(r)
  BY <1>1, <1>2 DEF Mine
<1>4. \A c : Neighbours(c)' = Neighbours(c)
  BY <1>2 DEF Neighbours
<1>5. MeshOK' = MeshOK
  BY <1>1, <1>2, <1>3, <1>4 DEF MeshOK
<1>6. \A r, f : Around(r, f)' = Around(r, f)
  BY <1>1 DEF Around
<1>7. \A r, f : getEntityOwner(r, f)' = getEntityOwner(r, f)
  <2> TAKE r, f
  <2> DEFINE owners == {part[c] : c \in Around(r, f)}
  <2>1. owners' = owners
    BY <1>1, <1>6
  <2>2. InterfaceOwner(r, owners)' = InterfaceOwner(r, owners)
    BY <1>1, <2>1 DEF InterfaceOwner
  <2> HIDE DEF owners
  <2>3. Around(r, f)' = Around(r, f) /\ Mine(r)' = Mine(r)
    BY <1>3, <1>6
  <2>4. getEntityOwner(r, f) =
          CASE Cardinality(Around(r, f) \intersect Mine(r)) = 2 -> r
            [] Cardinality(Around(r, f) \intersect Mine(r)) = 1 ->
                 InterfaceOwner(r, owners)
            [] OTHER -> Min(owners)
    BY DEF getEntityOwner, owners
  <2>5. getEntityOwner(r, f)' =
          CASE Cardinality(Around(r, f)' \intersect Mine(r)') = 2 -> r
            [] Cardinality(Around(r, f)' \intersect Mine(r)') = 1 ->
                 InterfaceOwner(r, owners)'
            [] OTHER -> Min(owners')
    BY DEF getEntityOwner, owners
  <2>. QED BY <2>1, <2>2, <2>3, <2>4, <2>5
<1>8. \A r : LocalFaces(r)' = LocalFaces(r)
  BY <1>1 DEF LocalFaces
<1>9. \A r : Owned(r)' = Owned(r)
  BY <1>7, <1>8 DEF Owned
<1>10. \A q, r : Asked(q, r)' = Asked(q, r)
  BY <1>7, <1>8 DEF Asked
<1>11. Counts' = Counts
  BY <1>9 DEF Counts
<1>12. \A r, f : TrueIndex(r, f)' = TrueIndex(r, f)
  BY <1>9, <1>11 DEF TrueIndex
<1>13. \A f, x : ValidIndex(f, x)' = ValidIndex(f, x)
  BY <1>9, <1>12 DEF ValidIndex
<1>14. \A F, i : ValidIndices(F, i)' = ValidIndices(F, i)
  BY <1>13 DEF ValidIndices
<1>. QED BY <1>5, <1>7, <1>8, <1>9, <1>10, <1>12, <1>14

-----------------------------------------------------------------------------
(* Channels from one rank to another.                                      *)

(* Counts of messages are numbers, and what a rank has sent tells where it *)
(* is.                                                                     *)
LEMMA CountFacts ==
  ASSUME TypesOK, NEW r \in Ranks, pc[r] \in Distributing
  PROVE  /\ iter[r] \in Nat /\ SentCount(r) \in Nat /\ ReceivedCount(r) \in Nat
         /\ pc[r] # "start" => SentCount(r) = ReceivedCount(r) + 1
         /\ pc[r] = "start" => SentCount(r) = 0 /\ ReceivedCount(r) = 0
         /\ pc[r] = "counts" => SentCount(r) = 1
         /\ pc[r] = "seeds" => SentCount(r) = 2
         /\ pc[r] = "answers" => SentCount(r) = 3 + 2 * iter[r]
         /\ pc[r] = "done?" => SentCount(r) = 4 + 2 * iter[r]
<1>1. iter[r] \in Nat
  BY MeshAssumption DEF TypesOK
<1>. QED BY <1>1 DEF SentCount, ReceivedCount, SentBy, ReceivedBy, Distributing

(* The labels of a rank before, in and after distributeSubentities differ. *)
LEMMA LabelFacts ==
  /\ \A r : pc[r] \in Distributing =>
       ~HasLeft(r) /\ pc[r] \notin Synchronizing /\ pc[r] # "failed"
  /\ Distributing \intersect Synchronizing = {}
  /\ "failed" \notin Distributing /\ "failed" \notin Synchronizing
BY DEF HasLeft, Distributing, Synchronizing

(* A message keeps its meaning while its sender's indices are as complete  *)
(* as they were.                                                           *)
LEMMA SaysKept ==
  ASSUME UNCHANGED meshVars, NEW q \in Ranks, NEW r \in Ranks,
         Complete(q)' = Complete(q), NEW n, NEW m, Says(q, r, n, m)
  PROVE  Says(q, r, n, m)'
BY MeshKept DEF Says

(* Neither end of a channel sends or receives.                             *)
LEMMA ChannelKept ==
  ASSUME UNCHANGED meshVars, NEW q \in Ranks, NEW x \in Ranks, ChannelOK(q, x),
         pc'[q] = pc[q], iter'[q] = iter[q], Complete(q)' = Complete(q),
         globalOffsets'[q] = globalOffsets[q], mail'[q][x] = mail[q][x],
         ReceivedCount(x)' = ReceivedCount(x),
         HasLeft(q) => pc'[x] = pc[x] /\ iter'[x] = iter[x]
  PROVE  ChannelOK(q, x)'
<1>1. HasLeft(q)' = HasLeft(q)
  BY DEF HasLeft
<1>2. SentCount(q)' = SentCount(q)
  BY DEF SentCount
<1>3. ASSUME NEW j \in DOMAIN mail[q][x], HasLeft(q) => j = 1
      PROVE  Says(q, x, ReceivedCount(x) + j, mail[q][x][j][2])'
  <2>1. PICK n, m : n = ReceivedCount(x) + j /\ m = mail[q][x][j][2]
    OBVIOUS
  <2>2. Says(q, x, n, m)
    BY <1>3, <2>1 DEF ChannelOK
  <2>3. Says(q, x, n, m)'
    BY <2>2, SaysKept
  <2>4. n = (ReceivedCount(x) + j)' /\ m = (mail[q][x][j][2])'
    BY <1>2, <2>1
  <2>. QED BY <2>3, <2>4 DEF Says
<1>. QED BY <1>1, <1>2, <1>3 DEF ChannelOK

(* The receiver takes a message.                                           *)
LEMMA ChannelTaken ==
  ASSUME UNCHANGED meshVars, NEW q \in Ranks, NEW r \in Ranks, ChannelOK(q, r),
         ~HasLeft(q), mail[q][r] # <<>>, ReceivedCount(r) \in Nat,
         pc'[q] = pc[q], iter'[q] = iter[q], globalOffsets'[q] = globalOffsets[q],
         Complete(q)' = Complete(q), SentCount(q) \in Int \/ pc[q] \notin Distributing,
         ReceivedCount(r)' = ReceivedCount(r) + 1,
         mail'[q][r] = Tail(mail[q][r])
  PROVE  ChannelOK(q, r)'
<1> DEFINE s == mail[q][r]
           n == ReceivedCount(r)
<1>1. ~HasLeft(q)'
  BY DEF HasLeft
<1>2. SentCount(q)' = SentCount(q)
  BY DEF SentCount
<1>3. /\ IsSequence(Tail(s)) /\ Len(s) \in Nat /\ Len(Tail(s)) = Len(s) - 1
      /\ DOMAIN s = 1 .. Len(s) /\ DOMAIN Tail(s) = 1 .. (Len(s) - 1)
      /\ \A j \in 1 .. (Len(s) - 1) : Tail(s)[j] = s[j + 1]
  BY TailFacts DEF ChannelOK
<1>4. ASSUME NEW j \in DOMAIN mail'[q][r]
      PROVE  Says(q, r, ReceivedCount(r) + j, mail[q][r][j][2])'
  <2>1. j + 1 \in DOMAIN s /\ mail'[q][r][j] = s[j + 1] /\ j \in Nat
    BY <1>3
  <2>2. PICK k, m : k = n + (j + 1) /\ m = s[j + 1][2]
    OBVIOUS
  <2>3. Says(q, r, k, m)
    BY <2>1, <2>2 DEF ChannelOK
  <2>4. Says(q, r, k, m)'
    BY <2>3, SaysKept
  <2>5. k = (ReceivedCount(r) + j)' /\ m = (mail[q][r][j][2])'
    BY <2>1, <2>2
  <2>. QED BY <2>4, <2>5 DEF Says
<1>5. pc'[q] \in Distributing => Len(mail'[q][r]) = SentCount(q)' - ReceivedCount(r)'
  <2>1. pc[q] \in Distributing => Len(s) = SentCount(q) - n
    BY DEF ChannelOK
  <2>. QED BY <1>2, <1>3, <2>1
<1>6. IsSequence(mail'[q][r])
  BY <1>3
<1>. QED BY <1>1, <1>4, <1>5, <1>6 DEF ChannelOK

(* The sender posts its next message.                                      *)
LEMMA ChannelPosted ==
  ASSUME NEW r \in Ranks, NEW x \in Ranks,
         NEW s, IsSequence(s), NEW e, NEW n \in Nat,
         ReceivedCount(x)' \in Nat, n = ReceivedCount(x)' + Len(s),
         \A j \in DOMAIN s : Says(r, x, ReceivedCount(x) + j, s[j][2])',
         Says(r, x, n + 1, e[2])', SentCount(r)' = n + 1, pc'[r] \in Distributing,
         mail'[r][x] = Append(s, e)
  PROVE  ChannelOK(r, x)'
<1>1. ~HasLeft(r)'
  BY DEF HasLeft, Distributing, Synchronizing
<1>2. /\ IsSequence(mail'[r][x]) /\ Len(s) \in Nat
      /\ Len(mail'[r][x]) = Len(s) + 1 /\ DOMAIN s = 1 .. Len(s)
      /\ DOMAIN mail'[r][x] = 1 .. (Len(s) + 1)
      /\ \A j \in 1 .. Len(s) : mail'[r][x][j] = s[j]
      /\ mail'[r][x][Len(s) + 1] = e
  BY AppendFacts
<1>3. ASSUME NEW j \in DOMAIN mail'[r][x]
      PROVE  Says(r, x, ReceivedCount(x) + j, mail[r][x][j][2])'
  <2>1. CASE j \in 1 .. Len(s)
    BY <1>2, <2>1 DEF Says
  <2>2. CASE j = Len(s) + 1
    <3>1. (mail[r][x][j][2])' = e[2] /\ (ReceivedCount(x) + j)' = n + 1
      BY <1>2, <2>2
    <3>. QED BY <3>1 DEF Says
  <2>. QED BY <1>2, <2>1, <2>2
<1>4. Len(mail'[r][x]) = SentCount(r)' - ReceivedCount(x)'
  BY <1>2
<1>. QED BY <1>1, <1>2, <1>3, <1>4 DEF ChannelOK

(* A rank that distributes takes a message of each rank and posts one.     *)
LEMMA ExchangeKeepsMail ==
  ASSUME TypesOK, MailOK, UNCHANGED <<meshVars, globalOffsets>>,
         NEW r \in Ranks, pc[r] \in Distributing, pc[r] # "start",
         Arrived(r, Ranks), \A q \in Ranks : ~HasLeft(q),
         NEW label \in Distributing, label # "start",
         pc' = [pc EXCEPT ![r] = label], NEW k \in Nat, k = SentCount(r) + 1,
         SentCount(r)' = k, ReceivedCount(r)' = SentCount(r),
         \A x \in Ranks : x # r =>
           iter'[x] = iter[x] /\ Complete(x)' = Complete(x),
         NEW l, NEW m, mail' = Exchanged(r, l, m),
         \A x \in Ranks : Says(r, x, k, m[x])',
         \A x \in Ranks : \A n, v :
           /\ pc[x] \in Distributing /\ Says(r, x, n, v)
           /\ ReceivedCount(x) < n /\ n < k
           => Says(r, x, n, v)'
  PROVE  MailOK'
<1>0. IsMail(mail) /\ DOMAIN pc = Ranks
  BY DEF IsMail, TypesOK
<1>1. /\ pc'[r] = label /\ \A x \in Ranks : x # r => pc'[x] = pc[x]
      /\ \A x \in Ranks : globalOffsets'[x] = globalOffsets[x]
  BY <1>0
<1>2. \A x \in Ranks : ReceivedCount(x)' = IF x = r THEN ReceivedCount(x) + 1
                                                    ELSE ReceivedCount(x)
  BY <1>1, CountFacts DEF ReceivedCount
<1>3. ASSUME NEW q \in Ranks, NEW x \in Ranks, q # r, x # r,
             pc[x] \in Distributing
      PROVE  ChannelOK(q, x)'
  <2>1. mail'[q][x] = mail[q][x]
    BY <1>0, <1>3, ExchangedBox
  <2>2. ChannelOK(q, x)
    BY <1>3 DEF MailOK
  <2>3. ReceivedCount(x)' = ReceivedCount(x)
    BY <1>2, <1>3
  <2>4. /\ pc'[q] = pc[q] /\ pc'[x] = pc[x] /\ iter'[q] = iter[q]
        /\ iter'[x] = iter[x] /\ Complete(q)' = Complete(q)
        /\ globalOffsets'[q] = globalOffsets[q]
    BY <1>1, <1>3
  <2>. QED BY <2>1, <2>2, <2>3, <2>4, ChannelKept
<1>4. ASSUME NEW q \in Ranks, q # r PROVE ChannelOK(q, r)'
  <2>1. mail'[q][r] = Tail(mail[q][r])
    BY <1>0, <1>4, ExchangedBox
  <2>2. ChannelOK(q, r)
    BY DEF MailOK
  <2>3. ReceivedCount(r) \in Nat /\ (pc[q] \in Distributing => SentCount(q) \in Int)
    BY CountFacts
  <2>4. mail[q][r] # <<>>
    BY DEF Arrived
  <2>. QED BY <1>1, <1>2, <1>4, <2>1, <2>2, <2>3, <2>4, ChannelTaken
<1>5. ASSUME NEW x \in Ranks, pc[x] \in Distributing PROVE ChannelOK(r, x)'
  <2>1. ChannelOK(r, x)
    BY <1>5 DEF MailOK
  <2>2. ReceivedCount(x) \in Nat /\ SentCount(r) \in Nat
    BY <1>5, CountFacts
  <2>3. PICK s, e :
          /\ s = (IF x = r THEN Tail(mail[r][x]) ELSE mail[r][x])
          /\ e = <<l, m[x]>>
    OBVIOUS
  <2>4. mail'[r][x] = Append(s, e)
    <3>1. CASE x = r
      <4>1. mail'[r][r] = Append(Tail(mail[r][r]), <<l, m[r]>>)
        BY <1>0, ExchangedBox
      <4>. QED BY <2>3, <3>1, <4>1
    <3>2. CASE x # r
      <4>1. mail'[r][x] = Append(mail[r][x], <<l, m[x]>>)
        BY <1>0, <3>2, ExchangedBox
      <4>. QED BY <2>3, <3>2, <4>1
    <3>. QED BY <3>1, <3>2
  <2>5. ReceivedCount(x)' \in Nat
    BY <1>2, <2>2
  <2>6. /\ IsSequence(s) /\ SentCount(r) = ReceivedCount(x)' + Len(s)
        /\ \A j \in DOMAIN s : Says(r, x, ReceivedCount(x) + j, s[j][2])'
    <3>1. /\ IsSequence(mail[r][x])
          /\ Len(mail[r][x]) = SentCount(r) - ReceivedCount(x)
          /\ \A j \in DOMAIN mail[r][x] :
               Says(r, x, ReceivedCount(x) + j, mail[r][x][j][2])
      BY <2>1 DEF ChannelOK
    <3>2. Len(mail[r][x]) \in Nat /\ DOMAIN mail[r][x] = 1 .. Len(mail[r][x])
      BY <3>1, LengthFacts
    <3>3. ASSUME NEW j \in DOMAIN s, NEW i \in DOMAIN mail[r][x],
                 s[j] = mail[r][x][i], ReceivedCount(x)' + j = ReceivedCount(x) + i
          PROVE  Says(r, x, ReceivedCount(x) + j, s[j][2])'
      <4>1. PICK n, v : n = ReceivedCount(x) + i /\ v = mail[r][x][i][2]
        OBVIOUS
      <4>2. Says(r, x, n, v)
        BY <3>1, <4>1
      <4>3. ReceivedCount(x) < n /\ n < k
        BY <2>2, <3>1, <3>2, <4>1
      <4>4. Says(r, x, n, v)'
        BY <1>5, <4>2, <4>3
      <4>5. n = (ReceivedCount(x) + j)' /\ v = (s[j][2])'
        BY <3>3, <4>1
      <4>. QED BY <4>4, <4>5 DEF Says
    <3>4. CASE x = r
      <4>1. mail[r][x] # <<>> /\ s = Tail(mail[r][x])
        BY <2>3, <3>4 DEF Arrived
      <4>2. /\ IsSequence(s) /\ Len(s) = Len(mail[r][x]) - 1
            /\ DOMAIN s = 1 .. (Len(mail[r][x]) - 1)
            /\ \A j \in 1 .. (Len(mail[r][x]) - 1) : s[j] = mail[r][x][j + 1]
        BY <3>1, <4>1, TailFacts
      <4>3. ReceivedCount(x)' = ReceivedCount(x) + 1
        BY <1>2, <3>4
      <4>4. SentCount(r) = ReceivedCount(x)' + Len(s)
        BY <2>2, <3>1, <3>2, <4>2, <4>3
      <4>5. ASSUME NEW j \in DOMAIN s
            PROVE  Says(r, x, ReceivedCount(x) + j, s[j][2])'
        <5>1. j + 1 \in DOMAIN mail[r][x] /\ s[j] = mail[r][x][j + 1]
          BY <3>2, <4>2
        <5>2. ReceivedCount(x)' + j = ReceivedCount(x) + (j + 1)
          BY <2>2, <3>2, <4>2, <4>3
        <5>. QED BY <3>3, <5>1, <5>2
      <4>. QED BY <4>2, <4>4, <4>5
    <3>5. CASE x # r
      <4>1. s = mail[r][x] /\ ReceivedCount(x)' = ReceivedCount(x)
        BY <1>2, <2>3, <3>5
      <4>2. SentCount(r) = ReceivedCount(x)' + Len(s)
        BY <2>2, <3>1, <3>2, <4>1
      <4>3. ASSUME NEW j \in DOMAIN s
            PROVE  Says(r, x, ReceivedCount(x) + j, s[j][2])'
        BY <3>3, <4>1
      <4>. QED BY <3>1, <4>1, <4>2, <4>3
    <3>. QED BY <3>4, <3>5
  <2>7. PICK n \in Nat : n = SentCount(r)
    BY <2>2
  <2>8. e[2] = m[x] /\ k = n + 1
    BY <2>3, <2>7
  <2>9. Says(r, x, k, m[x])'
    OBVIOUS
  <2>10. Says(r, x, n + 1, e[2])'
    BY <2>8, <2>9 DEF Says
  <2>11. pc'[r] \in Distributing /\ SentCount(r)' = n + 1
         /\ n = ReceivedCount(x)' + Len(s)
    BY <1>1, <2>6, <2>7, <2>8
  <2>. QED BY <2>4, <2>5, <2>6, <2>10, <2>11, ChannelPosted
<1>. QED BY <1>1, <1>3, <1>4, <1>5 DEF MailOK

(* A rank posts its first messages.                                        *)
LEMMA FirstKeepsMail ==
  ASSUME TypesOK, MailOK, UNCHANGED <<meshVars, iter, index, globalOffsets>>,
         NEW r \in Ranks, pc[r] = "start", \A q \in Ranks : ~HasLeft(q),
         pc' = [pc EXCEPT ![r] = "counts"],
         NEW l, NEW m, mail' = Posted(mail, r, Ranks, l, m),
         \A x \in Ranks : Says(r, x, 1, m[x])'
  PROVE  MailOK'
<1>0. IsMail(mail) /\ DOMAIN pc = Ranks /\ pc[r] \in Distributing
  BY DEF IsMail, TypesOK, Distributing
<1>1. /\ pc'[r] = "counts" /\ \A x \in Ranks : x # r => pc'[x] = pc[x]
      /\ \A x \in Ranks : Complete(x)' = Complete(x)
  BY <1>0 DEF Complete
<1>2. /\ \A x \in Ranks : ReceivedCount(x)' = ReceivedCount(x)
      /\ SentCount(r) = 0 /\ SentCount(r)' = 1
  <2>1. \A i : SentBy("start", i) = 0 /\ SentBy("counts", i) = 1
    BY DEF SentBy
  <2>2. \A i : ReceivedBy("start", i) = 0 /\ ReceivedBy("counts", i) = 0
    BY <2>1 DEF ReceivedBy
  <2>. QED BY <1>1, <2>1, <2>2 DEF SentCount, ReceivedCount
<1>3. /\ \A q \in Ranks, x \in Ranks : q # r => mail'[q][x] = mail[q][x]
      /\ \A x \in Ranks : mail'[r][x] = Append(mail[r][x], <<l, m[x]>>)
  <2>1. \A q \in Ranks, x \in Ranks :
          Posted(mail, r, Ranks, l, m)[q][x] =
            IF q = r /\ x \in Ranks THEN Append(mail[q][x], <<l, m[x]>>)
                                    ELSE mail[q][x]
    BY <1>0, PostedBox
  <2>. QED BY <2>1
<1>4. ASSUME NEW q \in Ranks, NEW x \in Ranks, q # r, pc'[x] \in Distributing
      PROVE  ChannelOK(q, x)'
  <2>1. pc[x] \in Distributing
    BY <1>0, <1>1, <1>4
  <2>2. ChannelOK(q, x)
    BY <2>1 DEF MailOK
  <2>. QED BY <1>1, <1>2, <1>3, <1>4, <2>2, ChannelKept
<1>5. ASSUME NEW x \in Ranks, pc'[x] \in Distributing PROVE ChannelOK(r, x)'
  <2>1. pc[x] \in Distributing
    BY <1>0, <1>1, <1>5
  <2>2. ChannelOK(r, x)
    BY <2>1 DEF MailOK
  <2>3. ReceivedCount(x) \in Nat
    BY <2>1, CountFacts
  <2>4. PICK s, e : s = mail[r][x] /\ e = <<l, m[x]>>
    OBVIOUS
  <2>5. IsSequence(s) /\ Len(s) = 0 - ReceivedCount(x)
    BY <1>0, <1>2, <2>2, <2>4 DEF ChannelOK
  <2>6. Len(s) = 0 /\ ReceivedCount(x) = 0 /\ DOMAIN s = {}
    BY <2>3, <2>5, LengthFacts
  <2>7. 0 \in Nat /\ 0 = ReceivedCount(x)' + Len(s) /\ ReceivedCount(x)' \in Nat
    BY <1>2, <2>6
  <2>8. Says(r, x, 1, e[2])'
    <3>1. e[2] = m[x] /\ Says(r, x, 1, m[x])'
      BY <2>4
    <3>. QED BY <3>1 DEF Says
  <2>9. Says(r, x, 0 + 1, e[2])'
    BY <2>8 DEF Says
  <2>10. pc'[r] \in Distributing /\ SentCount(r)' = 0 + 1
         /\ mail'[r][x] = Append(s, e)
    BY <1>1, <1>2, <1>3, <2>4 DEF Distributing
  <2>. QED BY <2>5, <2>6, <2>7, <2>9, <2>10, ChannelPosted
<1>. QED BY <1>4, <1>5 DEF MailOK

(* A rank leaves distributeSubentities, or throws.                         *)
LEMMA LeavingKeepsMail ==
  ASSUME TypesOK, MailOK, UNCHANGED <<meshVars, index, globalOffsets>>,
         NEW r \in Ranks, pc[r] \in Distributing,
         NEW label, label \in Synchronizing \union {"failed"},
         pc' = [pc EXCEPT ![r] = label], \A x \in Ranks : x # r => iter'[x] = iter[x],
         mail' = Taken(r, Ranks),
         label \in Synchronizing =>
           /\ iter' = iter
           /\ \A x \in Ranks : x # r /\ pc[x] \in Distributing =>
                pc[x] = "done?" /\ iter[x] = iter[r] /\ mail[r][x] # <<>>
  PROVE  MailOK'
<1>0. IsMail(mail) /\ DOMAIN pc = Ranks /\ globalOffsets[r] = <<>>
  BY DEF IsMail, TypesOK
<1>1. /\ pc'[r] = label /\ \A x \in Ranks : x # r => pc'[x] = pc[x]
      /\ \A x \in Ranks : Complete(x)' = Complete(x)
  BY <1>0 DEF Complete
<1>2. \A x \in Ranks : x # r => ReceivedCount(x)' = ReceivedCount(x)
  BY <1>1 DEF ReceivedCount
<1>3. \A q \in Ranks, x \in Ranks : x # r => mail'[q][x] = mail[q][x]
  BY <1>0, TakenBox
<1>4. label \notin Distributing /\ "failed" \notin Synchronizing
  BY LabelFacts
<1>5. ASSUME NEW q \in Ranks, NEW x \in Ranks, q # r, x # r, pc[x] \in Distributing
      PROVE  ChannelOK(q, x)'
  <2>1. ChannelOK(q, x)
    BY <1>5 DEF MailOK
  <2>. QED BY <1>1, <1>2, <1>3, <1>5, <2>1, ChannelKept
<1>6. ASSUME NEW x \in Ranks, x # r, pc[x] \in Distributing PROVE ChannelOK(r, x)'
  <2>1. ChannelOK(r, x) /\ ~HasLeft(r)
    BY <1>6, LabelFacts DEF MailOK
  <2>2. HasLeft(r)' <=> label \in Synchronizing
    BY <1>0, <1>1, <1>4 DEF HasLeft
  <2>3. ASSUME NEW j \in DOMAIN mail'[r][x]
        PROVE  Says(r, x, ReceivedCount(x) + j, mail[r][x][j][2])'
    <3>1. PICK n, v : n = ReceivedCount(x) + j /\ v = mail[r][x][j][2]
      OBVIOUS
    <3>2. Says(r, x, n, v)
      BY <1>3, <1>6, <2>1, <2>3, <3>1 DEF ChannelOK
    <3>3. Says(r, x, n, v)'
      BY <1>1, <3>2, SaysKept
    <3>4. n = (ReceivedCount(x) + j)' /\ v = (mail[r][x][j][2])'
      BY <1>2, <1>3, <1>6, <3>1
    <3>. QED BY <3>3, <3>4 DEF Says
  <2>4. IsSequence(mail'[r][x])
    BY <1>3, <1>6, <2>1 DEF ChannelOK
  <2>5. pc'[r] \notin Distributing
    BY <1>1, <1>4
  <2>6. HasLeft(r)' => pc'[x] = "done?" /\ iter'[x] = iter'[r] /\ mail'[r][x] # <<>>
    BY <1>1, <1>3, <1>6, <2>2
  <2>. QED BY <2>3, <2>4, <2>5, <2>6 DEF ChannelOK
<1>. QED BY <1>1, <1>4, <1>5, <1>6 DEF MailOK

(* Ranks that have left the distribution send what they like.              *)
LEMMA LaterKeepsMail ==
  ASSUME TypesOK, MailOK, UNCHANGED <<meshVars, iter, index>>,
         NEW r \in Ranks, HasLeft(r), HasLeft(r)', pc'[r] \notin Distributing,
         \A x \in Ranks : x # r =>
           pc'[x] = pc[x] /\ globalOffsets'[x] = globalOffsets[x],
         Later(r, mail')
  PROVE  MailOK'
<1>1. \A x \in Ranks : Complete(x)' = Complete(x)
  BY DEF Complete
<1>2. \A x \in Ranks : x # r => ReceivedCount(x)' = ReceivedCount(x)
  BY DEF ReceivedCount
<1>3. ASSUME NEW q \in Ranks, NEW x \in Ranks, q # r, x # r, pc[x] \in Distributing
      PROVE  ChannelOK(q, x)'
  <2>1. ChannelOK(q, x) /\ mail'[q][x] = mail[q][x]
    BY <1>3 DEF MailOK, Later
  <2>. QED BY <1>1, <1>2, <1>3, <2>1, ChannelKept
<1>4. ASSUME NEW x \in Ranks, x # r, pc[x] \in Distributing PROVE ChannelOK(r, x)'
  <2>1. ChannelOK(r, x) /\ ReceivedCount(x)' = ReceivedCount(x)
    BY <1>2, <1>4 DEF MailOK
  <2>2. /\ IsSequence(mail'[r][x]) /\ mail'[r][x] # <<>>
        /\ mail[r][x] # <<>> /\ 1 \in DOMAIN mail[r][x]
        /\ mail'[r][x][1] = mail[r][x][1]
    <3>1. IsSequence(mail[r][x]) /\ mail[r][x] # <<>>
      BY <2>1 DEF ChannelOK
    <3>2. Len(mail[r][x]) \in Nat /\ Len(mail[r][x]) >= 1
          /\ DOMAIN mail[r][x] = 1 .. Len(mail[r][x])
      BY <3>1, TailFacts
    <3>4. ASSUME NEW e, mail'[r][x] = Append(mail[r][x], e)
          PROVE  /\ IsSequence(mail'[r][x]) /\ mail'[r][x] # <<>>
                 /\ mail'[r][x][1] = mail[r][x][1]
      BY <3>1, <3>2, <3>4, AppendFacts
    <3>5. mail'[r][x] = mail[r][x] \/ \E e : mail'[r][x] = Append(mail[r][x], e)
      BY <1>4 DEF Later
    <3>6. /\ IsSequence(mail'[r][x]) /\ mail'[r][x] # <<>>
          /\ mail'[r][x][1] = mail[r][x][1]
      <4>1. CASE mail'[r][x] = mail[r][x]
        BY <3>1, <4>1
      <4>2. CASE \E e : mail'[r][x] = Append(mail[r][x], e)
        <5>1. PICK e : mail'[r][x] = Append(mail[r][x], e)
          BY <4>2
        <5>. QED BY <3>4, <5>1
      <4>. QED BY <3>5, <4>1, <4>2
    <3>7. 1 \in DOMAIN mail[r][x]
      BY <3>2
    <3>. QED BY <3>1, <3>6, <3>7
  <2>3. Says(r, x, ReceivedCount(x) + 1, mail[r][x][1][2])'
    <3>1. PICK n, v : n = ReceivedCount(x) + 1 /\ v = mail[r][x][1][2]
      OBVIOUS
    <3>2. Says(r, x, n, v)
      BY <2>1, <2>2, <3>1 DEF ChannelOK
    <3>3. Says(r, x, n, v)'
      BY <1>1, <3>2, SaysKept
    <3>4. n = (ReceivedCount(x) + 1)' /\ v = (mail[r][x][1][2])'
      BY <2>1, <2>2, <3>1
    <3>. QED BY <3>3, <3>4 DEF Says
  <2>4. pc'[x] = "done?" /\ iter'[x] = iter'[r]
    BY <1>4, <2>1 DEF ChannelOK
  <2>. QED BY <2>2, <2>3, <2>4 DEF ChannelOK
<1>. QED BY <1>3, <1>4 DEF MailOK

-----------------------------------------------------------------------------
(* What ranks know of each other.                                          *)

(* The first message to a rank says what it should.                        *)
LEMMA MessageSays ==
  ASSUME MailOK, NEW q \in Ranks, NEW r \in Ranks, pc[r] \in Distributing,
         mail[q][r] # <<>>
  PROVE  Says(q, r, ReceivedCount(r) + 1, Message(q, r))
<1>1. ChannelOK(q, r)
  BY DEF MailOK
<1>2. IsSequence(mail[q][r])
  BY <1>1 DEF ChannelOK
<1>3. 1 \in DOMAIN mail[q][r] /\ Head(mail[q][r]) = mail[q][r][1]
  BY <1>2, TailFacts
<1>. QED BY <1>1, <1>3 DEF ChannelOK, Message

(* No rank has left while another is not at the end of a pass.             *)
LEMMA NoneHasLeft ==
  ASSUME MailOK, NEW r \in Ranks, pc[r] \in Distributing, pc[r] # "done?"
  PROVE  \A q \in Ranks : ~HasLeft(q)
BY DEF MailOK, ChannelOK

(* A rank that has messages of all ranks is not ahead of any.              *)
LEMMA Lag ==
  ASSUME TypesOK, MailOK, NEW r \in Ranks, pc[r] \in Distributing, pc[r] # "start",
         Arrived(r, Ranks), NEW q \in Ranks, pc[q] \in Distributing
  PROVE  SentCount(r) <= SentCount(q)
<1>1. ChannelOK(q, r) /\ mail[q][r] # <<>>
  BY DEF MailOK, Arrived
<1>2. IsSequence(mail[q][r]) /\ Len(mail[q][r]) = SentCount(q) - ReceivedCount(r)
  BY <1>1 DEF ChannelOK
<1>3. Len(mail[q][r]) \in Nat /\ Len(mail[q][r]) >= 1
  BY <1>1, <1>2, TailFacts
<1>. QED BY <1>2, <1>3, CountFacts

(* A rank that goes on with the distribution.                              *)
LEMMA RoundsKept ==
  ASSUME TypesOK, MailOK, RoundsOK, UNCHANGED globalOffsets,
         NEW r \in Ranks, pc[r] \in Distributing,
         pc[r] = "start" \/ Arrived(r, Ranks), \A q \in Ranks : ~HasLeft(q),
         NEW label \in Distributing, pc' = [pc EXCEPT ![r] = label],
         SentCount(r)' = SentCount(r) + 1,
         \A x \in Ranks : x # r => iter'[x] = iter[x],
         \A q, x \in Ranks :
           /\ pc'[x] = "done?" /\ pc'[q] = "answers" /\ iter'[q] = iter'[x] + 1
           => ~Ends(iter[x])'
  PROVE  RoundsOK'
<1>1. /\ pc'[r] = label /\ \A x \in Ranks : x # r => pc'[x] = pc[x]
  BY DEF TypesOK
<1>2. /\ \A x \in Ranks : x # r => SentCount(x)' = SentCount(x)
      /\ \A x \in Ranks : pc[x] \in Distributing => SentCount(x) \in Nat
  BY <1>1, CountFacts DEF SentCount
<1>3. \A x \in Ranks : pc[x] \in Distributing => SentCount(r) <= SentCount(x)
  <2>1. CASE pc[r] = "start"
    BY <2>1, <1>2, CountFacts
  <2>. QED BY <2>1, Lag
<1>4. ASSUME NEW q \in Ranks, NEW x \in Ranks,
             pc'[q] \in Distributing, pc'[x] \in Distributing
      PROVE  SentCount(q)' <= SentCount(x)' + 1
  <2>1. pc[q] \in Distributing /\ pc[x] \in Distributing
    BY <1>1, <1>4
  <2>2. SentCount(q) <= SentCount(x) + 1 /\ SentCount(r) <= SentCount(x)
    BY <1>3, <2>1 DEF RoundsOK
  <2>3. SentCount(q) \in Nat /\ SentCount(x) \in Nat /\ SentCount(r) \in Nat
    BY <1>2, <2>1
  <2>4. SentCount(x)' = IF x = r THEN SentCount(r) + 1 ELSE SentCount(x)
    BY <1>2
  <2>5. SentCount(q)' = IF q = r THEN SentCount(r) + 1 ELSE SentCount(q)
    BY <1>2
  <2>. QED BY <2>2, <2>3, <2>4, <2>5
<1>5. \A q \in Ranks : ~HasLeft(q)'
  <2> SUFFICES ASSUME NEW q \in Ranks PROVE ~HasLeft(q)'
    OBVIOUS
  <2>1. CASE q = r
    BY <1>1, <2>1, LabelFacts DEF HasLeft
  <2>2. CASE q # r
    BY <1>1, <2>2 DEF HasLeft
  <2>. QED BY <2>1, <2>2
<1>. QED BY <1>4, <1>5 DEF RoundsOK

-----------------------------------------------------------------------------
(* What a rank computes.                                                   *)

(* The owner of a face is a rank, which has a cell of the face if it is    *)
(* another one.                                                            *)
LEMMA OwnerIsRank ==
  ASSUME MeshOK, NEW r \in Ranks, NEW f \in LocalFaces(r)
  PROVE  /\ getEntityOwner(r, f) \in Ranks
         /\ \/ getEntityOwner(r, f) = r
            \/ \E c \in Around(r, f) : getEntityOwner(r, f) = part[c]
<1> DEFINE owners == {part[c] : c \in Around(r, f)}
           above == {NumRanks - x : x \in owners}
<1>1. NumRanks \in Nat /\ Ranks = 0 .. (NumRanks - 1)
  BY MeshAssumption DEF Ranks
<1>2. owners \in SUBSET Ranks /\ owners # {}
  <2>1. Around(r, f) \subseteq Cells /\ Around(r, f) # {}
    BY FaceFacts DEF Both
  <2>. QED BY <2>1 DEF MeshOK
<1> HIDE DEF owners
<1>3. Min(owners) \in owners
  <2>1. owners \in SUBSET Nat
    BY <1>1, <1>2
  <2>. QED BY <1>2, <2>1, MinIsLeast
<1>4. Max(owners) \in owners
  <2>1. above \in SUBSET Nat /\ above # {}
    BY <1>1, <1>2
  <2>2. PICK a \in above : \A b \in above : a <= b
    <3> HIDE DEF above
    <3>. QED BY <2>1, Least
  <2>3. PICK x \in owners : a = NumRanks - x
    BY <2>2
  <2>4. \A y \in owners : y <= x
    <3> TAKE y \in owners
    <3>1. NumRanks - x <= NumRanks - y
      BY <2>2, <2>3
    <3>. QED BY <1>1, <1>2, <3>1
  <2>. QED BY <2>3, <2>4 DEF Max
<1>5. InterfaceOwner(r, owners) \in owners
  BY <1>2, <1>3, <1>4 DEF InterfaceOwner
<1>6. getEntityOwner(r, f) = r \/ getEntityOwner(r, f) = InterfaceOwner(r, owners)
      \/ getEntityOwner(r, f) = Min(owners)
  BY DEF getEntityOwner, owners
<1>7. getEntityOwner(r, f) = r \/ getEntityOwner(r, f) \in owners
  BY <1>3, <1>5, <1>6
<1>. QED BY <1>2, <1>7 DEF owners

(* The attributes of a rank that knows the owners of its faces.            *)
LEMMA OwnersKnown ==
  ASSUME NEW r \in Ranks, OwnersOK(r), pc[r] # "start"
  PROVE  /\ Faces(r) = LocalFaces(r) /\ OwnFaces(r) = Owned(r)
         /\ \A f \in LocalFaces(r) : owner[r][f] = getEntityOwner(r, f)
         /\ \A q \in Ranks : Seeds(r, q) = Asked(r, q)
         /\ GhostFaces(r) = LocalFaces(r) \ Owned(r)
<1>1. owner[r] = [f \in LocalFaces(r) |-> getEntityOwner(r, f)]
  BY DEF OwnersOK
<1>2. Faces(r) = LocalFaces(r)
      /\ \A f \in LocalFaces(r) : owner[r][f] = getEntityOwner(r, f)
  BY <1>1 DEF Faces
<1>. QED BY <1>2 DEF OwnFaces, Owned, GhostFaces, Seeds, Asked

(* Answers are valid indices: only the face itself has the vertices of a   *)
(* seed.                                                                   *)
LEMMA AnswersValid ==
  ASSUME MeshOK, NEW r \in Ranks, NEW q \in Ranks, OwnersOK(r), pc[r] # "start",
         ValidIndices(LocalFaces(r), index[r]),
         NEW seeds, seeds = [p \in Ranks |-> Asked(p, r)], ~LookupFails(r, seeds)
  PROVE  ValidIndices(Asked(q, r), Answer(r, seeds, q))
<1>1. ASSUME NEW f \in Asked(q, r)
      PROVE  ValidIndex(f, index[r][CHOOSE g \in Common(r, f) : TRUE])
  <2>1. seeds[q] = Asked(q, r)
    OBVIOUS
  <2>2. Cardinality(Common(r, f)) = 1
    BY <2>1 DEF LookupFails
  <2>3. Common(r, f) # {}
    BY <2>2, FS_EmptySet
  <2>4. PICK g : g = CHOOSE h \in Common(r, f) : TRUE
    OBVIOUS
  <2>5. g \in Common(r, f)
    BY <2>3, <2>4
  <2>6. g \in LocalFaces(r) /\ f \in SUBSET g
    BY <2>5, OwnersKnown DEF Common
  <2>7. f \in LocalFaces(q)
    BY DEF Asked
  <2>8. IsFiniteSet(g) /\ Cardinality(f) = Cardinality(g)
    BY <2>6, <2>7, FaceFacts
  <2>9. f = g
    BY <2>6, <2>8, FS_Subset
  <2>. QED BY <2>4, <2>6, <2>9 DEF ValidIndices
<1>. QED BY <1>1 DEF ValidIndices, Answer

-----------------------------------------------------------------------------
(* The steps of distributeSubentities.                                     *)

(* What a rank knows stays when it does not change it.                     *)
LEMMA LocalKept ==
  ASSUME UNCHANGED meshVars, NEW x \in Ranks,
         OwnersOK(x), IndicesOK(x), SeedsOK(x),
         \/ pc'[x] = pc[x]
         \/ /\ pc[x] \notin {"start", "counts"}
            /\ pc'[x] \notin {"start", "counts", "answers", "done?"},
         owner'[x] = owner[x], index'[x] = index[x], foreign'[x] = foreign[x]
  PROVE  OwnersOK(x)' /\ IndicesOK(x)' /\ SeedsOK(x)'
<1>1. /\ LocalFaces(x)' = LocalFaces(x) /\ Owned(x)' = Owned(x)
      /\ \A f : getEntityOwner(x, f)' = getEntityOwner(x, f)
      /\ \A f : TrueIndex(x, f)' = TrueIndex(x, f)
      /\ \A q \in Ranks : Asked(q, x)' = Asked(q, x)
      /\ \A F, i : ValidIndices(F, i)' = ValidIndices(F, i)
  BY MeshKept
<1>2. OwnersOK(x)'
  BY <1>1 DEF OwnersOK
<1>3. IndicesOK(x)'
  BY <1>1 DEF IndicesOK
<1>4. SeedsOK(x)'
  BY <1>1 DEF SeedsOK
<1>. QED BY <1>2, <1>3, <1>4

(* The types of the variables after a step of rank r.                      *)
LEMMA TypesKept ==
  ASSUME TypesOK, UNCHANGED <<meshVars, globalOffsets>>, NEW r \in Ranks,
         pc[r] \in Distributing, NEW label, pc' = [pc EXCEPT ![r] = label],
         label \in Distributing \union Synchronizing \union {"failed"},
         iter' \in [Ranks -> 0 .. (MeshDimension - 1)],
         \A x \in Ranks : x # r => iter'[x] = iter[x],
         label \in {"start", "counts", "seeds"} => iter'[r] = 0,
         DOMAIN owner' = Ranks, DOMAIN index' = Ranks, DOMAIN foreign' = Ranks,
         IsMail(mail')
  PROVE  TypesOK'
<1>1. MeshOK'
  BY MeshKept DEF TypesOK
<1>2. pc' \in [Ranks -> Distributing \union Synchronizing \union {"failed"}]
  BY DEF TypesOK
<1>3. ASSUME NEW x \in Ranks
      PROVE  /\ pc'[x] \in Distributing => globalOffsets'[x] = <<>>
             /\ pc'[x] \in {"start", "counts", "seeds"} => iter'[x] = 0
  <2>1. x # r => pc'[x] = pc[x]
    BY DEF TypesOK
  <2>2. x = r => pc'[x] = label
    BY DEF TypesOK
  <2>3. CASE x = r
    BY <2>2, <2>3 DEF TypesOK
  <2>4. CASE x # r
    BY <2>1, <2>4 DEF TypesOK
  <2>. QED BY <2>3, <2>4
<1>. QED BY <1>1, <1>2, <1>3 DEF TypesOK, IsMail

(* A message that is not a verdict keeps its meaning.                      *)
LEMMA SaysKeptOdd ==
  ASSUME UNCHANGED meshVars, NEW q \in Ranks, NEW r \in Ranks, NEW n, NEW m,
         \A i \in Nat : n # 4 + 2 * i, Says(q, r, n, m)
  PROVE  Says(q, r, n, m)'
BY MeshKept DEF Says

(* A rank finds its faces and sends their number.                          *)
LEMMA CountEntitiesKeeps ==
  ASSUME IndInv, NEW r \in Ranks, CountEntities(r), UNCHANGED attributes
  PROVE  IndInv'
<1>1. /\ pc[r] = "start" /\ pc' = [pc EXCEPT ![r] = "counts"]
      /\ UNCHANGED <<meshVars, iter, index, foreign, globalOffsets>>
      /\ owner' = [owner EXCEPT ![r] =
                     [f \in LocalFaces(r) |-> getEntityOwner(r, f)]]
  BY DEF CountEntities, Goto, attributes
<1>2. TypesOK /\ LocalOK /\ MailOK /\ RoundsOK /\ IsMail(mail)
      /\ pc[r] \in Distributing
  BY <1>1 DEF IndInv, TypesOK, IsMail, Distributing
<1>3. /\ pc'[r] = "counts" /\ owner'[r] = [f \in LocalFaces(r) |-> getEntityOwner(r, f)]
      /\ \A x \in Ranks : x # r => pc'[x] = pc[x] /\ owner'[x] = owner[x]
      /\ DOMAIN owner' = Ranks
  BY <1>1, <1>2 DEF TypesOK
<1>4. OwnFaces(r)' = Owned(r)
  BY <1>3 DEF OwnFaces, Faces, Owned
<1>5. PICK m : /\ m = [q \in Ranks |-> Cardinality(Owned(r))]
               /\ mail' = Posted(mail, r, Ranks, "counts", m)
  BY <1>4 DEF CountEntities
<1>6. TypesOK'
  <2>1. IsMail(mail')
    BY <1>2, <1>5, PostedBox
  <2>2. "counts" \in Distributing /\ iter[r] = 0
    BY <1>1, <1>2 DEF Distributing, TypesOK
  <2>. QED BY <1>1, <1>2, <1>3, <2>1, <2>2, TypesKept DEF TypesOK
<1>7. LocalOK'
  <2>1. ASSUME NEW x \in Ranks, x # r
        PROVE  OwnersOK(x)' /\ IndicesOK(x)' /\ SeedsOK(x)'
    <3>1. /\ pc'[x] = pc[x] /\ owner'[x] = owner[x]
          /\ index'[x] = index[x] /\ foreign'[x] = foreign[x]
      BY <1>1, <1>3, <2>1
    <3>2. OwnersOK(x) /\ IndicesOK(x) /\ SeedsOK(x)
      BY <1>2 DEF LocalOK
    <3>. QED BY <1>1, <3>1, <3>2, LocalKept
  <2>2. OwnersOK(r)'
    BY <1>1, <1>3, MeshKept DEF OwnersOK
  <2>3. IndicesOK(r)'
    BY <1>1, <1>2, <1>3 DEF IndicesOK, LocalOK
  <2>4. SeedsOK(r)'
    BY <1>3 DEF SeedsOK
  <2>. QED BY <2>1, <2>2, <2>3, <2>4 DEF LocalOK
<1>8. \A q \in Ranks : ~HasLeft(q)
  BY <1>1, <1>2, NoneHasLeft
<1>9. MailOK'
  <2>1. ASSUME NEW x \in Ranks PROVE Says(r, x, 1, m[x])'
    <3>1. m[x] = Cardinality(Owned(r)')
      BY <1>1, <1>5, MeshKept
    <3>2. \A i \in Nat : 1 # 3 + 2 * i /\ 1 # 4 + 2 * i
      OBVIOUS
    <3>. QED BY <3>1, <3>2 DEF Says
  <2>. QED BY <1>1, <1>2, <1>5, <1>8, <2>1, FirstKeepsMail
<1>10. RoundsOK'
  <2>1. SentCount(r) = 0 /\ SentCount(r)' = 1
    <3>1. \A i : SentBy("start", i) = 0 /\ SentBy("counts", i) = 1
      BY DEF SentBy
    <3>. QED BY <1>1, <1>3, <3>1 DEF SentCount
  <2>2. ASSUME NEW q \in Ranks, NEW x \in Ranks, pc'[x] = "done?",
               pc'[q] = "answers", iter'[q] = iter'[x] + 1
        PROVE  ~Ends(iter[x])'
    <3>1. q # r /\ x # r
      BY <1>3, <2>2
    <3>2. pc[x] = "done?" /\ pc[q] = "answers" /\ iter[q] = iter[x] + 1
      BY <1>1, <1>3, <2>2, <3>1
    <3>3. ~Ends(iter[x])
      BY <1>2, <3>2 DEF RoundsOK, Distributing
    <3>. QED BY <1>1, <3>3 DEF Ends, Complete
  <2>3. "counts" \in Distributing
    BY DEF Distributing
  <2>4. \A x \in Ranks : x # r => iter'[x] = iter[x]
    BY <1>1
  <2>5. SentCount(r)' = SentCount(r) + 1
    BY <2>1
  <2>. QED BY <1>1, <1>2, <1>8, <2>2, <2>3, <2>4, <2>5, RoundsKept
<1>. QED BY <1>6, <1>7, <1>9, <1>10 DEF IndInv

(* A rank numbers its faces from the counts of the lower ranks and sends   *)
(* seeds.                                                                  *)
LEMMA AssignIndicesKeeps ==
  ASSUME IndInv, NEW r \in Ranks, AssignIndices(r), UNCHANGED attributes
  PROVE  IndInv'
<1>1. /\ pc[r] = "counts" /\ pc' = [pc EXCEPT ![r] = "seeds"]
      /\ Arrived(r, Ranks)
      /\ UNCHANGED <<meshVars, iter, owner, foreign, globalOffsets>>
  BY DEF AssignIndices, Goto, attributes
<1>2. TypesOK /\ LocalOK /\ MailOK /\ RoundsOK /\ IsMail(mail)
      /\ pc[r] \in Distributing /\ pc[r] # "start"
  BY <1>1 DEF IndInv, TypesOK, IsMail, Distributing
<1>3. /\ Faces(r) = LocalFaces(r) /\ OwnFaces(r) = Owned(r)
      /\ \A q \in Ranks : Seeds(r, q) = Asked(r, q)
  BY <1>2, OwnersKnown DEF LocalOK
<1>4. SentCount(r) = 1 /\ ReceivedCount(r) = 0
  BY <1>1, <1>2, CountFacts
<1>5. [q \in Ranks |-> Message(q, r)] = Counts
  <2>1. ASSUME NEW q \in Ranks PROVE Message(q, r) = Cardinality(Owned(q))
    <3>1. Says(q, r, ReceivedCount(r) + 1, Message(q, r))
      BY <1>1, <1>2, MessageSays DEF Arrived
    <3>. QED BY <1>4, <3>1 DEF Says
  <2>. QED BY <2>1 DEF Counts
<1>6. PICK m :
        /\ m = [q \in Ranks |-> Asked(r, q)]
        /\ index' = [index EXCEPT ![r] = Numbered(r, ExclusiveScan(Counts)[r])]
        /\ mail' = Exchanged(r, "seeds", m)
  <2>1. [q \in Ranks |-> Seeds(r, q)] = [q \in Ranks |-> Asked(r, q)]
    BY <1>3
  <2>. QED BY <1>5, <2>1 DEF AssignIndices
<1>7. /\ pc'[r] = "seeds" /\ index'[r] = Numbered(r, ExclusiveScan(Counts)[r])
      /\ \A x \in Ranks : x # r => pc'[x] = pc[x] /\ index'[x] = index[x]
      /\ DOMAIN index' = Ranks
  BY <1>1, <1>2, <1>6 DEF TypesOK
<1>8. ValidIndices(LocalFaces(r), index'[r])
      /\ \A f \in Owned(r) : index'[r][f] = TrueIndex(r, f)
  <2>1. index'[r] = [f \in LocalFaces(r) |-> IF f \in Owned(r) THEN TrueIndex(r, f)
                                                              ELSE Padding]
    BY <1>3, <1>7 DEF Numbered, TrueIndex
  <2>2. Owned(r) \subseteq LocalFaces(r)
    BY DEF Owned
  <2>. QED BY <2>1, <2>2 DEF ValidIndices, ValidIndex
<1>9. TypesOK'
  <2>1. IsMail(mail')
    BY <1>2, <1>6, ExchangedBox
  <2>2. "seeds" \in Distributing /\ iter[r] = 0
    BY <1>1, <1>2 DEF Distributing, TypesOK
  <2>. QED BY <1>1, <1>2, <1>7, <2>1, <2>2, TypesKept DEF TypesOK
<1>10. LocalOK'
  <2>1. ASSUME NEW x \in Ranks, x # r
        PROVE  OwnersOK(x)' /\ IndicesOK(x)' /\ SeedsOK(x)'
    <3>1. /\ pc'[x] = pc[x] /\ owner'[x] = owner[x]
          /\ index'[x] = index[x] /\ foreign'[x] = foreign[x]
      BY <1>1, <1>7, <2>1
    <3>2. OwnersOK(x) /\ IndicesOK(x) /\ SeedsOK(x)
      BY <1>2 DEF LocalOK
    <3>. QED BY <1>1, <3>1, <3>2, LocalKept
  <2>2. OwnersOK(r)'
    BY <1>1, <1>2, <1>7, MeshKept DEF OwnersOK, LocalOK
  <2>3. IndicesOK(r)'
    <3>1. ValidIndices(LocalFaces(r), index[r])'
      BY <1>1, <1>8, MeshKept DEF ValidIndices
    <3>2. \A f \in Owned(r)' : index'[r][f] = TrueIndex(r, f)'
      BY <1>1, <1>8, MeshKept
    <3>. QED BY <1>7, <3>1, <3>2 DEF IndicesOK
  <2>4. SeedsOK(r)'
    BY <1>7 DEF SeedsOK
  <2>. QED BY <2>1, <2>2, <2>3, <2>4 DEF LocalOK
<1>11. \A q \in Ranks : ~HasLeft(q)
  BY <1>1, <1>2, NoneHasLeft
<1>12. "seeds" \in Distributing /\ "seeds" # "start"
       /\ SentCount(r)' = 2 /\ ReceivedCount(r)' = 1
  <2>1. \A i : SentBy("seeds", i) = 2 /\ ReceivedBy("seeds", i) = 1
    <3>1. \A i : SentBy("seeds", i) = 2
      BY DEF SentBy
    <3>. QED BY <3>1 DEF ReceivedBy
  <2>. QED BY <1>7, <2>1 DEF SentCount, ReceivedCount, Distributing
<1>13. \A x \in Ranks : x # r =>
         iter'[x] = iter[x] /\ Complete(x)' = Complete(x)
  BY <1>1, <1>7 DEF Complete
<1>14. MailOK'
  <2>1. ASSUME NEW x \in Ranks PROVE Says(r, x, 2, m[x])'
    <3>1. m[x] = Asked(r, x)'
      BY <1>1, <1>6, MeshKept
    <3>2. \A i \in Nat : 2 # 3 + 2 * i /\ 2 # 4 + 2 * i
      OBVIOUS
    <3>. QED BY <3>1, <3>2 DEF Says
  <2>2. ASSUME NEW x \in Ranks, NEW n, NEW v, pc[x] \in Distributing,
               Says(r, x, n, v), ReceivedCount(x) < n, n < 2
        PROVE  Says(r, x, n, v)'
    <3>1. \A i \in Nat : n # 4 + 2 * i
      BY <2>2
    <3>. QED BY <1>1, <2>2, <3>1, SaysKeptOdd
  <2>3. 2 \in Nat /\ 2 = SentCount(r) + 1 /\ ReceivedCount(r)' = SentCount(r)
    BY <1>4, <1>12
  <2>. QED BY <1>1, <1>2, <1>6, <1>11, <1>12, <1>13, <2>1, <2>2, <2>3,
              ExchangeKeepsMail
<1>15. RoundsOK'
  <2>1. ASSUME NEW q \in Ranks, NEW x \in Ranks, pc'[x] = "done?",
               pc'[q] = "answers", iter'[q] = iter'[x] + 1
        PROVE  ~Ends(iter[x])'
    <3>1. x # r /\ pc[x] = "done?" /\ pc[x] \in Distributing
      BY <1>7, <2>1 DEF Distributing
    <3>2. SentCount(x) <= SentCount(r) + 1
      BY <1>2, <3>1 DEF RoundsOK
    <3>3. SentCount(x) = 4 + 2 * iter[x] /\ iter[x] \in Nat
      BY <1>2, <3>1, CountFacts
    <3>. QED BY <1>4, <3>2, <3>3
  <2>2. SentCount(r)' = SentCount(r) + 1
    BY <1>4, <1>12
  <2>. QED BY <1>1, <1>2, <1>11, <1>12, <1>13, <2>1, <2>2, RoundsKept
<1>. QED BY <1>9, <1>10, <1>14, <1>15 DEF IndInv

(* A rank that leaves the distribution, or throws, agrees that it has come *)
(* to its end.                                                             *)
LEMMA LeavingKeepsRounds ==
  ASSUME TypesOK, RoundsOK, UNCHANGED <<index, globalOffsets>>, NEW r \in Ranks,
         NEW label, label \notin Distributing, pc' = [pc EXCEPT ![r] = label],
         \A x \in Ranks : x # r => iter'[x] = iter[x],
         HasLeft(r)' => Ends(iter[r])'
  PROVE  RoundsOK'
<1>1. pc'[r] = label /\ \A x \in Ranks : x # r => pc'[x] = pc[x]
  BY DEF TypesOK
<1>2. \A i : Ends(i)' = Ends(i)
  BY DEF Ends, Complete
<1>3. ASSUME NEW q \in Ranks, NEW x \in Ranks,
             pc'[q] \in Distributing, pc'[x] \in Distributing
      PROVE  /\ SentCount(q)' <= SentCount(x)' + 1
             /\ pc'[x] = "done?" /\ pc'[q] = "answers" /\ iter'[q] = iter'[x] + 1
                  => ~Ends(iter[x])'
  <2>1. q # r /\ x # r
    BY <1>1, <1>3
  <2>2. pc'[q] = pc[q] /\ pc'[x] = pc[x] /\ iter'[q] = iter[q] /\ iter'[x] = iter[x]
    BY <1>1, <2>1
  <2>3. SentCount(q)' = SentCount(q) /\ SentCount(x)' = SentCount(x)
    BY <2>2 DEF SentCount
  <2>4. /\ SentCount(q) <= SentCount(x) + 1
        /\ pc[x] = "done?" /\ pc[q] = "answers" /\ iter[q] = iter[x] + 1
             => ~Ends(iter[x])
    BY <1>3, <2>2 DEF RoundsOK
  <2>5. Ends(iter[x])' = Ends(iter[x])
    BY <2>2 DEF Ends, Complete
  <2>. QED BY <2>2, <2>3, <2>4, <2>5
<1>4. ASSUME NEW q \in Ranks, HasLeft(q)' PROVE Ends(iter[q])'
  <2>1. CASE q = r
    BY <1>4, <2>1
  <2>2. CASE q # r
    <3>1. HasLeft(q) /\ iter'[q] = iter[q]
      BY <1>1, <1>4, <2>2 DEF HasLeft
    <3>2. Ends(iter[q])
      BY <3>1 DEF RoundsOK
    <3>. QED BY <3>1, <3>2 DEF Ends, Complete
  <2>. QED BY <2>1, <2>2
<1>. QED BY <1>3, <1>4 DEF RoundsOK

(* A rank answers the seeds it got, in the first pass or in a later one.   *)
LEMMA SendAnswersKeeps ==
  ASSUME IndInv, NEW r \in Ranks, pc[r] \in {"seeds", "done?"},
         Arrived(r, Ranks), \A q \in Ranks : ~HasLeft(q),
         UNCHANGED <<meshVars, owner, index, globalOffsets>>,
         NEW seeds, seeds = [q \in Ranks |-> Asked(q, r)],
         SendAnswers(r, seeds), DOMAIN foreign' = Ranks,
         \A x \in Ranks : foreign'[x] = IF x = r THEN seeds ELSE foreign[x],
         iter' \in [Ranks -> 0 .. (MeshDimension - 1)],
         \A x \in Ranks : x # r => iter'[x] = iter[x],
         SentCount(r) = 2 + 2 * iter'[r],
         \A x \in Ranks : x # r /\ pc[x] = "done?" /\ iter'[r] = iter[x] + 1
                            => ~Ends(iter[x])
  PROVE  IndInv'
<1>1. TypesOK /\ LocalOK /\ MailOK /\ RoundsOK /\ IsMail(mail)
      /\ pc[r] \in Distributing /\ pc[r] # "start" /\ MeshOK
  BY DEF IndInv, TypesOK, IsMail, Distributing
<1>2. OwnersOK(r) /\ IndicesOK(r) /\ ValidIndices(LocalFaces(r), index[r])
  BY <1>1 DEF LocalOK, IndicesOK
<1>3. \A x \in Ranks : Complete(x)' = Complete(x)
  BY DEF Complete
<1>4. DOMAIN owner' = Ranks /\ DOMAIN index' = Ranks
  BY <1>1 DEF TypesOK
<1>5. ASSUME NEW label, pc' = [pc EXCEPT ![r] = label],
             label \in {"failed", "answers"}
      PROVE  LocalOK'
  <2>1. pc'[r] = label /\ \A x \in Ranks : x # r => pc'[x] = pc[x]
    BY <1>1, <1>5 DEF TypesOK
  <2>2. ASSUME NEW x \in Ranks, x # r
        PROVE  OwnersOK(x)' /\ IndicesOK(x)' /\ SeedsOK(x)'
    <3>1. /\ pc'[x] = pc[x] /\ owner'[x] = owner[x]
          /\ index'[x] = index[x] /\ foreign'[x] = foreign[x]
      BY <2>1, <2>2
    <3>2. OwnersOK(x) /\ IndicesOK(x) /\ SeedsOK(x)
      BY <1>1 DEF LocalOK
    <3>. QED BY <3>1, <3>2, LocalKept
  <2>3. OwnersOK(r)'
    BY <1>2, <1>5, <2>1, MeshKept DEF OwnersOK
  <2>4. IndicesOK(r)'
    BY <1>2, <1>5, <2>1, MeshKept DEF IndicesOK
  <2>5. SeedsOK(r)'
    <3>1. foreign'[r] = [q \in Ranks |-> Asked(q, r)]
      OBVIOUS
    <3>2. \A q \in Ranks : Asked(q, r)' = Asked(q, r)
      BY MeshKept
    <3>. QED BY <3>1, <3>2 DEF SeedsOK
  <2>. QED BY <2>2, <2>3, <2>4, <2>5 DEF LocalOK
<1>6. CASE LookupFails(r, seeds)
  <2>1. pc' = [pc EXCEPT ![r] = "failed"] /\ mail' = Taken(r, Ranks)
    BY <1>6 DEF SendAnswers, Goto
  <2>2. TypesOK'
    <3>1. IsMail(mail')
      BY <1>1, <2>1, TakenBox
    <3>. QED BY <1>1, <1>4, <2>1, <3>1, TypesKept
  <2>3. "failed" \notin Synchronizing /\ "failed" \notin Distributing
    BY LabelFacts
  <2>4. MailOK'
    BY <1>1, <2>1, <2>3, LeavingKeepsMail
  <2>5. ~HasLeft(r)'
    <3>1. pc'[r] = "failed" /\ globalOffsets'[r] = <<>>
      BY <1>1, <2>1 DEF TypesOK
    <3>. QED BY <2>3, <3>1 DEF HasLeft
  <2>6. RoundsOK'
    BY <1>1, <2>1, <2>3, <2>5, LeavingKeepsRounds
  <2>7. LocalOK'
    BY <1>5, <2>1
  <2>. QED BY <2>2, <2>4, <2>6, <2>7 DEF IndInv
<1>7. CASE ~LookupFails(r, seeds)
  <2>1. PICK m : /\ m = [q \in Ranks |-> Answer(r, seeds, q)]
                 /\ pc' = [pc EXCEPT ![r] = "answers"]
                 /\ mail' = Exchanged(r, "answers", m)
    BY <1>7 DEF SendAnswers, Goto
  <2>2. pc'[r] = "answers" /\ \A x \in Ranks : x # r => pc'[x] = pc[x]
    BY <1>1, <2>1 DEF TypesOK
  <2>3. "answers" \in Distributing /\ "answers" # "start"
    BY DEF Distributing
  <2>4. iter'[r] \in Nat
    BY MeshAssumption
  <2>5. PICK k \in Nat : k = 3 + 2 * iter'[r]
    BY <2>4
  <2>6. /\ k = SentCount(r) + 1 /\ SentCount(r)' = k
        /\ ReceivedCount(r)' = SentCount(r) /\ SentCount(r)' = SentCount(r) + 1
    <3>1. \A i : SentBy("answers", i) = 3 + 2 * i
                 /\ ReceivedBy("answers", i) = (3 + 2 * i) - 1
      <4>1. \A i : SentBy("answers", i) = 3 + 2 * i
        BY DEF SentBy
      <4>. QED BY <4>1 DEF ReceivedBy
    <3>2. SentCount(r)' = 3 + 2 * iter'[r]
          /\ ReceivedCount(r)' = (3 + 2 * iter'[r]) - 1
      BY <2>2, <3>1 DEF SentCount, ReceivedCount
    <3>. QED BY <2>4, <2>5, <3>2
  <2>7. TypesOK'
    <3>1. IsMail(mail')
      BY <1>1, <2>1, ExchangedBox
    <3>. QED BY <1>1, <1>4, <2>1, <2>3, <3>1, TypesKept
  <2>8. MailOK'
    <3>1. ASSUME NEW x \in Ranks PROVE Says(r, x, k, m[x])'
      <4>1. ValidIndices(Asked(x, r), m[x])
        BY <1>1, <1>2, <1>7, <2>1, AnswersValid
      <4>2. ValidIndices(Asked(x, r), m[x])'
        BY <4>1, MeshKept DEF ValidIndices
      <4>3. k # 1 /\ k # 2 /\ \A i \in Nat : k # 4 + 2 * i
        BY <2>4, <2>5
      <4>. QED BY <4>2, <4>3 DEF Says
    <3>2. ASSUME NEW x \in Ranks, NEW n, NEW v, Says(r, x, n, v)
          PROVE  Says(r, x, n, v)'
      BY <1>3, <3>2, SaysKept
    <3>. QED BY <1>1, <1>3, <2>1, <2>3, <2>6, <3>1, <3>2, ExchangeKeepsMail
  <2>9. RoundsOK'
    <3>1. ASSUME NEW q \in Ranks, NEW x \in Ranks, pc'[x] = "done?",
                 pc'[q] = "answers", iter'[q] = iter'[x] + 1
          PROVE  ~Ends(iter[x])'
      <4>1. x # r /\ pc[x] = "done?" /\ iter'[x] = iter[x]
        BY <2>2, <3>1
      <4>2. ~Ends(iter[x])
        <5>1. CASE q = r
          BY <3>1, <4>1, <5>1
        <5>2. CASE q # r
          BY <1>1, <2>2, <3>1, <4>1, <5>2 DEF RoundsOK, Distributing
        <5>. QED BY <5>1, <5>2
      <4>. QED BY <4>1, <4>2 DEF Ends, Complete
    <3>. QED BY <1>1, <2>1, <2>3, <2>6, <3>1, RoundsKept
  <2>10. LocalOK'
    BY <1>5, <2>1
  <2>. QED BY <2>7, <2>8, <2>9, <2>10 DEF IndInv
<1>. QED BY <1>6, <1>7

(* The ghosts that other ranks ask for.                                    *)
LEMMA SeedsReceived ==
  ASSUME IndInv, NEW r \in Ranks, pc[r] = "seeds", Arrived(r, Ranks)
  PROVE  [q \in Ranks |-> Message(q, r)] = [q \in Ranks |-> Asked(q, r)]
<1>1. TypesOK /\ MailOK /\ pc[r] \in Distributing
  BY DEF IndInv, Distributing
<1>2. ReceivedCount(r) = 1
  BY <1>1, CountFacts
<1>3. ASSUME NEW q \in Ranks PROVE Message(q, r) = Asked(q, r)
  <2>1. Says(q, r, ReceivedCount(r) + 1, Message(q, r))
    BY <1>1, MessageSays DEF Arrived
  <2>. QED BY <1>2, <2>1 DEF Says
<1>. QED BY <1>3

(* A rank takes the seeds of others.                                       *)
LEMMA ReceiveSeedsKeeps ==
  ASSUME IndInv, NEW r \in Ranks, ReceiveSeeds(r), UNCHANGED attributes
  PROVE  IndInv'
<1>1. PICK seeds :
        /\ seeds = [q \in Ranks |-> Message(q, r)] /\ SendAnswers(r, seeds)
        /\ foreign' = [foreign EXCEPT ![r] = seeds]
        /\ pc[r] = "seeds" /\ Arrived(r, Ranks)
        /\ UNCHANGED <<meshVars, iter, owner, index, globalOffsets>>
  BY DEF ReceiveSeeds, attributes
<1>2. TypesOK /\ LocalOK /\ MailOK /\ RoundsOK /\ pc[r] \in Distributing
  BY <1>1 DEF IndInv, Distributing
<1>3. SentCount(r) = 2 /\ ReceivedCount(r) = 1
  BY <1>1, <1>2, CountFacts
<1>4. seeds = [q \in Ranks |-> Asked(q, r)]
  BY <1>1, SeedsReceived
<1>5. \A q \in Ranks : ~HasLeft(q)
  BY <1>1, <1>2, NoneHasLeft
<1>6. iter[r] = 0 /\ SentCount(r) = 2 + 2 * iter'[r]
  BY <1>1, <1>2, <1>3 DEF TypesOK
<1>7. /\ DOMAIN foreign' = Ranks
      /\ \A x \in Ranks : foreign'[x] = IF x = r THEN seeds ELSE foreign[x]
      /\ iter' \in [Ranks -> 0 .. (MeshDimension - 1)]
      /\ \A x \in Ranks : x # r => iter'[x] = iter[x]
  BY <1>1, <1>2 DEF TypesOK
<1>8. \A x \in Ranks : x # r /\ pc[x] = "done?" /\ iter'[r] = iter[x] + 1
                       => ~Ends(iter[x])
  <2>1. ASSUME NEW x \in Ranks, iter'[r] = iter[x] + 1 PROVE FALSE
    <3>1. iter[x] \in Nat /\ iter'[r] = 0
      BY <1>1, <1>2, <1>6, MeshAssumption DEF TypesOK
    <3>. QED BY <2>1, <3>1
  <2>. QED BY <2>1
<1>. QED BY <1>1, <1>4, <1>5, <1>6, <1>7, <1>8, SendAnswersKeeps

(* A rank sets the indices of its ghosts from the answers and says whether *)
(* it has them all.                                                        *)
LEMMA SetGhostIndicesKeeps ==
  ASSUME IndInv, NEW r \in Ranks, SetGhostIndices(r), UNCHANGED attributes
  PROVE  IndInv'
<1>1. /\ pc[r] = "answers" /\ pc' = [pc EXCEPT ![r] = "done?"]
      /\ Arrived(r, Ranks)
      /\ UNCHANGED <<meshVars, iter, owner, foreign, globalOffsets>>
  BY DEF SetGhostIndices, Goto, attributes
<1>2. TypesOK /\ LocalOK /\ MailOK /\ RoundsOK /\ IsMail(mail) /\ MeshOK
      /\ pc[r] \in Distributing /\ pc[r] # "start" /\ iter[r] \in Nat
  BY <1>1, MeshAssumption DEF IndInv, TypesOK, IsMail, Distributing
<1>3. /\ OwnersOK(r) /\ Faces(r) = LocalFaces(r)
      /\ \A f \in LocalFaces(r) : owner[r][f] = getEntityOwner(r, f)
      /\ GhostFaces(r) = LocalFaces(r) \ Owned(r)
  BY <1>1, <1>2, OwnersKnown DEF LocalOK
<1>4. SentCount(r) = 3 + 2 * iter[r] /\ ReceivedCount(r) = 2 + 2 * iter[r]
  BY <1>1, <1>2, CountFacts
<1>5. /\ ValidIndices(LocalFaces(r), index[r])
      /\ \A f \in Owned(r) : index[r][f] = TrueIndex(r, f)
  BY <1>1, <1>2 DEF LocalOK, IndicesOK
<1> DEFINE g == [f \in GhostFaces(r) |-> Message(owner[r][f], r)[f]]
           d == \A f \in GhostFaces(r) : g[f] # Padding
<1>ghosts. PICK ghosts : ghosts = g
  OBVIOUS
<1>done. PICK done : done = d
  OBVIOUS
<1>m. PICK m : m = [q \in Ranks |-> d]
  OBVIOUS
<1>6. /\ ghosts = [f \in GhostFaces(r) |-> Message(owner[r][f], r)[f]]
      /\ done = (\A f \in GhostFaces(r) : ghosts[f] # Padding)
      /\ m = [q \in Ranks |-> done]
      /\ index' = [index EXCEPT ![r] =
                     [f \in Faces(r) |-> IF f \in GhostFaces(r)
                                         THEN ghosts[f] ELSE index[r][f]]]
      /\ mail' = Exchanged(r, "done?", m)
  <2>1. /\ index' = [index EXCEPT ![r] =
                       [f \in Faces(r) |-> IF f \in GhostFaces(r)
                                           THEN g[f] ELSE index[r][f]]]
        /\ mail' = Exchanged(r, "done?", [q \in Ranks |-> d])
    BY <1>2 DEF SetGhostIndices, TypesOK
  <2>2. mail' = Exchanged(r, "done?", m)
    BY <2>1, <1>m
  <2>3. /\ done = (\A f \in GhostFaces(r) : ghosts[f] # Padding)
        /\ m = [q \in Ranks |-> done]
        /\ index' = [index EXCEPT ![r] =
                       [f \in Faces(r) |-> IF f \in GhostFaces(r)
                                           THEN ghosts[f] ELSE index[r][f]]]
    BY <2>1, <1>ghosts, <1>done, <1>m
  <2>. QED BY <2>2, <2>3, <1>ghosts
<1> HIDE DEF g, d
<1>7. /\ pc'[r] = "done?"
      /\ index'[r] = [f \in LocalFaces(r) |-> IF f \in GhostFaces(r)
                                              THEN ghosts[f] ELSE index[r][f]]
      /\ \A x \in Ranks : x # r => pc'[x] = pc[x] /\ index'[x] = index[x]
      /\ DOMAIN index' = Ranks
  BY <1>1, <1>2, <1>3, <1>6 DEF TypesOK
<1>8. ASSUME NEW f \in GhostFaces(r) PROVE ValidIndex(f, ghosts[f])
  <2>1. PICK q : q = getEntityOwner(r, f)
    OBVIOUS
  <2>2. f \in LocalFaces(r) /\ f \notin Owned(r) /\ q # r /\ owner[r][f] = q
    BY <1>3, <2>1 DEF Owned
  <2>3. q \in Ranks
    BY <1>2, <2>1, <2>2, OwnerIsRank
  <2>4. f \in Asked(r, q)
    BY <2>1, <2>2 DEF Asked
  <2>5. Says(q, r, ReceivedCount(r) + 1, Message(q, r))
    BY <1>1, <1>2, <2>3, MessageSays DEF Arrived
  <2>6. ReceivedCount(r) + 1 = 3 + 2 * iter[r]
    BY <1>2, <1>4
  <2>7. ValidIndices(Asked(r, q), Message(q, r))
    BY <1>2, <2>5, <2>6 DEF Says
  <2>8. ghosts[f] = Message(q, r)[f]
    BY <1>6, <2>2
  <2>. QED BY <2>4, <2>7, <2>8 DEF ValidIndices
<1>9. ValidIndices(LocalFaces(r), index'[r])
      /\ \A f \in Owned(r) : index'[r][f] = TrueIndex(r, f)
  <2>1. Owned(r) \subseteq LocalFaces(r)
    BY DEF Owned
  <2>2. \A f \in LocalFaces(r) : ValidIndex(f, index'[r][f])
    BY <1>5, <1>7, <1>8 DEF ValidIndices
  <2>3. \A f \in Owned(r) : index'[r][f] = TrueIndex(r, f)
    BY <1>3, <1>5, <1>7, <2>1
  <2>. QED BY <1>7, <2>2, <2>3 DEF ValidIndices
<1>10. done = Complete(r)'
  <2>1. \A f \in Owned(r) : index'[r][f] # Padding
    <3> TAKE f \in Owned(r)
    <3>1. TrueIndex(r, f) \in Nat
      BY <1>2, IndexRange
    <3>. QED BY <1>9, <3>1 DEF Padding
  <2>2. \A f \in GhostFaces(r) : f \in LocalFaces(r) /\ index'[r][f] = ghosts[f]
    BY <1>3, <1>7
  <2>3. (\A f \in GhostFaces(r) : ghosts[f] # Padding)
          <=> \A f \in LocalFaces(r) : index'[r][f] # Padding
    BY <1>3, <2>1, <2>2
  <2>4. Complete(r)' <=> \A f \in LocalFaces(r) : index'[r][f] # Padding
    BY <1>7 DEF Complete
  <2>5. (\A f \in GhostFaces(r) : ghosts[f] # Padding) <=> Complete(r)'
    BY <2>3, <2>4
  <2>6. (\A f \in GhostFaces(r) : ghosts[f] # Padding) = Complete(r)'
    BY <2>5 DEF Complete
  <2>. QED BY <1>6, <2>6
<1>11. TypesOK'
  <2>1. IsMail(mail')
    BY <1>2, <1>6, ExchangedBox
  <2>2. "done?" \in Distributing
    BY DEF Distributing
  <2>. QED BY <1>1, <1>2, <1>7, <2>1, <2>2, TypesKept DEF TypesOK
<1>12. LocalOK'
  <2>1. ASSUME NEW x \in Ranks, x # r
        PROVE  OwnersOK(x)' /\ IndicesOK(x)' /\ SeedsOK(x)'
    <3>1. /\ pc'[x] = pc[x] /\ owner'[x] = owner[x]
          /\ index'[x] = index[x] /\ foreign'[x] = foreign[x]
      BY <1>1, <1>7, <2>1
    <3>2. OwnersOK(x) /\ IndicesOK(x) /\ SeedsOK(x)
      BY <1>2 DEF LocalOK
    <3>. QED BY <1>1, <3>1, <3>2, LocalKept
  <2>2. OwnersOK(r)'
    BY <1>1, <1>3, <1>7, MeshKept DEF OwnersOK
  <2>3. IndicesOK(r)'
    <3>1. ValidIndices(LocalFaces(r), index[r])'
      BY <1>1, <1>9, MeshKept DEF ValidIndices
    <3>2. \A f \in Owned(r)' : index'[r][f] = TrueIndex(r, f)'
      BY <1>1, <1>9, MeshKept
    <3>. QED BY <1>7, <3>1, <3>2 DEF IndicesOK
  <2>4. SeedsOK(r)'
    <3>1. foreign[r] = [q \in Ranks |-> Asked(q, r)]
      BY <1>1, <1>2 DEF LocalOK, SeedsOK
    <3>2. \A q \in Ranks : Asked(q, r)' = Asked(q, r)
      BY <1>1, MeshKept
    <3>. QED BY <1>1, <3>1, <3>2 DEF SeedsOK
  <2>. QED BY <2>1, <2>2, <2>3, <2>4 DEF LocalOK
<1>13. \A q \in Ranks : ~HasLeft(q)
  BY <1>1, <1>2, NoneHasLeft
<1>14. PICK k \in Nat : k = 4 + 2 * iter[r]
  BY <1>2
<1>15. /\ "done?" \in Distributing /\ "done?" # "start"
       /\ k = SentCount(r) + 1 /\ SentCount(r)' = k
       /\ ReceivedCount(r)' = SentCount(r)
  <2>1. \A i : SentBy("done?", i) = 4 + 2 * i
               /\ ReceivedBy("done?", i) = (4 + 2 * i) - 1
    <3>1. \A i : SentBy("done?", i) = 4 + 2 * i
      BY DEF SentBy
    <3>. QED BY <3>1 DEF ReceivedBy
  <2>2. SentCount(r)' = 4 + 2 * iter[r] /\ ReceivedCount(r)' = (4 + 2 * iter[r]) - 1
    BY <1>1, <1>7, <2>1 DEF SentCount, ReceivedCount
  <2>. QED BY <1>2, <1>4, <1>14, <2>2 DEF Distributing
<1>16. \A x \in Ranks : x # r =>
         iter'[x] = iter[x] /\ Complete(x)' = Complete(x)
  BY <1>1, <1>7 DEF Complete
<1>17. \A x \in Ranks : pc[x] \in Distributing =>
         SentCount(r) <= SentCount(x)
  BY <1>1, <1>2, Lag
<1>18. MailOK'
  <2>1. ASSUME NEW x \in Ranks PROVE Says(r, x, k, m[x])'
    <3>1. m[x] = Complete(r)'
      BY <1>6, <1>10
    <3>2. k # 1 /\ k # 2 /\ \A i \in Nat : k # 3 + 2 * i
      BY <1>2, <1>14
    <3>. QED BY <3>1, <3>2 DEF Says
  <2>2. ASSUME NEW x \in Ranks, NEW n, NEW v, pc[x] \in Distributing,
               Says(r, x, n, v), ReceivedCount(x) < n, n < k
        PROVE  Says(r, x, n, v)'
    <3>1. /\ SentCount(x) \in Nat /\ SentCount(x) >= 3 + 2 * iter[r]
          /\ pc[x] # "start" => SentCount(x) = ReceivedCount(x) + 1
          /\ pc[x] = "start" => SentCount(x) = 0
          /\ ReceivedCount(x) \in Nat
      BY <1>2, <1>4, <1>17, <2>2, CountFacts
    <3>2. ReceivedCount(x) >= 2 + 2 * iter[r]
      BY <1>2, <3>1
    <3>3. \A i \in Nat : n # 4 + 2 * i
      BY <1>2, <1>14, <2>2, <3>1, <3>2
    <3>. QED BY <1>1, <2>2, <3>3, SaysKeptOdd
  <2>. QED BY <1>1, <1>2, <1>6, <1>13, <1>15, <1>16, <2>1, <2>2,
              ExchangeKeepsMail
<1>19. RoundsOK'
  <2>1. ASSUME NEW q \in Ranks, NEW x \in Ranks, pc'[x] = "done?",
               pc'[q] = "answers", iter'[q] = iter'[x] + 1
        PROVE  FALSE
    <3>1. q # r /\ pc[q] = "answers" /\ pc[q] \in Distributing
      BY <1>7, <2>1 DEF Distributing
    <3>2. SentCount(q) = 3 + 2 * iter[q] /\ iter[q] \in Nat /\ iter[x] \in Nat
          /\ iter[q] = iter[x] + 1
      BY <1>1, <1>2, <2>1, <3>1, CountFacts, MeshAssumption DEF TypesOK
    <3>3. SentCount(q) <= SentCount(r) + 1
      BY <1>2, <3>1 DEF RoundsOK
    <3>4. iter[x] + 1 <= iter[r]
      BY <1>2, <1>4, <3>2, <3>3
    <3>5. x # r /\ pc[x] = "done?" /\ pc[x] \in Distributing
      BY <1>2, <1>7, <2>1, <3>2, <3>4 DEF Distributing
    <3>6. SentCount(r) <= SentCount(x) /\ SentCount(x) = 4 + 2 * iter[x]
      BY <1>2, <1>17, <3>5, CountFacts
    <3>. QED BY <1>2, <1>4, <3>2, <3>4, <3>6
  <2>2. SentCount(r)' = SentCount(r) + 1
    BY <1>15
  <2>. QED BY <1>1, <1>2, <1>13, <1>15, <1>16, <2>1, <2>2, RoundsKept
<1>. QED BY <1>11, <1>12, <1>18, <1>19 DEF IndInv

(* When a rank has all verdicts on the last pass, those that still         *)
(* distribute faces are at the end of the same pass.                       *)
LEMMA AllAtEnd ==
  ASSUME IndInv, NEW r \in Ranks, pc[r] = "done?", Arrived(r, Ranks),
         Ends(iter[r]), NEW x \in Ranks, pc[x] \in Distributing
  PROVE  /\ pc[x] = "done?" /\ iter[x] = iter[r]
         /\ IsSequence(mail[r][x]) /\ Len(mail[r][x]) = 1 /\ mail[r][x] # <<>>
<1>1. TypesOK /\ MailOK /\ RoundsOK /\ pc[r] \in Distributing
  BY DEF IndInv, Distributing
<1>2. SentCount(r) = 4 + 2 * iter[r] /\ iter[r] \in Nat
  BY <1>1, CountFacts
<1>3. SentCount(r) <= SentCount(x) /\ SentCount(x) <= SentCount(r) + 1
  BY <1>1, Lag DEF RoundsOK
<1>4. iter[x] \in Nat /\ SentCount(x) \in Nat
  BY <1>1, CountFacts
<1>5. pc[x] # "start" /\ pc[x] # "counts" /\ pc[x] # "seeds"
  BY <1>1, <1>2, <1>3, CountFacts
<1>6. pc[x] # "answers"
  <2> SUFFICES ASSUME pc[x] = "answers" PROVE FALSE
    OBVIOUS
  <2>1. SentCount(x) = 3 + 2 * iter[x]
    BY <1>1, CountFacts
  <2>2. iter[x] = iter[r] + 1
    BY <1>2, <1>3, <1>4, <2>1
  <2>. QED BY <1>1, <2>2 DEF RoundsOK
<1>7. pc[x] = "done?"
  BY <1>5, <1>6 DEF Distributing
<1>8. SentCount(x) = 4 + 2 * iter[x] /\ ReceivedCount(x) = 3 + 2 * iter[x]
  BY <1>1, <1>4, <1>7, CountFacts
<1>9. iter[x] = iter[r]
  BY <1>2, <1>3, <1>4, <1>8
<1>10. IsSequence(mail[r][x]) /\ Len(mail[r][x]) = SentCount(r) - ReceivedCount(x)
  BY <1>1 DEF MailOK, ChannelOK
<1>11. Len(mail[r][x]) = 1
  BY <1>2, <1>8, <1>9, <1>10
<1>12. Len(mail[r][x]) > 0
  BY <1>11
<1>13. mail[r][x] # <<>>
  BY <1>10, <1>12, LengthFacts, Zenon
<1>. QED BY <1>7, <1>9, <1>10, <1>11, <1>13

(* All ranks come to the same verdict.                                     *)
LEMMA LastPassEnds ==
  ASSUME IndInv, NEW r \in Ranks, pc[r] = "done?", Arrived(r, Ranks)
  PROVE  LastPass(r) <=> Ends(iter[r])
<1>1. TypesOK /\ MailOK /\ pc[r] \in Distributing /\ iter[r] \in Nat
  BY MeshAssumption DEF IndInv, TypesOK, Distributing
<1>2. ReceivedCount(r) + 1 = 4 + 2 * iter[r]
  BY <1>1, CountFacts
<1>3. ASSUME NEW q \in Ranks PROVE Message(q, r) = Complete(q)
  <2>1. Says(q, r, ReceivedCount(r) + 1, Message(q, r))
    BY <1>1, MessageSays DEF Arrived
  <2>. QED BY <1>1, <1>2, <2>1 DEF Says
<1>. QED BY <1>3 DEF LastPass, Ends

(* A rank begins another pass, or ends the last one.                       *)
LEMMA RepeatKeeps ==
  ASSUME IndInv, NEW r \in Ranks, Repeat(r), UNCHANGED attributes
  PROVE  IndInv'
<1>1. /\ pc[r] = "done?" /\ Arrived(r, Ranks)
      /\ UNCHANGED <<meshVars, owner, index, foreign, globalOffsets>>
  BY DEF Repeat, attributes
<1>2. TypesOK /\ LocalOK /\ MailOK /\ RoundsOK /\ IsMail(mail)
      /\ pc[r] \in Distributing /\ pc[r] # "start" /\ iter[r] \in Nat
      /\ iter[r] \in 0 .. (MeshDimension - 1)
  BY <1>1, MeshAssumption DEF IndInv, TypesOK, IsMail, Distributing
<1>3. SentCount(r) = 4 + 2 * iter[r] /\ ReceivedCount(r) = 3 + 2 * iter[r]
  BY <1>1, <1>2, CountFacts
<1>4. LastPass(r) <=> Ends(iter[r])
  BY <1>1, LastPassEnds
<1>5. DOMAIN owner' = Ranks /\ DOMAIN index' = Ranks /\ DOMAIN foreign' = Ranks
  BY <1>1, <1>2 DEF TypesOK
<1>6. CASE LastPass(r)
  <2>1. PICK label :
          /\ label \in {"failed", "distributed"}
          /\ pc' = [pc EXCEPT ![r] = label] /\ mail' = Taken(r, Ranks)
          /\ iter' = iter
    BY <1>6 DEF Repeat, Goto
  <2>2. label \in Synchronizing \union {"failed"} /\ label \notin Distributing
        /\ label \notin {"start", "counts", "seeds", "answers", "done?"}
    BY <2>1 DEF Synchronizing, Distributing
  <2>3. Ends(iter[r]) /\ iter' \in [Ranks -> 0 .. (MeshDimension - 1)]
    BY <1>2, <1>4, <1>6, <2>1 DEF TypesOK
  <2>4. TypesOK'
    <3>1. IsMail(mail')
      BY <1>2, <2>1, TakenBox
    <3>. QED BY <1>1, <1>2, <1>5, <2>1, <2>2, <2>3, <3>1, TypesKept
  <2>5. LocalOK'
    <3>1. ASSUME NEW x \in Ranks
          PROVE  OwnersOK(x)' /\ IndicesOK(x)' /\ SeedsOK(x)'
      <4>1. \/ pc'[x] = pc[x]
            \/ /\ pc[x] \notin {"start", "counts"}
               /\ pc'[x] \notin {"start", "counts", "answers", "done?"}
        BY <1>1, <1>2, <2>1, <2>2 DEF TypesOK
      <4>2. /\ owner'[x] = owner[x]
            /\ index'[x] = index[x] /\ foreign'[x] = foreign[x]
        BY <1>1
      <4>3. OwnersOK(x) /\ IndicesOK(x) /\ SeedsOK(x)
        BY <1>2 DEF LocalOK
      <4>. QED BY <1>1, <4>1, <4>2, <4>3, LocalKept
    <3>. QED BY <3>1 DEF LocalOK
  <2>6. ASSUME NEW x \in Ranks, x # r, pc[x] \in Distributing
        PROVE  pc[x] = "done?" /\ iter[x] = iter[r] /\ mail[r][x] # <<>>
    BY <1>1, <2>3, <2>6, AllAtEnd
  <2>7. MailOK'
    BY <1>1, <1>2, <2>1, <2>2, <2>6, LeavingKeepsMail
  <2>8. RoundsOK'
    <3>1. Ends(iter[r])'
      BY <1>1, <2>1, <2>3 DEF Ends, Complete
    <3>. QED BY <1>1, <1>2, <2>1, <2>2, <3>1, LeavingKeepsRounds
  <2>. QED BY <2>4, <2>5, <2>7, <2>8 DEF IndInv
<1>7. CASE ~LastPass(r)
  <2>1. SendAnswers(r, foreign[r]) /\ iter' = [iter EXCEPT ![r] = iter[r] + 1]
    BY <1>7, <1>2 DEF Repeat, TypesOK
  <2>2. ~Ends(iter[r]) /\ iter[r] + 1 # MeshDimension
    BY <1>4, <1>7 DEF Ends
  <2>3. /\ iter' \in [Ranks -> 0 .. (MeshDimension - 1)]
        /\ iter'[r] = iter[r] + 1 /\ \A x \in Ranks : x # r => iter'[x] = iter[x]
    <3>1. iter[r] + 1 \in 0 .. (MeshDimension - 1)
      BY <1>2, <2>2, MeshAssumption
    <3>. QED BY <1>2, <2>1, <3>1 DEF TypesOK
  <2>4. PICK seeds : seeds = foreign[r]
    OBVIOUS
  <2>5. /\ seeds = [q \in Ranks |-> Asked(q, r)]
        /\ \A x \in Ranks : foreign'[x] = IF x = r THEN seeds ELSE foreign[x]
    BY <1>1, <1>2, <2>4 DEF LocalOK, SeedsOK
  <2>6. \A q \in Ranks : ~HasLeft(q)
    <3> SUFFICES ASSUME NEW q \in Ranks, HasLeft(q) PROVE FALSE
      OBVIOUS
    <3>1. iter[r] = iter[q]
      BY <1>2 DEF MailOK, ChannelOK
    <3>2. Ends(iter[q])
      BY <1>2 DEF RoundsOK
    <3>. QED BY <2>2, <3>1, <3>2
  <2>7. \A x \in Ranks : x # r /\ pc[x] = "done?" /\ iter'[r] = iter[x] + 1
                         => ~Ends(iter[x])
    <3> SUFFICES ASSUME NEW x \in Ranks, iter'[r] = iter[x] + 1
                 PROVE  ~Ends(iter[x])
      OBVIOUS
    <3>1. iter[x] \in Nat
      BY <1>2, MeshAssumption DEF TypesOK
    <3>2. iter[x] = iter[r]
      BY <1>2, <2>3, <3>1
    <3>. QED BY <2>2, <3>2
  <2>8. SentCount(r) = 2 + 2 * iter'[r]
    BY <1>2, <1>3, <2>3
  <2>9. SendAnswers(r, seeds)
    BY <2>1, <2>4 DEF SendAnswers
  <2>. QED BY <1>1, <1>5, <2>3, <2>5, <2>6, <2>7, <2>8, <2>9, SendAnswersKeeps
<1>. QED BY <1>6, <1>7

-----------------------------------------------------------------------------
(* The steps of the synchronizer.                                          *)

(* What the synchronizer of rank r leaves alone.                           *)
SyncEffect(r) ==
  \E label \in Synchronizing \union {"failed"} :
    /\ pc[r] \in Synchronizing /\ pc' = [pc EXCEPT ![r] = label]
    /\ UNCHANGED <<meshVars, iter, owner, index, foreign>>
    /\ DOMAIN globalOffsets' = Ranks
    /\ \A x \in Ranks : x # r => globalOffsets'[x] = globalOffsets[x]
    /\ label = "failed" => globalOffsets'[r] # <<>>
    /\ Later(r, mail')

(* A step of the synchronizer changes mail, its label and its attributes.  *)
LEMMA SynchronizeEffect ==
  ASSUME TypesOK, NEW r \in Ranks, SynchronizeStep(r)
  PROVE  SyncEffect(r)
<1>1. IsMail(mail) /\ DOMAIN globalOffsets = Ranks
  BY DEF TypesOK, IsMail
<1>2. ASSUME NEW label \in Synchronizing, pc[r] \in Synchronizing,
             pc' = [pc EXCEPT ![r] = label],
             UNCHANGED <<meshVars, iter, owner, index, foreign, globalOffsets>>,
             Later(r, mail')
      PROVE  SyncEffect(r)
  <2>1. label # "failed"
    BY LabelFacts
  <2>. QED BY <1>1, <1>2, <2>1 DEF SyncEffect
<1>3. CASE ExchangeOffsets(r)
  <2>1. Later(r, mail')
    BY <1>1, <1>3, LaterBox DEF ExchangeOffsets
  <2>2. "offsets" \in Synchronizing /\ pc[r] \in Synchronizing
    BY <1>3 DEF ExchangeOffsets, Synchronizing
  <2>. QED BY <1>2, <1>3, <2>1, <2>2 DEF ExchangeOffsets, Goto, attributes
<1>4. CASE CountGhosts(r)
  <2>1. PICK o : o = [q \in Ranks |-> Message(q, r)]
    OBVIOUS
  <2>2. globalOffsets' = [globalOffsets EXCEPT ![r] = o]
    BY <1>4, <2>1 DEF CountGhosts
  <2>3. DOMAIN globalOffsets' = Ranks /\ globalOffsets'[r] = o
        /\ \A x \in Ranks : x # r => globalOffsets'[x] = globalOffsets[x]
    BY <1>1, <2>2
  <2>4. o # <<>>
    <3>1. DOMAIN o = Ranks /\ Ranks # {}
      BY <2>1
    <3>. QED BY <3>1
  <2>5. /\ pc[r] \in Synchronizing
        /\ UNCHANGED <<meshVars, iter, owner, index, foreign>>
    BY <1>4 DEF CountGhosts, Synchronizing
  <2>6. \/ pc' = [pc EXCEPT ![r] = "failed"] /\ mail' = Taken(r, Ranks)
        \/ /\ pc' = [pc EXCEPT ![r] = "ghostCounts"]
           /\ \E m : mail' = Exchanged(r, "ghostCounts", m)
    <3>1. CASE LocalGhosts(r, r) # {}
      BY <1>4, <3>1 DEF CountGhosts, Goto
    <3>2. CASE LocalGhosts(r, r) = {}
      BY <1>4, <3>2 DEF CountGhosts, Goto
    <3>. QED BY <3>1, <3>2
  <2>7. Later(r, mail')
    BY <1>1, <2>6, LaterBox DEF Exchanged
  <2>8. \E label \in Synchronizing \union {"failed"} :
          pc' = [pc EXCEPT ![r] = label]
    BY <2>6 DEF Synchronizing
  <2>. QED BY <2>3, <2>4, <2>5, <2>7, <2>8 DEF SyncEffect
<1>5. CASE SendGhosts(r)
  <2>1. Later(r, mail')
    BY <1>1, <1>5, LaterBox DEF SendGhosts
  <2>2. "ghosts" \in Synchronizing /\ pc[r] \in Synchronizing
    BY <1>5 DEF SendGhosts, Synchronizing
  <2>. QED BY <1>2, <1>5, <2>1, <2>2 DEF SendGhosts, Goto
<1>6. CASE FinishInitialize(r)
  <2>1. Later(r, mail')
    BY <1>1, <1>6, LaterBox DEF FinishInitialize
  <2>2. "initialized" \in Synchronizing /\ pc[r] \in Synchronizing
    BY <1>6 DEF FinishInitialize, Synchronizing
  <2>. QED BY <1>2, <1>6, <2>1, <2>2 DEF FinishInitialize, Goto
<1>7. CASE Synchronize(r)
  <2>1. Later(r, mail')
    BY <1>1, <1>7, LaterBox DEF Synchronize
  <2>2. "values" \in Synchronizing /\ pc[r] \in Synchronizing
    BY <1>7 DEF Synchronize, Synchronizing
  <2>. QED BY <1>2, <1>7, <2>1, <2>2 DEF Synchronize, Goto, attributes
<1>8. CASE FinishSynchronize(r)
  <2>1. Later(r, mail')
    BY <1>1, <1>8, LaterBox DEF FinishSynchronize
  <2>2. "done" \in Synchronizing /\ pc[r] \in Synchronizing
    BY <1>8 DEF FinishSynchronize, Synchronizing
  <2>. QED BY <1>2, <1>8, <2>1, <2>2 DEF FinishSynchronize, Goto
<1>. QED BY <1>3, <1>4, <1>5, <1>6, <1>7, <1>8 DEF SynchronizeStep

(* The synchronizer of a rank does not disturb those that distribute.      *)
LEMMA SynchronizeKeeps ==
  ASSUME IndInv, NEW r \in Ranks, SynchronizeStep(r)
  PROVE  IndInv'
<1>1. TypesOK /\ LocalOK /\ MailOK /\ RoundsOK
  BY DEF IndInv
<1>2. PICK label \in Synchronizing \union {"failed"} :
        /\ pc[r] \in Synchronizing /\ pc' = [pc EXCEPT ![r] = label]
        /\ UNCHANGED <<meshVars, iter, owner, index, foreign>>
        /\ DOMAIN globalOffsets' = Ranks
        /\ \A x \in Ranks : x # r => globalOffsets'[x] = globalOffsets[x]
        /\ label = "failed" => globalOffsets'[r] # <<>>
        /\ Later(r, mail')
  BY <1>1, SynchronizeEffect DEF SyncEffect
<1>3. pc'[r] = label /\ \A x \in Ranks : x # r => pc'[x] = pc[x]
  BY <1>1, <1>2 DEF TypesOK
<1>4. /\ label \notin Distributing /\ pc[r] \notin Distributing
      /\ label \notin {"start", "counts", "seeds", "answers", "done?"}
      /\ pc[r] \notin {"start", "counts"}
  BY <1>2 DEF Distributing, Synchronizing
<1>5. HasLeft(r) /\ HasLeft(r)'
  BY <1>2, <1>3 DEF HasLeft
<1>6. TypesOK'
  <2>1. MeshOK'
    BY <1>1, <1>2, MeshKept DEF TypesOK
  <2>2. pc' \in [Ranks -> Distributing \union Synchronizing \union {"failed"}]
    BY <1>1, <1>2 DEF TypesOK
  <2>3. ASSUME NEW x \in Ranks
        PROVE  /\ pc'[x] \in Distributing => globalOffsets'[x] = <<>>
               /\ pc'[x] \in {"start", "counts", "seeds"} => iter'[x] = 0
    <3>1. CASE x = r
      BY <1>3, <1>4, <3>1
    <3>2. CASE x # r
      BY <1>1, <1>2, <1>3, <3>2 DEF TypesOK
    <3>. QED BY <3>1, <3>2
  <2>4. DOMAIN mail' = Ranks /\ \A q \in Ranks : DOMAIN mail'[q] = Ranks
    BY <1>2 DEF Later, IsMail
  <2>. QED BY <1>1, <1>2, <2>1, <2>2, <2>3, <2>4 DEF TypesOK
<1>7. LocalOK'
  <2>1. ASSUME NEW x \in Ranks
        PROVE  OwnersOK(x)' /\ IndicesOK(x)' /\ SeedsOK(x)'
    <3>1. \/ pc'[x] = pc[x]
          \/ /\ pc[x] \notin {"start", "counts"}
             /\ pc'[x] \notin {"start", "counts", "answers", "done?"}
      BY <1>3, <1>4
    <3>2. OwnersOK(x) /\ IndicesOK(x) /\ SeedsOK(x)
      BY <1>1 DEF LocalOK
    <3>. QED BY <1>2, <3>1, <3>2, LocalKept
  <2>. QED BY <2>1 DEF LocalOK
<1>8. MailOK'
  BY <1>1, <1>2, <1>3, <1>4, <1>5, LaterKeepsMail
<1>9. RoundsOK'
  <2>1. ASSUME NEW q \in Ranks, NEW x \in Ranks,
               pc'[q] \in Distributing, pc'[x] \in Distributing
        PROVE  /\ SentCount(q)' <= SentCount(x)' + 1
               /\ pc'[x] = "done?" /\ pc'[q] = "answers" /\ iter'[q] = iter'[x] + 1
                    => ~Ends(iter[x])'
    <3>1. pc'[q] = pc[q] /\ pc'[x] = pc[x]
      BY <1>3, <1>4, <2>1
    <3>2. SentCount(q)' = SentCount(q) /\ SentCount(x)' = SentCount(x)
      BY <1>2, <3>1 DEF SentCount
    <3>3. /\ SentCount(q) <= SentCount(x) + 1
          /\ pc[x] = "done?" /\ pc[q] = "answers" /\ iter[q] = iter[x] + 1
               => ~Ends(iter[x])
      BY <1>1, <2>1, <3>1 DEF RoundsOK
    <3>4. Ends(iter[x])' = Ends(iter[x])
      BY <1>2 DEF Ends, Complete
    <3>. QED BY <1>2, <3>1, <3>2, <3>3, <3>4
  <2>2. ASSUME NEW q \in Ranks, HasLeft(q)' PROVE Ends(iter[q])'
    <3>1. HasLeft(q)
      <4>1. CASE q = r
        BY <1>5, <4>1
      <4>2. CASE q # r
        BY <1>2, <1>3, <2>2, <4>2 DEF HasLeft
      <4>. QED BY <4>1, <4>2
    <3>2. Ends(iter[q])
      BY <1>1, <3>1 DEF RoundsOK
    <3>. QED BY <1>2, <3>2 DEF Ends, Complete
  <2>. QED BY <2>1, <2>2 DEF RoundsOK
<1>. QED BY <1>6, <1>7, <1>8, <1>9 DEF IndInv

-----------------------------------------------------------------------------
(* The theorem.                                                            *)

(* No rank knows anything in the beginning.                                *)
LEMMA InitEstablishes ==
  ASSUME SyncInit
  PROVE  IndInv
<1>1. /\ MeshOK
      /\ \A r \in Ranks : /\ pc[r] = "start" /\ iter[r] = 0 /\ owner[r] = <<>>
                          /\ index[r] = <<>> /\ globalOffsets[r] = <<>>
      /\ \A q \in Ranks, r \in Ranks : mail[q][r] = <<>>
  BY MeshFacts DEF SyncInit, Init
<1>2. TypesOK
  <2>1. iter \in [Ranks -> 0 .. (MeshDimension - 1)]
    BY MeshAssumption DEF SyncInit, Init
  <2>2. pc \in [Ranks -> Distributing \union Synchronizing \union {"failed"}]
    BY DEF SyncInit, Init, Distributing
  <2>3. /\ DOMAIN owner = Ranks /\ DOMAIN index = Ranks /\ DOMAIN foreign = Ranks
        /\ DOMAIN globalOffsets = Ranks
        /\ DOMAIN mail = Ranks /\ \A q \in Ranks : DOMAIN mail[q] = Ranks
    BY DEF SyncInit, Init
  <2>. QED BY <1>1, <2>1, <2>2, <2>3 DEF TypesOK
<1>3. LocalOK
  BY <1>1 DEF LocalOK, OwnersOK, IndicesOK, SeedsOK
<1>4. \A r \in Ranks : SentCount(r) = 0 /\ ReceivedCount(r) = 0 /\ ~HasLeft(r)
  <2>1. \A i : SentBy("start", i) = 0 /\ ReceivedBy("start", i) = 0
    BY DEF SentBy, ReceivedBy
  <2>2. "start" \notin Synchronizing
    BY DEF Synchronizing
  <2>. QED BY <1>1, <2>1, <2>2 DEF SentCount, ReceivedCount, HasLeft
<1>5. MailOK
  <2>1. IsSequence(<<>>) /\ DOMAIN <<>> = {} /\ Len(<<>>) = 0
    <3>1. <<>> \in Seq({})
      OBVIOUS
    <3>. QED BY <3>1 DEF IsSequence
  <2>. QED BY <1>1, <1>4, <2>1 DEF MailOK, ChannelOK
<1>6. RoundsOK
  BY <1>1, <1>4 DEF RoundsOK
<1>. QED BY <1>2, <1>3, <1>5, <1>6 DEF IndInv

(* Every step of every rank keeps the invariant.                           *)
LEMMA NextKeeps ==
  ASSUME IndInv, [Next]_allVars
  PROVE  IndInv'
<1>1. CASE UNCHANGED allVars
  <2>1. /\ UNCHANGED meshVars /\ pc' = pc /\ iter' = iter /\ owner' = owner
        /\ index' = index /\ foreign' = foreign /\ mail' = mail
        /\ globalOffsets' = globalOffsets
    BY <1>1 DEF allVars, vars, attributes
  <2>2. TypesOK /\ LocalOK /\ MailOK /\ RoundsOK
    BY DEF IndInv
  <2>3. TypesOK'
    BY <2>1, <2>2, MeshKept DEF TypesOK
  <2>4. LocalOK'
    BY <2>1, <2>2, LocalKept DEF LocalOK
  <2>5. MailOK'
    <3>1. ASSUME NEW q \in Ranks, NEW x \in Ranks, pc[x] \in Distributing
          PROVE  ChannelOK(q, x)'
      <4>1. ChannelOK(q, x) /\ Complete(q)' = Complete(q)
            /\ ReceivedCount(x)' = ReceivedCount(x)
        BY <2>1, <2>2, <3>1 DEF MailOK, Complete, ReceivedCount
      <4>. QED BY <2>1, <4>1, ChannelKept
    <3>. QED BY <2>1, <3>1 DEF MailOK
  <2>6. RoundsOK'
    BY <2>1, <2>2 DEF RoundsOK, SentCount, HasLeft, Ends, Complete
  <2>. QED BY <2>3, <2>4, <2>5, <2>6 DEF IndInv
<1>2. ASSUME NEW r \in Ranks, RankStep(r) PROVE IndInv'
  <2>1. CASE DistributeStep(r) /\ UNCHANGED attributes
    BY <2>1, CountEntitiesKeeps, AssignIndicesKeeps, ReceiveSeedsKeeps,
       SetGhostIndicesKeeps, RepeatKeeps DEF DistributeStep
  <2>2. CASE SynchronizeStep(r)
    BY <2>2, SynchronizeKeeps
  <2>. QED BY <1>2, <2>1, <2>2 DEF RankStep
<1>. QED BY <1>1, <1>2 DEF Next, Finished

(* Indices that are valid agree.                                           *)
LEMMA InvariantImpliesAgreement ==
  ASSUME IndInv
  PROVE  IndicesAgree
<1>1. ASSUME NEW r \in Ranks, NEW f \in DOMAIN index[r]
      PROVE  ValidIndex(f, index[r][f])
  <2>1. index[r] # <<>>
    BY <1>1
  <2>2. ValidIndices(LocalFaces(r), index[r])
    BY <2>1 DEF IndInv, LocalOK, IndicesOK
  <2>. QED BY <1>1, <2>2 DEF ValidIndices
<1>2. MeshOK
  BY DEF IndInv, TypesOK
<1>3. ASSUME NEW q \in Ranks, NEW r \in Ranks,
             NEW f \in DOMAIN index[q], NEW g \in DOMAIN index[r],
             index[q][f] # Padding, index[r][g] # Padding
      PROVE  index[q][f] = index[r][g] <=> f = g
  BY <1>1, <1>2, <1>3, ValidAgree
<1>. QED BY <1>3 DEF IndicesAgree

(* A face has one global index on all ranks that know it, and two faces    *)
(* have two, for every mesh of which a face has two cells at most, every   *)
(* partition and every order in which ranks and messages proceed           *)
(* (distributeSubentities, getEntityOwner).                                *)
THEOREM IndicesAlwaysAgree == Spec => []IndicesAgree
<1>1. SyncInit => IndInv
  BY InitEstablishes
<1>2. IndInv /\ [Next]_allVars => IndInv'
  BY NextKeeps
<1>3. IndInv => IndicesAgree
  BY InvariantImpliesAgreement
<1>. QED BY <1>1, <1>2, <1>3, PTL DEF Spec

-----------------------------------------------------------------------------
(* What the synchronizer makes of the mesh.                                *)

(* The ghosts of rank q that rank r owns.                                  *)
GhostsOf(q, r) == {f \in LocalFaces(q) : f \in Owned(r)} \ Owned(q)
GhostCounts(q) == [r \in Ranks |-> Cardinality(GhostsOf(q, r))]

(* The place of a ghost among those that rank q has of rank r.             *)
Slot(q, r, f) ==
  Cardinality({g \in GhostsOf(q, r) : TrueIndex(r, g) <= TrueIndex(r, f)})

(* The messages with global indices and values of these ghosts: there is   *)
(* none if rank q has no ghosts of rank r.                                 *)
GhostIndices(q, r, m) ==
  /\ DOMAIN m = 1 .. Cardinality(GhostsOf(q, r))
  /\ \A f \in GhostsOf(q, r) : m[Slot(q, r, f)] = TrueIndex(r, f)
GhostValues(q, r, m) == \A f \in GhostsOf(q, r) : m[Slot(q, r, f)] = f
Transfers(q, r) == IF GhostsOf(q, r) = {} THEN 0 ELSE 1

(* What the n-th message from rank q to rank r says after they have left   *)
(* distributeSubentities.                                                  *)
LaterSays(q, r, n, m) ==
  /\ n = 1 => m = ExclusiveScan(Counts)[q]
  /\ n = 2 => m = GhostCounts(q)
  /\ n = 3 /\ GhostsOf(q, r) # {} => GhostIndices(q, r, m)
  /\ n = 3 /\ GhostsOf(q, r) = {} => GhostValues(r, q, m)
  /\ n = 4 => GhostValues(r, q, m)

(* Messages of the synchronizer that a rank has sent to another one, which *)
(* gets `indices' messages with indices from it and `data' with values ... *)
LaterSent(label, indices, data) ==
  IF label = "offsets" THEN 1
  ELSE IF label = "ghostCounts" THEN 2
  ELSE IF label \in {"ghosts", "initialized"} THEN 2 + indices
  ELSE IF label \in {"values", "done"} THEN 2 + indices + data
  ELSE 0

(* ... and messages that it has received from another one.                 *)
LaterReceived(label, indices, data) ==
  IF label = "ghostCounts" THEN 1
  ELSE IF label = "ghosts" THEN 2
  ELSE IF label \in {"initialized", "values"} THEN 2 + indices
  ELSE IF label = "done" THEN 2 + indices + data
  ELSE 0

(* The channel s from rank q to rank r holds the messages after `from' up  *)
(* to `to'.                                                                *)
Holds(q, r, s, from, to) ==
  /\ IsSequence(s) /\ Len(s) = to - from
  /\ \A j \in DOMAIN s : LaterSays(q, r, from + j, s[j][2])

-----------------------------------------------------------------------------
(* The invariant of the synchronizer, if every rank owns a face.           *)

EveryRankOwns ==
  \A r \in Ranks : OwnVertices(r) # {} /\ Owned(r) # {}

Gone(r) == pc[r] \in Synchronizing \union {"failed"}

(* A rank that is still in the last pass has to take the verdict first.    *)
LaterChannelOK(q, r) ==
  LET sent == LaterSent(pc[q], Transfers(q, r), Transfers(r, q))
      received == LaterReceived(pc[r], Transfers(q, r), Transfers(r, q))
  IN  IF Gone(r)
      THEN Holds(q, r, mail[q][r], received, sent)
      ELSE /\ IsSequence(mail[q][r]) /\ mail[q][r] # <<>>
           /\ Holds(q, r, Tail(mail[q][r]), 0, sent)

LaterMailOK ==
  \A q, r \in Ranks : Gone(q) \/ Gone(r) => LaterChannelOK(q, r)

(* All ranks leave after the same pass.                                    *)
GoneOK ==
  /\ \A q \in Ranks : Gone(q) => Ends(iter[q])
  /\ \A q, r \in Ranks :
       Gone(q) /\ ~Gone(r) => pc[r] = "done?" /\ iter[r] = iter[q]

(* The local indices of the ghosts of rank q on rank r.                    *)
NeighborsOK(q, r, m) ==
  /\ DOMAIN m = 1 .. Cardinality(GhostsOf(q, r))
  /\ \A f \in GhostsOf(q, r) : m[Slot(q, r, f)] = Position(f, Owned(r))

AttributesOK(r) ==
  /\ pc[r] \in Synchronizing => Complete(r)
  /\ pc[r] \in {"ghosts", "initialized", "values", "done"} =>
       ghostEntitiesCounts[r] = [q \in Ranks |-> GhostCounts(q)]
  /\ pc[r] \in {"initialized", "values", "done"} =>
       \A q \in Ranks : GhostsOf(q, r) # {} => NeighborsOK(q, r, ghostNeighbors[r][q])
  /\ pc[r] \in {"initialized", "values"} =>
       DOMAIN values[r] = LocalFaces(r) /\ \A f \in Owned(r) : values[r][f] = f
  /\ pc[r] = "done" =>
       DOMAIN values[r] = LocalFaces(r) /\ \A f \in LocalFaces(r) : values[r][f] = f

SyncInv ==
  /\ IndInv /\ EveryRankOwns /\ GoneOK /\ LaterMailOK
  /\ DOMAIN ghostEntitiesCounts = Ranks /\ DOMAIN ghostNeighbors = Ranks
  /\ DOMAIN values = Ranks
  /\ \A r \in Ranks : AttributesOK(r)

-----------------------------------------------------------------------------
(* What ranks own and what they ask for.                                   *)

(* A rank that is asked for a face has a cell of it.                       *)
LEMMA AskedHasCell ==
  ASSUME MeshOK, NEW q \in Ranks, NEW r \in Ranks, NEW f \in Asked(q, r)
  PROVE  /\ f \in LocalFaces(q) /\ f \in LocalFaces(r) /\ q # r
         /\ \E c \in Mine(r) : f \subseteq c
<1>1. f \in LocalFaces(q) /\ getEntityOwner(q, f) = r /\ q # r
  BY DEF Asked
<1>2. PICK c \in Around(q, f) : part[c] = r
  BY <1>1, OwnerIsRank
<1>3. c \in Cells /\ f \subseteq c
  BY <1>1, <1>2, FaceFacts DEF Both, Around
<1>4. c \in Mine(r) /\ c \in localCells[r]
  BY <1>2, <1>3 DEF Mine, MeshOK
<1>5. Cardinality(f) = MeshDimension
  BY <1>1, FaceFacts
<1>6. f \in FacesOf(c)
  BY <1>3, <1>5 DEF FacesOf
<1>. QED BY <1>1, <1>3, <1>4, <1>6 DEF LocalFaces

(* No other face of that rank has the vertices of the face.                *)
LEMMA CommonFace ==
  ASSUME MeshOK, NEW r \in Ranks, OwnersOK(r), pc[r] # "start",
         NEW q \in Ranks, NEW f \in Asked(q, r)
  PROVE  Common(r, f) = {f}
<1>1. f \in LocalFaces(q) /\ f \in LocalFaces(r)
  BY AskedHasCell
<1>2. ASSUME NEW g \in Common(r, f) PROVE g = f
  <2>1. g \in LocalFaces(r) /\ f \in SUBSET g
    BY OwnersKnown DEF Common
  <2>2. IsFiniteSet(g) /\ Cardinality(f) = Cardinality(g)
    BY <1>1, <2>1, FaceFacts
  <2>. QED BY <2>1, <2>2, FS_Subset
<1>3. f \in Common(r, f)
  BY <1>1, OwnersKnown DEF Common
<1>. QED BY <1>2, <1>3

(* If every rank owns a vertex, no rank is asked for what it does not know.*)
LEMMA LookupsSucceed ==
  ASSUME MeshOK, EveryRankOwns, NEW r \in Ranks, OwnersOK(r), pc[r] # "start",
         NEW seeds, seeds = [q \in Ranks |-> Asked(q, r)]
  PROVE  ~LookupFails(r, seeds)
<1>1. ASSUME NEW q \in Ranks, NEW f \in Asked(q, r)
      PROVE  Cardinality(Common(r, f)) = 1 /\ \A v \in f : Found(r, v)
  <2>1. /\ f \in LocalFaces(q) /\ f \in LocalFaces(r)
        /\ \E c \in Mine(r) : f \subseteq c
    BY <1>1, AskedHasCell
  <2>2. Common(r, f) = {f}
    BY <1>1, CommonFace
  <2>3. Cardinality(Common(r, f)) = 1
    BY <2>2, FS_Singleton
  <2>4. ASSUME NEW v \in f PROVE Found(r, v)
    <3>1. v \in LocalVertices(r)
      BY <2>1 DEF LocalVertices, MeshOK
    <3>. QED BY <3>1 DEF Found, EveryRankOwns
  <2>. QED BY <2>3, <2>4
<1>. QED BY <1>1 DEF LookupFails

(* Owners and ghosts do not depend on the progress of the ranks.           *)
LEMMA GhostsKept ==
  ASSUME UNCHANGED meshVars
  PROVE  /\ EveryRankOwns' = EveryRankOwns
         /\ ExclusiveScan(Counts)' = ExclusiveScan(Counts)
         /\ \A r \in Ranks : \A f : Position(f, Owned(r))' = Position(f, Owned(r))
         /\ \A q \in Ranks, r \in Ranks :
              /\ GhostsOf(q, r)' = GhostsOf(q, r)
              /\ Transfers(q, r)' = Transfers(q, r)
              /\ \A f : Slot(q, r, f)' = Slot(q, r, f)
              /\ GhostCounts(q)' = GhostCounts(q)
              /\ \A m : NeighborsOK(q, r, m)' = NeighborsOK(q, r, m)
              /\ \A n, m : LaterSays(q, r, n, m)' = LaterSays(q, r, n, m)
              /\ \A s, from, to :
                   Holds(q, r, s, from, to)' = Holds(q, r, s, from, to)
<1>1. part' = part /\ localCells' = localCells
  BY DEF meshVars
<1>2. \A r \in Ranks : /\ LocalFaces(r)' = LocalFaces(r)
                       /\ Owned(r)' = Owned(r)
                       /\ \A f : TrueIndex(r, f)' = TrueIndex(r, f)
  BY MeshKept
<1>3. EveryRankOwns' = EveryRankOwns
  <2>1. \A r \in Ranks : OwnVertices(r)' = OwnVertices(r)
    BY <1>1 DEF OwnVertices, LocalVertices, VertexOwner, Cells
  <2>. QED BY <1>2, <2>1 DEF EveryRankOwns
<1>4. Counts' = Counts
  BY <1>2 DEF Counts
<1>5. \A q \in Ranks, r \in Ranks : GhostsOf(q, r)' = GhostsOf(q, r)
  BY <1>2 DEF GhostsOf
<1>6. \A q \in Ranks, r \in Ranks : /\ Transfers(q, r)' = Transfers(q, r)
                                    /\ GhostCounts(q)' = GhostCounts(q)
  BY <1>5 DEF Transfers, GhostCounts
<1>7. \A q \in Ranks, r \in Ranks : \A f : Slot(q, r, f)' = Slot(q, r, f)
  <2> TAKE q \in Ranks, r \in Ranks
  <2> TAKE f
  <2>1. {g \in GhostsOf(q, r) : TrueIndex(r, g) <= TrueIndex(r, f)}'
          = {g \in GhostsOf(q, r) : TrueIndex(r, g) <= TrueIndex(r, f)}
    BY <1>2, <1>5
  <2>. QED BY <2>1 DEF Slot
<1>8. \A r \in Ranks : \A f : Position(f, Owned(r))' = Position(f, Owned(r))
  BY <1>2
<1>9. ExclusiveScan(Counts)' = ExclusiveScan(Counts)
  BY <1>4
<1>10. \A q \in Ranks, r \in Ranks : \A m :
         /\ NeighborsOK(q, r, m)' = NeighborsOK(q, r, m)
         /\ GhostIndices(q, r, m)' = GhostIndices(q, r, m)
         /\ GhostValues(q, r, m)' = GhostValues(q, r, m)
  <2> TAKE q \in Ranks, r \in Ranks
  <2> TAKE m
  <2>1. NeighborsOK(q, r, m)' = NeighborsOK(q, r, m)
    BY <1>5, <1>7, <1>8 DEF NeighborsOK
  <2>2. GhostIndices(q, r, m)' = GhostIndices(q, r, m)
    BY <1>2, <1>5, <1>7 DEF GhostIndices
  <2>3. GhostValues(q, r, m)' = GhostValues(q, r, m)
    BY <1>5, <1>7 DEF GhostValues
  <2>. QED BY <2>1, <2>2, <2>3
<1>11. \A q \in Ranks, r \in Ranks : \A n, m :
         LaterSays(q, r, n, m)' = LaterSays(q, r, n, m)
  BY <1>5, <1>6, <1>9, <1>10 DEF LaterSays
<1>12. \A q \in Ranks, r \in Ranks : \A s, from, to :
         Holds(q, r, s, from, to)' = Holds(q, r, s, from, to)
  BY <1>11 DEF Holds
<1>. QED BY <1>3, <1>5, <1>6, <1>7, <1>8, <1>9, <1>10, <1>11, <1>12

-----------------------------------------------------------------------------
(* Numbers of ghosts.                                                      *)

(* Members of a finite set with different keys have different places, which*)
(* are all the numbers up to its cardinality.                              *)
PlaceBy(key, F, f) == Cardinality({g \in F : key[g] <= key[f]})

(* In particular, no two members have the same place.                      *)
LEMMA Places ==
  ASSUME NEW F, IsFiniteSet(F), NEW key, \A f \in F : key[f] \in Int,
         \A f \in F, g \in F : key[f] = key[g] => f = g
  PROVE  /\ Cardinality(F) \in Nat
         /\ \A f \in F : PlaceBy(key, F, f) \in 1 .. Cardinality(F)
         /\ \A f \in F, g \in F : PlaceBy(key, F, f) = PlaceBy(key, F, g) => f = g
         /\ \A k \in 1 .. Cardinality(F) : \E f \in F : PlaceBy(key, F, f) = k
<1> DEFINE upto(f) == {g \in F : key[g] <= key[f]}
           place == [f \in F |-> PlaceBy(key, F, f)]
           N == Cardinality(F)
<1>1. N \in Nat
  BY FS_CardinalityType
<1>2. ASSUME NEW f \in F
      PROVE  /\ IsFiniteSet(upto(f)) /\ PlaceBy(key, F, f) = Cardinality(upto(f))
             /\ Cardinality(upto(f)) \in 1 .. N
  <2>1. upto(f) \in SUBSET F /\ f \in upto(f)
    OBVIOUS
  <2>2. IsFiniteSet(upto(f)) /\ Cardinality(upto(f)) <= N
    BY <2>1, FS_Subset
  <2>3. Cardinality(upto(f)) \in Nat /\ Cardinality(upto(f)) # 0
    BY <2>1, <2>2, FS_EmptySet, FS_CardinalityType
  <2>. QED BY <1>1, <2>2, <2>3 DEF PlaceBy
<1>3. ASSUME NEW f \in F, NEW g \in F, key[f] < key[g]
      PROVE  Cardinality(upto(f)) < Cardinality(upto(g))
  <2>1. upto(f) \in SUBSET upto(g) /\ g \in upto(g) /\ g \notin upto(f)
    BY <1>3
  <2>2. Cardinality(upto(f)) <= Cardinality(upto(g))
        /\ Cardinality(upto(f)) # Cardinality(upto(g))
    BY <1>2, <2>1, FS_Subset
  <2> HIDE DEF upto
  <2>3. Cardinality(upto(f)) \in Int /\ Cardinality(upto(g)) \in Int
    BY <1>1, <1>2
  <2>. QED BY <2>2, <2>3
<1> HIDE DEF upto
<1>4. ASSUME NEW f \in F, NEW g \in F, PlaceBy(key, F, f) = PlaceBy(key, F, g)
      PROVE  f = g
  <2>1. ~(key[f] < key[g]) /\ ~(key[g] < key[f])
    BY <1>2, <1>3, <1>4
  <2>. QED BY <2>1
<1>5. place \in [F -> 1 .. N] /\ \A f \in F : place[f] = PlaceBy(key, F, f)
  BY <1>2
<1>6. place \in Surjection(F, 1 .. N)
  <2>1. place \in Injection(F, 1 .. N)
    BY <1>4, <1>5 DEF Injection, IsInjective
  <2>2. IsFiniteSet(1 .. N) /\ Cardinality(1 .. N) = N
    BY <1>1, FS_Interval
  <2> HIDE DEF place
  <2>. QED BY <2>1, <2>2, FS_Injection
<1>7. \A k \in 1 .. N : \E f \in F : PlaceBy(key, F, f) = k
  BY <1>5, <1>6 DEF Surjection
<1>. QED BY <1>1, <1>2, <1>4, <1>7

(* The ghosts of a rank that another one owns can be counted and ordered.  *)
LEMMA SlotFacts ==
  ASSUME MeshOK, NEW q \in Ranks, NEW r \in Ranks
  PROVE  /\ IsFiniteSet(GhostsOf(q, r)) /\ Cardinality(GhostsOf(q, r)) \in Nat
         /\ \A f \in GhostsOf(q, r) : Slot(q, r, f) \in 1 .. Cardinality(GhostsOf(q, r))
         /\ \A f \in GhostsOf(q, r), g \in GhostsOf(q, r) :
              Slot(q, r, f) = Slot(q, r, g) => f = g
         /\ \A k \in 1 .. Cardinality(GhostsOf(q, r)) :
              \E f \in GhostsOf(q, r) : Slot(q, r, f) = k
         /\ GhostsOf(q, r) = {} <=> Cardinality(GhostsOf(q, r)) = 0
<1> DEFINE F == GhostsOf(q, r)
           key == [f \in F |-> TrueIndex(r, f)]
<1>1. IsFiniteSet(F) /\ F \subseteq Owned(r)
  <2>1. F \in SUBSET LocalFaces(q)
    BY DEF GhostsOf
  <2>2. IsFiniteSet(LocalFaces(q))
    BY OwnedFinite
  <2>. QED BY <2>1, <2>2, FS_Subset DEF GhostsOf
<1> HIDE DEF F
<1>2. \A f \in F : key[f] \in Int
  BY <1>1, IndexRange
<1>3. \A f \in F, g \in F : key[f] = key[g] => f = g
  BY <1>1, IndicesDiffer
<1>4. \A f \in F : PlaceBy(key, F, f) = Slot(q, r, f)
  <2> TAKE f \in F
  <2>1. {g \in F : key[g] <= key[f]} = {g \in F : TrueIndex(r, g) <= TrueIndex(r, f)}
    OBVIOUS
  <2>. QED BY <2>1 DEF PlaceBy, Slot, F
<1> HIDE DEF key
<1>5. F = {} <=> Cardinality(F) = 0
  BY <1>1, FS_EmptySet
<1>6. /\ Cardinality(F) \in Nat
      /\ \A f \in F : PlaceBy(key, F, f) \in 1 .. Cardinality(F)
      /\ \A f \in F, g \in F : PlaceBy(key, F, f) = PlaceBy(key, F, g) => f = g
      /\ \A k \in 1 .. Cardinality(F) : \E f \in F : PlaceBy(key, F, f) = k
  BY <1>1, <1>2, <1>3, Places
<1>7. /\ \A f \in F : Slot(q, r, f) \in 1 .. Cardinality(F)
      /\ \A f \in F, g \in F : Slot(q, r, f) = Slot(q, r, g) => f = g
      /\ \A k \in 1 .. Cardinality(F) : \E f \in F : Slot(q, r, f) = k
  BY <1>4, <1>6
<1>. QED BY <1>1, <1>5, <1>6, <1>7 DEF F

(* The numbers that ranks count.                                           *)
LEMMA CountsType ==
  ASSUME MeshOK, NEW q \in Ranks
  PROVE  Counts \in [Ranks -> Nat] /\ GhostCounts(q) \in [Ranks -> Nat]
<1>1. \A r \in Ranks : Cardinality(Owned(r)) \in Nat
                       /\ Cardinality(GhostsOf(q, r)) \in Nat
  BY OwnedFinite, SlotFacts
<1>. QED BY <1>1 DEF Counts, GhostCounts

(* A face of a rank follows those before it.                               *)
LEMMA OwnPlaces ==
  ASSUME MeshOK, NEW r \in Ranks, NEW f \in Owned(r)
  PROVE  /\ Cardinality({g \in Owned(r) : TrueIndex(r, g) <= TrueIndex(r, f)})
              = Position(f, Owned(r)) + 1
         /\ Position(f, Owned(r)) \in Nat
         /\ Position(f, Owned(r)) < Cardinality(Owned(r))
         /\ TrueIndex(r, f) - ExclusiveScan(Counts)[r] = Position(f, Owned(r))
         /\ ExclusiveScan(Counts)[r] \in Nat
<1> DEFINE F == Owned(r)
           before == {g \in F : Before(g, f)}
<1>1. F \in SUBSET SUBSET Nat /\ IsFiniteSet(F)
  BY OwnedFinite
<1>2. \A g \in F : Position(g, F) \in Nat /\ Position(g, F) < Cardinality(F)
  BY <1>1, PositionFacts
<1>3. \A g \in F : Before(g, f) => Position(g, F) < Position(f, F)
  BY <1>1, PositionFacts
<1>4. \A g \in F : Before(f, g) => Position(f, F) < Position(g, F)
  BY <1>1, PositionFacts
<1>5. \A g \in F : g = f \/ Before(g, f) \/ Before(f, g)
  BY <1>1, BeforeFacts
<1>6. ExclusiveScan(Counts)[r] \in Nat
  BY IndexRange
<1>7. \A g \in F : TrueIndex(r, g) <= TrueIndex(r, f) <=> g \in before \union {f}
  <2> TAKE g \in F
  <2>1. TrueIndex(r, g) <= TrueIndex(r, f) <=> Position(g, F) <= Position(f, F)
    BY <1>2, <1>6 DEF TrueIndex
  <2>. QED BY <1>2, <1>3, <1>4, <1>5, <2>1
<1>8. {g \in F : TrueIndex(r, g) <= TrueIndex(r, f)} = before \union {f}
  BY <1>7
<1>9. Cardinality(before \union {f}) = Cardinality(before) + 1
  <2>1. before \in SUBSET F /\ f \notin before
    BY <1>1, BeforeFacts
  <2>2. IsFiniteSet(before)
    BY <1>1, <2>1, FS_Subset
  <2>. QED BY <2>1, <2>2, FS_AddElement
<1>10. Cardinality(before) = Position(f, F)
  BY DEF Position
<1>11. TrueIndex(r, f) - ExclusiveScan(Counts)[r] = Position(f, F)
  BY <1>2, <1>6 DEF TrueIndex
<1>. QED BY <1>2, <1>6, <1>8, <1>9, <1>10, <1>11

(* The scan of the counts of ghosts counts the ghosts of lower ranks.      *)
GhostsBelow(q, n) ==
  {f \in LocalFaces(q) \ Owned(q) : \E p \in Ranks : p < n /\ f \in Owned(p)}

(* Each step of the scan adds the ghosts of one rank.                      *)
LEMMA ScanCountsGhosts ==
  ASSUME MeshOK, NEW q \in Ranks, NEW n \in 0 .. NumRanks
  PROVE  /\ IsFiniteSet(GhostsBelow(q, n))
         /\ Cardinality(GhostsBelow(q, n)) = ExclusiveScan(GhostCounts(q))[n]
<1> DEFINE s == ExclusiveScan(GhostCounts(q))
           Bad == {k \in 0 .. NumRanks : Cardinality(GhostsBelow(q, k)) # s[k]}
<1>1. NumRanks \in Nat /\ Ranks = 0 .. (NumRanks - 1)
  BY MeshAssumption DEF Ranks
<1>2. GhostCounts(q) \in [Ranks -> Nat]
  BY CountsType
<1>3. /\ s \in [0 .. NumRanks -> Nat] /\ s[0] = 0
      /\ \A k \in 1 .. NumRanks : s[k] = s[k - 1] + GhostCounts(q)[k - 1]
  BY <1>2, ScanFacts
<1> HIDE DEF s
<1>4. \A k : IsFiniteSet(GhostsBelow(q, k))
  <2> TAKE k
  <2>1. GhostsBelow(q, k) \in SUBSET LocalFaces(q)
    BY DEF GhostsBelow
  <2>2. IsFiniteSet(LocalFaces(q))
    BY OwnedFinite
  <2>. QED BY <2>1, <2>2, FS_Subset
<1>5. Bad = {}
  <2> SUFFICES ASSUME Bad # {} PROVE FALSE
    OBVIOUS
  <2>0. Bad \in SUBSET Nat
    BY <1>1
  <2>1. PICK k \in Bad : \A y \in Bad : k <= y
    <3> HIDE DEF Bad
    <3>. QED BY Least, <2>0
  <2>2. k # 0
    <3>1. GhostsBelow(q, 0) = {}
      BY <1>1 DEF GhostsBelow
    <3>. QED BY <1>3, <3>1, FS_EmptySet
  <2>3. /\ k \in 1 .. NumRanks /\ k - 1 \in 0 .. NumRanks /\ k - 1 \in Ranks
        /\ k \in Int
    BY <1>1, <2>2
  <2>4. Cardinality(GhostsBelow(q, k - 1)) = s[k - 1]
    BY <2>1, <2>3
  <2>5. GhostsBelow(q, k) = GhostsBelow(q, k - 1) \union GhostsOf(q, k - 1)
    <3>1. \A p \in Ranks : p < k <=> p < k - 1 \/ p = k - 1
      BY <1>1, <2>3
    <3>. QED BY <2>3, <3>1 DEF GhostsBelow, GhostsOf
  <2>6. GhostsBelow(q, k - 1) \intersect GhostsOf(q, k - 1) = {}
    <3> SUFFICES ASSUME NEW f \in GhostsBelow(q, k - 1), f \in GhostsOf(q, k - 1)
                 PROVE  FALSE
      OBVIOUS
    <3>1. PICK p \in Ranks : p < k - 1 /\ f \in Owned(p)
      BY DEF GhostsBelow
    <3>2. f \in Owned(k - 1)
      BY DEF GhostsOf
    <3>3. p = k - 1
      BY <2>3, <3>1, <3>2, OneOwner
    <3>. QED BY <1>1, <2>3, <3>1, <3>3
  <2>7. IsFiniteSet(GhostsOf(q, k - 1))
        /\ Cardinality(GhostsOf(q, k - 1)) = GhostCounts(q)[k - 1]
    BY <2>3, SlotFacts DEF GhostCounts
  <2>8. Cardinality(GhostsBelow(q, k)) = s[k - 1] + GhostCounts(q)[k - 1]
    <3>1. Cardinality(GhostsBelow(q, k - 1) \union GhostsOf(q, k - 1))
            = Cardinality(GhostsBelow(q, k - 1)) + Cardinality(GhostsOf(q, k - 1))
              - Cardinality(GhostsBelow(q, k - 1) \intersect GhostsOf(q, k - 1))
      BY <1>4, <2>7, FS_Union
    <3>2. Cardinality(GhostsBelow(q, k - 1) \intersect GhostsOf(q, k - 1)) = 0
      BY <2>6, FS_EmptySet
    <3>3. s[k - 1] \in Nat /\ GhostCounts(q)[k - 1] \in Nat
      BY <1>2, <1>3, <2>3
    <3>. QED BY <2>4, <2>5, <2>7, <3>1, <3>2, <3>3
  <2>. QED BY <1>3, <2>1, <2>3, <2>8
<1>. QED BY <1>4, <1>5 DEF s

(* Ghosts are ordered by their owners, and within an owner by their slots. *)
LEMMA GhostPlaces ==
  ASSUME MeshOK, NEW q \in Ranks, NEW key,
         \A r \in Ranks : \A f \in GhostsOf(q, r) : key[f] = TrueIndex(r, f),
         \A f \in LocalFaces(q) \ Owned(q) : \E r \in Ranks : f \in Owned(r),
         NEW r \in Ranks, NEW f \in GhostsOf(q, r)
  PROVE  PlaceBy(key, LocalFaces(q) \ Owned(q), f)
           = ExclusiveScan(GhostCounts(q))[r] + Slot(q, r, f)
<1> DEFINE G == LocalFaces(q) \ Owned(q)
           slots == {g \in GhostsOf(q, r) : TrueIndex(r, g) <= TrueIndex(r, f)}
<1>1. NumRanks \in Nat /\ Ranks = 0 .. (NumRanks - 1) /\ r \in 0 .. NumRanks
  BY MeshAssumption DEF Ranks
<1>2. f \in Owned(r) /\ f \in G /\ key[f] = TrueIndex(r, f)
  BY DEF GhostsOf
<1>3. ASSUME NEW g \in G
      PROVE  key[g] <= key[f] <=> g \in GhostsBelow(q, r) \union slots
  <2>1. PICK p \in Ranks : g \in Owned(p)
    OBVIOUS
  <2>2. g \in GhostsOf(q, p) /\ key[g] = TrueIndex(p, g)
    BY <2>1 DEF GhostsOf
  <2>3. \A x \in Ranks : g \in Owned(x) => x = p
    BY <2>1, OneOwner
  <2>4. /\ TrueIndex(p, g) \in Nat /\ TrueIndex(r, f) \in Nat
        /\ Counts \in [Ranks -> Nat]
        /\ ExclusiveScan(Counts)[p] \in Nat /\ ExclusiveScan(Counts)[r] \in Nat
        /\ ExclusiveScan(Counts)[p] <= TrueIndex(p, g)
        /\ TrueIndex(p, g) < ExclusiveScan(Counts)[p] + Counts[p]
        /\ ExclusiveScan(Counts)[r] <= TrueIndex(r, f)
        /\ TrueIndex(r, f) < ExclusiveScan(Counts)[r] + Counts[r]
    BY <1>2, <2>1, IndexRange
  <2>5. g \in GhostsBelow(q, r) <=> p < r
    BY <2>1, <2>3 DEF GhostsBelow
  <2>6. CASE p < r
    <3>1. ExclusiveScan(Counts)[p] + Counts[p] <= ExclusiveScan(Counts)[r]
      BY <2>4, <2>6, ScanIncreases
    <3>2. Counts[p] \in Nat
      BY <2>4
    <3>. QED BY <1>2, <2>2, <2>4, <2>5, <2>6, <3>1, <3>2
  <2>7. CASE r < p
    <3>1. ExclusiveScan(Counts)[r] + Counts[r] <= ExclusiveScan(Counts)[p]
      BY <2>4, <2>7, ScanIncreases
    <3>2. Counts[r] \in Nat
      BY <2>4
    <3>3. ~(key[g] <= key[f])
      BY <1>2, <2>2, <2>4, <3>1, <3>2
    <3>4. g \notin slots
      BY <2>2, <2>3, <2>7, <1>1 DEF GhostsOf
    <3>. QED BY <1>1, <2>5, <2>7, <3>3, <3>4
  <2>8. CASE p = r
    BY <1>1, <1>2, <2>2, <2>5, <2>8
  <2>. QED BY <1>1, <2>6, <2>7, <2>8
<1>4. GhostsBelow(q, r) \subseteq G /\ slots \subseteq G
  BY DEF GhostsBelow, GhostsOf
<1>5. {g \in G : key[g] <= key[f]} = GhostsBelow(q, r) \union slots
  BY <1>3, <1>4
<1>6. GhostsBelow(q, r) \intersect slots = {}
  <2> SUFFICES ASSUME NEW g \in GhostsBelow(q, r), g \in slots PROVE FALSE
    OBVIOUS
  <2>1. PICK p \in Ranks : p < r /\ g \in Owned(p)
    BY DEF GhostsBelow
  <2>2. g \in Owned(r)
    BY DEF GhostsOf
  <2>3. p = r
    BY <2>1, <2>2, OneOwner
  <2>. QED BY <1>1, <2>1, <2>3
<1>7. IsFiniteSet(slots) /\ Cardinality(slots) = Slot(q, r, f) /\ Slot(q, r, f) \in Nat
  <2>1. slots \in SUBSET GhostsOf(q, r) /\ IsFiniteSet(GhostsOf(q, r))
    BY SlotFacts
  <2>. QED BY <2>1, SlotFacts, FS_Subset DEF Slot
<1>8. IsFiniteSet(GhostsBelow(q, r))
      /\ Cardinality(GhostsBelow(q, r)) = ExclusiveScan(GhostCounts(q))[r]
  BY <1>1, ScanCountsGhosts
<1>9. ExclusiveScan(GhostCounts(q))[r] \in Nat
  BY <1>8, FS_CardinalityType
<1>10. Cardinality(GhostsBelow(q, r) \union slots)
         = ExclusiveScan(GhostCounts(q))[r] + Slot(q, r, f)
  <2>1. Cardinality(GhostsBelow(q, r) \intersect slots) = 0
    BY <1>6, FS_EmptySet
  <2> HIDE DEF slots
  <2>2. Cardinality(GhostsBelow(q, r) \union slots)
          = Cardinality(GhostsBelow(q, r)) + Cardinality(slots)
            - Cardinality(GhostsBelow(q, r) \intersect slots)
    BY <1>7, <1>8, FS_Union
  <2>. QED BY <1>7, <1>8, <1>9, <2>1, <2>2
<1>. QED BY <1>5, <1>10 DEF PlaceBy

(* The owner of a face follows from its index and the scan of the counts.  *)
LEMMA OwnerFound ==
  ASSUME MeshOK, NEW r \in Ranks, NEW f \in Owned(r), NEW offsets,
         offsets = [q \in Ranks |-> ExclusiveScan(Counts)[q]]
  PROVE  OwnerOf(offsets, TrueIndex(r, f)) = r
<1> DEFINE s == ExclusiveScan(Counts)
           x == TrueIndex(r, f)
           fits == {i \in 0 .. (NumRanks - 2) :
                      offsets[i] <= x /\ x < offsets[i + 1]}
<1>1. NumRanks \in Nat /\ Ranks = 0 .. (NumRanks - 1)
  BY MeshAssumption DEF Ranks
<1>2. /\ Counts \in [Ranks -> Nat] /\ s \in [0 .. NumRanks -> Nat]
      /\ \A n \in 1 .. NumRanks : s[n] = s[n - 1] + Counts[n - 1]
  BY CountsType, ScanFacts
<1>3. x \in Nat /\ s[r] <= x /\ x < s[r] + Counts[r]
  BY IndexRange
<1>4. \A p \in Ranks, q \in Ranks : p < q => s[p] + Counts[p] <= s[q]
  BY <1>2, ScanIncreases
<1> HIDE DEF s, x
<1>5. \A i \in 0 .. (NumRanks - 2) :
        /\ i \in Ranks /\ i + 1 \in Ranks /\ s[i] \in Nat /\ s[i + 1] \in Nat
        /\ offsets[i] = s[i] /\ offsets[i + 1] = s[i + 1]
        /\ s[i + 1] = s[i] + Counts[i] /\ Counts[i] \in Nat
  <2> TAKE i \in 0 .. (NumRanks - 2)
  <2>1. i \in Ranks /\ i + 1 \in Ranks /\ i + 1 \in 1 .. NumRanks
        /\ (i + 1) - 1 = i
    BY <1>1
  <2>2. i \in 0 .. NumRanks /\ i + 1 \in 0 .. NumRanks
    BY <1>1
  <2>3. offsets[i] = s[i] /\ offsets[i + 1] = s[i + 1]
    BY <2>1 DEF s
  <2>. QED BY <1>2, <2>1, <2>2, <2>3
<1>6. ASSUME NEW i \in 0 .. (NumRanks - 2) PROVE i \in fits <=> i = r
  <2>0. r \in 0 .. NumRanks
    BY <1>1
  <2>5. i \in fits <=> offsets[i] <= x /\ x < offsets[i + 1]
    OBVIOUS
  <2>1. /\ i \in Ranks /\ s[i] \in Nat /\ s[r] \in Nat
        /\ Counts[i] \in Nat /\ Counts[r] \in Nat
        /\ i \in fits <=> s[i] <= x /\ x < s[i] + Counts[i]
    BY <1>2, <1>5, <2>0, <2>5
  <2>2. CASE i < r
    BY <1>3, <1>4, <2>1, <2>2
  <2>3. CASE r < i
    BY <1>3, <1>4, <2>1, <2>3
  <2>4. CASE i = r
    BY <1>3, <2>1, <2>4
  <2>. QED BY <1>1, <2>1, <2>2, <2>3, <2>4
<1>7. OwnerOf(offsets, x) = IF fits = {} THEN NumRanks - 1 ELSE Min(fits)
  BY DEF OwnerOf
<1>8. fits \subseteq 0 .. (NumRanks - 2)
  OBVIOUS
<1> HIDE DEF fits
<1>9. CASE r \in 0 .. (NumRanks - 2)
  <2>1. fits = {r}
    BY <1>6, <1>8, <1>9
  <2>2. fits \in SUBSET Nat /\ fits # {}
    BY <1>1, <2>1
  <2>3. Min(fits) = r
    BY <2>1, <2>2, MinIsLeast
  <2>. QED BY <1>7, <2>2, <2>3 DEF x
<1>10. CASE r \notin 0 .. (NumRanks - 2)
  <2>1. fits = {} /\ r = NumRanks - 1
    BY <1>1, <1>6, <1>8, <1>10
  <2>. QED BY <1>7, <2>1 DEF x
<1>. QED BY <1>9, <1>10

-----------------------------------------------------------------------------
(* Messages of the synchronizer.                                           *)

(* The first message is taken.                                             *)
LEMMA HoldsTail ==
  ASSUME NEW q, NEW r, NEW s, NEW from \in Nat, NEW to \in Nat,
         Holds(q, r, s, from, to), s # <<>>
  PROVE  /\ LaterSays(q, r, from + 1, Head(s)[2])
         /\ Holds(q, r, Tail(s), from + 1, to)
<1>1. /\ IsSequence(Tail(s)) /\ Len(s) \in Nat /\ Len(Tail(s)) = Len(s) - 1
      /\ DOMAIN s = 1 .. Len(s) /\ DOMAIN Tail(s) = 1 .. (Len(s) - 1)
      /\ \A j \in 1 .. (Len(s) - 1) : Tail(s)[j] = s[j + 1]
      /\ 1 \in DOMAIN s /\ Head(s) = s[1] /\ Len(s) = to - from
  BY TailFacts DEF Holds
<1>2. LaterSays(q, r, from + 1, Head(s)[2])
  BY <1>1 DEF Holds
<1>3. Len(Tail(s)) = to - (from + 1)
  BY <1>1
<1>4. ASSUME NEW j \in DOMAIN Tail(s)
      PROVE  LaterSays(q, r, (from + 1) + j, Tail(s)[j][2])
  <2>1. /\ j + 1 \in DOMAIN s /\ Tail(s)[j] = s[j + 1]
        /\ (from + 1) + j = from + (j + 1)
    BY <1>1
  <2>2. LaterSays(q, r, from + (j + 1), s[j + 1][2])
    BY <2>1 DEF Holds
  <2>. QED BY <2>1, <2>2
<1>. QED BY <1>1, <1>2, <1>3, <1>4 DEF Holds

(* A message is appended.                                                  *)
LEMMA HoldsAppend ==
  ASSUME NEW q, NEW r, NEW s, NEW from \in Nat, NEW to \in Nat, NEW e,
         Holds(q, r, s, from, to), LaterSays(q, r, to + 1, e[2])
  PROVE  Holds(q, r, Append(s, e), from, to + 1)
<1>1. /\ IsSequence(Append(s, e)) /\ Len(s) \in Nat
      /\ Len(Append(s, e)) = Len(s) + 1
      /\ DOMAIN s = 1 .. Len(s) /\ DOMAIN Append(s, e) = 1 .. (Len(s) + 1)
      /\ \A j \in 1 .. Len(s) : Append(s, e)[j] = s[j]
      /\ Append(s, e)[Len(s) + 1] = e /\ Len(s) = to - from
  BY AppendFacts DEF Holds
<1>2. Len(Append(s, e)) = (to + 1) - from
  BY <1>1
<1>3. ASSUME NEW j \in DOMAIN Append(s, e)
      PROVE  LaterSays(q, r, from + j, Append(s, e)[j][2])
  <2>1. CASE j \in 1 .. Len(s)
    BY <1>1, <2>1 DEF Holds
  <2>2. CASE j = Len(s) + 1
    <3>1. from + j = to + 1
      BY <1>1, <2>2
    <3>. QED BY <1>1, <2>2, <3>1
  <2>. QED BY <1>1, <2>1, <2>2
<1>. QED BY <1>1, <1>2, <1>3 DEF Holds

(* Taking the first message commutes with appending one.                   *)
LEMMA TailAppend ==
  ASSUME NEW s, IsSequence(s), s # <<>>, NEW e
  PROVE  Tail(Append(s, e)) = Append(Tail(s), e)
<1>1. PICK S : s \in Seq(S)
  BY DEF IsSequence
<1>2. s \in Seq(S \union {e}) /\ e \in S \union {e}
  BY <1>1
<1>. QED BY <1>2

(* An empty channel.                                                       *)
LEMMA HoldsNothing ==
  ASSUME NEW q, NEW r, NEW s, IsSequence(s), Len(s) = 0, NEW n \in Nat
  PROVE  Holds(q, r, s, n, n)
<1>1. DOMAIN s = {}
  BY LengthFacts
<1>. QED BY <1>1 DEF Holds

(* Counts of messages are numbers.                                         *)
LEMMA LaterCounts ==
  ASSUME NEW q, NEW r, NEW label
  PROVE  /\ LaterSent(label, Transfers(q, r), Transfers(r, q)) \in Nat
         /\ LaterReceived(label, Transfers(q, r), Transfers(r, q)) \in Nat
BY DEF LaterSent, LaterReceived, Transfers

(* A channel after a step, from the labels of its ends after that step.    *)
LEMMA LaterChannelNext ==
  ASSUME UNCHANGED meshVars, NEW q \in Ranks, NEW r \in Ranks,
         NEW s, s = mail'[q][r],
         NEW sent, sent = LaterSent(pc'[q], Transfers(q, r), Transfers(r, q)),
         NEW received,
         received = LaterReceived(pc'[r], Transfers(q, r), Transfers(r, q)),
         IF Gone(r)' THEN Holds(q, r, s, received, sent)
         ELSE IsSequence(s) /\ s # <<>> /\ Holds(q, r, Tail(s), 0, sent)
  PROVE  LaterChannelOK(q, r)'
<1>1. /\ Transfers(q, r)' = Transfers(q, r) /\ Transfers(r, q)' = Transfers(r, q)
      /\ \A t, from, to : Holds(q, r, t, from, to)' = Holds(q, r, t, from, to)
  BY GhostsKept
<1>2. /\ LaterSent(pc[q], Transfers(q, r), Transfers(r, q))' = sent
      /\ LaterReceived(pc[r], Transfers(q, r), Transfers(r, q))' = received
  BY <1>1 DEF LaterSent, LaterReceived
<1>3. CASE Gone(r)'
  <2>1. Holds(q, r, s, received, sent)'
    BY <1>1, <1>3
  <2>2. Holds(q, r, mail[q][r],
              LaterReceived(pc[r], Transfers(q, r), Transfers(r, q)),
              LaterSent(pc[q], Transfers(q, r), Transfers(r, q)))'
    BY <1>2, <2>1 DEF Holds, LaterSays
  <2>. QED BY <1>3, <2>2 DEF LaterChannelOK
<1>4. CASE ~Gone(r)'
  <2>1. PICK t : t = Tail(s)
    OBVIOUS
  <2>2. Holds(q, r, t, 0, sent)'
    BY <1>1, <1>4, <2>1
  <2>3. Holds(q, r, Tail(mail[q][r]), 0,
              LaterSent(pc[q], Transfers(q, r), Transfers(r, q)))'
    BY <1>2, <2>1, <2>2 DEF Holds, LaterSays
  <2>4. IsSequence(mail'[q][r]) /\ mail'[q][r] # <<>>
    BY <1>4
  <2>. QED BY <1>4, <2>3, <2>4 DEF LaterChannelOK
<1>. QED BY <1>3, <1>4

(* Neither end of a channel sends or receives, nor leaves the distribution.*)
LEMMA LaterChannelKept ==
  ASSUME UNCHANGED meshVars, NEW q \in Ranks, NEW r \in Ranks,
         LaterChannelOK(q, r), mail'[q][r] = mail[q][r], Gone(r)' = Gone(r),
         LaterSent(pc'[q], Transfers(q, r), Transfers(r, q))
           = LaterSent(pc[q], Transfers(q, r), Transfers(r, q)),
         LaterReceived(pc'[r], Transfers(q, r), Transfers(r, q))
           = LaterReceived(pc[r], Transfers(q, r), Transfers(r, q))
  PROVE  LaterChannelOK(q, r)'
<1>1. PICK s : s = mail'[q][r]
  OBVIOUS
<1>2. PICK sent : sent = LaterSent(pc'[q], Transfers(q, r), Transfers(r, q))
  OBVIOUS
<1>3. PICK received :
        received = LaterReceived(pc'[r], Transfers(q, r), Transfers(r, q))
  OBVIOUS
<1>4. IF Gone(r)' THEN Holds(q, r, s, received, sent)
      ELSE IsSequence(s) /\ s # <<>> /\ Holds(q, r, Tail(s), 0, sent)
  BY <1>1, <1>2, <1>3 DEF LaterChannelOK
<1>. QED BY <1>1, <1>2, <1>3, <1>4, LaterChannelNext

(* The effect of a step on the mail: messages from ranks in S are taken and*)
(* messages to ranks in T posted.                                          *)
MailStep(r, S, T, l, m) ==
  \A q, x \in Ranks :
    LET s == IF x = r /\ q \in S THEN Tail(mail[q][x]) ELSE mail[q][x]
    IN  mail'[q][x] = IF q = r /\ x \in T THEN Append(s, <<l, m[x]>>) ELSE s

(* What the operators for messages do is such a step.                      *)
LEMMA MailSteps ==
  ASSUME IsMail(mail), NEW r \in Ranks, NEW S, NEW T, NEW l, NEW m
  PROVE  /\ mail' = Taken(r, S) => MailStep(r, S, {}, l, m)
         /\ mail' = Posted(mail, r, T, l, m) => MailStep(r, {}, T, l, m)
         /\ mail' = Posted(Taken(r, S), r, T, l, m) => MailStep(r, S, T, l, m)
<1> DEFINE box == Taken(r, S)
<1>1. /\ IsMail(box)
      /\ \A q \in Ranks, x \in Ranks :
           box[q][x] = IF x = r /\ q \in S THEN Tail(mail[q][x]) ELSE mail[q][x]
  BY TakenBox
<1>2. mail' = box => MailStep(r, S, {}, l, m)
  BY <1>1 DEF MailStep
<1>3. mail' = Posted(mail, r, T, l, m) => MailStep(r, {}, T, l, m)
  BY PostedBox DEF MailStep
<1> HIDE DEF box
<1>4. ASSUME mail' = Posted(box, r, T, l, m) PROVE MailStep(r, S, T, l, m)
  <2>1. \A q \in Ranks, x \in Ranks :
          mail'[q][x] = IF q = r /\ x \in T THEN Append(box[q][x], <<l, m[x]>>)
                                            ELSE box[q][x]
    BY <1>1, <1>4, PostedBox
  <2>2. ASSUME NEW q \in Ranks, NEW x \in Ranks, NEW s,
               s = IF x = r /\ q \in S THEN Tail(mail[q][x]) ELSE mail[q][x]
        PROVE  mail'[q][x] = IF q = r /\ x \in T THEN Append(s, <<l, m[x]>>) ELSE s
    BY <1>1, <2>1, <2>2
  <2>. QED BY <2>2 DEF MailStep
<1>. QED BY <1>2, <1>3, <1>4 DEF box

(* A rank of the synchronizer takes and posts messages as its label says.  *)
LEMMA LaterStep ==
  ASSUME SyncInv, UNCHANGED meshVars, NEW r \in Ranks, pc[r] \in Synchronizing,
         NEW label \in Synchronizing, pc' = [pc EXCEPT ![r] = label],
         NEW S, NEW T, NEW l, NEW m, MailStep(r, S, T, l, m),
         \A q \in Ranks : q \in S => mail[q][r] # <<>>,
         \A q \in Ranks :
           LaterReceived(label, Transfers(q, r), Transfers(r, q))
             = LaterReceived(pc[r], Transfers(q, r), Transfers(r, q))
               + (IF q \in S THEN 1 ELSE 0),
         \A x \in Ranks :
           LaterSent(label, Transfers(r, x), Transfers(x, r))
             = LaterSent(pc[r], Transfers(r, x), Transfers(x, r))
               + (IF x \in T THEN 1 ELSE 0),
         \A x \in Ranks : x \in T =>
           LaterSays(r, x, LaterSent(label, Transfers(r, x), Transfers(x, r)), m[x])
  PROVE  LaterMailOK'
<1>1. /\ pc'[r] = label /\ \A x \in Ranks : x # r => pc'[x] = pc[x]
      /\ \A x \in Ranks : Gone(x)' = Gone(x)
      /\ Gone(r) /\ Gone(r)'
  <2>1. DOMAIN pc = Ranks
    BY DEF SyncInv, IndInv, TypesOK
  <2>. QED BY <2>1 DEF Gone
<1>2. ASSUME NEW q \in Ranks, NEW x \in Ranks, Gone(q) \/ Gone(x)
      PROVE  LaterChannelOK(q, x)'
  <2>1. LaterChannelOK(q, x)
    BY <1>2 DEF SyncInv, LaterMailOK
  <2>2. PICK sent \in Nat : sent = LaterSent(pc[q], Transfers(q, x), Transfers(x, q))
    BY LaterCounts
  <2>3. PICK received \in Nat :
          received = LaterReceived(pc[x], Transfers(q, x), Transfers(x, q))
    BY LaterCounts
  <2>4. PICK s : s = IF x = r /\ q \in S THEN Tail(mail[q][x]) ELSE mail[q][x]
    OBVIOUS
  <2>5. PICK new : new = IF q = r /\ x \in T THEN Append(s, <<l, m[x]>>) ELSE s
    OBVIOUS
  <2>6. new = mail'[q][x]
    BY <2>4, <2>5 DEF MailStep
  <2>7. PICK taken \in {0, 1} : taken = IF x = r /\ q \in S THEN 1 ELSE 0
    OBVIOUS
  <2>8. PICK posted \in {0, 1} : posted = IF q = r /\ x \in T THEN 1 ELSE 0
    OBVIOUS
  <2>9. LaterSent(pc'[q], Transfers(q, x), Transfers(x, q)) = sent + posted
    BY <1>1, <2>2, <2>8
  <2>10. LaterReceived(pc'[x], Transfers(q, x), Transfers(x, q)) = received + taken
    BY <1>1, <2>3, <2>7
  <2>11. q = r /\ x \in T => LaterSays(q, x, sent + 1, m[x])
    BY <1>1, <2>2, <2>8, <2>9
  <2>12. CASE Gone(x)
    <3>1. Holds(q, x, mail[q][x], received, sent)
      BY <2>1, <2>2, <2>3, <2>12 DEF LaterChannelOK
    <3>2. Holds(q, x, s, received + taken, sent)
      <4>1. CASE x = r /\ q \in S
        <5>1. mail[q][x] # <<>> /\ s = Tail(mail[q][x]) /\ taken = 1
          BY <2>4, <2>7, <4>1
        <5>. QED BY <3>1, <5>1, HoldsTail
      <4>2. CASE ~(x = r /\ q \in S)
        <5>1. s = mail[q][x] /\ received + taken = received
          BY <2>4, <2>7, <4>2
        <5>. QED BY <3>1, <5>1
      <4>. QED BY <4>1, <4>2
    <3>3. Holds(q, x, new, received + taken, sent + posted)
      <4>1. CASE q = r /\ x \in T
        <5>1. new = Append(s, <<l, m[x]>>) /\ posted = 1
          BY <2>5, <2>8, <4>1
        <5>2. received + taken \in Nat /\ <<l, m[x]>>[2] = m[x]
          BY <2>7
        <5>. QED BY <2>11, <3>2, <4>1, <5>1, <5>2, HoldsAppend
      <4>2. CASE ~(q = r /\ x \in T)
        <5>1. new = s /\ sent + posted = sent
          BY <2>5, <2>8, <4>2
        <5>. QED BY <3>2, <5>1
      <4>. QED BY <4>1, <4>2
    <3>4. Gone(x)'
      BY <1>1, <2>12
    <3>. QED BY <2>6, <2>9, <2>10, <3>3, <3>4, LaterChannelNext
  <2>13. CASE ~Gone(x)
    <3>1. /\ IsSequence(mail[q][x]) /\ mail[q][x] # <<>>
          /\ Holds(q, x, Tail(mail[q][x]), 0, sent)
      BY <2>1, <2>2, <2>13 DEF LaterChannelOK
    <3>2. x # r /\ s = mail[q][x] /\ ~Gone(x)'
      BY <1>1, <2>4, <2>13
    <3>3. /\ IsSequence(new) /\ new # <<>>
          /\ Holds(q, x, Tail(new), 0, sent + posted)
      <4>1. CASE q = r /\ x \in T
        <5>1. new = Append(mail[q][x], <<l, m[x]>>) /\ posted = 1
          BY <2>5, <2>8, <3>2, <4>1
        <5>2. Tail(new) = Append(Tail(mail[q][x]), <<l, m[x]>>)
          BY <3>1, <5>1, TailAppend
        <5>3. IsSequence(new) /\ new # <<>>
          BY <3>1, <5>1, AppendFacts
        <5>4. <<l, m[x]>>[2] = m[x] /\ 0 \in Nat
          OBVIOUS
        <5>5. Holds(q, x, Append(Tail(mail[q][x]), <<l, m[x]>>), 0, sent + 1)
          BY <2>11, <3>1, <4>1, <5>4, HoldsAppend
        <5>. QED BY <5>1, <5>2, <5>3, <5>5
      <4>2. CASE ~(q = r /\ x \in T)
        <5>1. new = mail[q][x] /\ sent + posted = sent
          BY <2>5, <2>8, <3>2, <4>2
        <5>. QED BY <3>1, <5>1
      <4>. QED BY <4>1, <4>2
    <3>. QED BY <2>6, <2>9, <2>10, <3>2, <3>3, LaterChannelNext
  <2>. QED BY <2>12, <2>13
<1>. QED BY <1>1, <1>2 DEF LaterMailOK

(* The first message to a rank of the synchronizer says what it should.    *)
LEMMA LaterMessage ==
  ASSUME SyncInv, NEW q \in Ranks, NEW r \in Ranks, pc[r] \in Synchronizing,
         mail[q][r] # <<>>
  PROVE  LaterSays(q, r,
                   LaterReceived(pc[r], Transfers(q, r), Transfers(r, q)) + 1,
                   Message(q, r))
<1>1. PICK sent \in Nat : sent = LaterSent(pc[q], Transfers(q, r), Transfers(r, q))
  BY LaterCounts
<1>2. PICK received \in Nat :
        received = LaterReceived(pc[r], Transfers(q, r), Transfers(r, q))
  BY LaterCounts
<1>3. Gone(r)
  BY DEF Gone
<1>4. Holds(q, r, mail[q][r], received, sent)
  BY <1>1, <1>2, <1>3 DEF SyncInv, LaterMailOK, LaterChannelOK
<1>5. LaterSays(q, r, received + 1, Head(mail[q][r])[2])
  BY <1>4, HoldsTail
<1>. QED BY <1>2, <1>5 DEF Message

-----------------------------------------------------------------------------
(* The distribution, in the invariant of the synchronizer.                 *)

(* Before the last verdict is taken all ranks distribute faces.            *)
LEMMA NoneGone ==
  ASSUME SyncInv, NEW r \in Ranks, pc[r] \in Distributing,
         pc[r] = "done?" => ~Ends(iter[r]), NEW x \in Ranks
  PROVE  ~Gone(x)
<1>1. ~Gone(r)
  BY LabelFacts DEF Gone
<1> SUFFICES ASSUME Gone(x) PROVE FALSE
  OBVIOUS
<1>2. pc[r] = "done?" /\ iter[r] = iter[x] /\ Ends(iter[x])
  BY <1>1 DEF SyncInv, GoneOK
<1>. QED BY <1>2

(* They keep the invariant then.                                           *)
LEMMA DistributionKeeps ==
  ASSUME SyncInv, IndInv', UNCHANGED meshVars, UNCHANGED attributes,
         NEW r \in Ranks, pc[r] \in Distributing,
         pc[r] = "done?" => ~Ends(iter[r]),
         NEW label \in Distributing, pc' = [pc EXCEPT ![r] = label]
  PROVE  SyncInv'
<1>1. ASSUME NEW x \in Ranks PROVE ~Gone(x)
  BY NoneGone
<1>2. ASSUME NEW x \in Ranks PROVE ~Gone(x)'
  <2>1. pc'[x] = label \/ pc'[x] = pc[x]
    BY DEF SyncInv, IndInv, TypesOK
  <2>. QED BY <1>1, <2>1, LabelFacts DEF Gone
<1>3. EveryRankOwns'
  BY GhostsKept DEF SyncInv
<1>4. GoneOK' /\ LaterMailOK'
  BY <1>2 DEF GoneOK, LaterMailOK
<1>5. ASSUME NEW x \in Ranks PROVE AttributesOK(x)'
  <2>1. pc'[x] \notin Synchronizing
    BY <1>2 DEF Gone
  <2>. QED BY <2>1 DEF AttributesOK, Synchronizing
<1>6. /\ DOMAIN ghostEntitiesCounts' = Ranks /\ DOMAIN ghostNeighbors' = Ranks
      /\ DOMAIN values' = Ranks
  BY DEF SyncInv, attributes
<1>. QED BY <1>3, <1>4, <1>5, <1>6 DEF SyncInv

(* What a rank keeps of its attributes while it waits.                     *)
LEMMA AttributesKept ==
  ASSUME UNCHANGED meshVars, NEW x \in Ranks, AttributesOK(x),
         index' = index, pc'[x] = pc[x],
         ghostEntitiesCounts'[x] = ghostEntitiesCounts[x],
         ghostNeighbors'[x] = ghostNeighbors[x], values'[x] = values[x]
  PROVE  AttributesOK(x)'
<1>1. Complete(x)' = Complete(x)
  BY DEF Complete
<1>2. \A q \in Ranks : /\ GhostCounts(q)' = GhostCounts(q)
                       /\ GhostsOf(q, x)' = GhostsOf(q, x)
                       /\ \A m : NeighborsOK(q, x, m)' = NeighborsOK(q, x, m)
  BY GhostsKept
<1>3. LocalFaces(x)' = LocalFaces(x) /\ Owned(x)' = Owned(x)
  BY MeshKept
<1>4. pc'[x] \in Synchronizing => Complete(x)'
  BY <1>1 DEF AttributesOK
<1>5. pc'[x] \in {"ghosts", "initialized", "values", "done"} =>
        ghostEntitiesCounts'[x] = [q \in Ranks |-> GhostCounts(q)']
  <2>1. [q \in Ranks |-> GhostCounts(q)'] = [q \in Ranks |-> GhostCounts(q)]
    BY <1>2
  <2>. QED BY <2>1 DEF AttributesOK
<1>6. ASSUME pc'[x] \in {"initialized", "values", "done"},
             NEW q \in Ranks, GhostsOf(q, x)' # {}
      PROVE  NeighborsOK(q, x, ghostNeighbors[x][q])'
  <2>1. PICK m : m = ghostNeighbors[x][q]
    OBVIOUS
  <2>2. NeighborsOK(q, x, m)
    BY <1>2, <1>6, <2>1 DEF AttributesOK
  <2>3. NeighborsOK(q, x, m)'
    BY <1>2, <2>2
  <2>. QED BY <2>1, <2>3 DEF NeighborsOK
<1>7. pc'[x] \in {"initialized", "values"} =>
        /\ DOMAIN values'[x] = LocalFaces(x)'
        /\ \A f \in Owned(x)' : values'[x][f] = f
  BY <1>3 DEF AttributesOK
<1>8. pc'[x] = "done" =>
        /\ DOMAIN values'[x] = LocalFaces(x)'
        /\ \A f \in LocalFaces(x)' : values'[x][f] = f
  BY <1>3 DEF AttributesOK
<1>. QED BY <1>4, <1>5, <1>6, <1>7, <1>8 DEF AttributesOK

(* A rank takes the last verdicts and turns to the synchronizer.           *)
LEMMA LastPassKeeps ==
  ASSUME SyncInv, IndInv', NEW r \in Ranks, Repeat(r), LastPass(r),
         UNCHANGED attributes
  PROVE  SyncInv'
<1>1. /\ pc[r] = "done?" /\ Arrived(r, Ranks) /\ UNCHANGED meshVars
      /\ index' = index /\ iter' = iter /\ mail' = Taken(r, Ranks)
      /\ owner' = owner
  BY DEF Repeat
<1>2. PICK label \in {"failed", "distributed"} :
        /\ pc' = [pc EXCEPT ![r] = label]
        /\ label = "distributed" => ~ \E f \in Faces(r) : index[r][f] = Padding
  BY DEF Repeat, Goto
<1>3. /\ IndInv /\ TypesOK /\ LocalOK /\ MailOK /\ GoneOK /\ LaterMailOK
      /\ IsMail(mail) /\ pc[r] \in Distributing /\ iter[r] \in Nat
      /\ DOMAIN pc = Ranks /\ iter[r] \in Nat
  BY <1>1, MeshAssumption DEF SyncInv, IndInv, TypesOK, IsMail, Distributing
<1>4. Ends(iter[r])
  BY <1>1, <1>3, LastPassEnds
<1>5. ~Gone(r) /\ Gone(r)'
  BY <1>1, <1>2, <1>3, LabelFacts DEF Gone, Synchronizing
<1>6. \A x \in Ranks : x # r => pc'[x] = pc[x] /\ Gone(x)' = Gone(x)
  BY <1>2, <1>3 DEF Gone
<1>7. ASSUME NEW x \in Ranks, ~Gone(x)
      PROVE  /\ pc[x] = "done?" /\ iter[x] = iter[r] /\ pc[x] \in Distributing
             /\ IsSequence(mail[r][x]) /\ Len(mail[r][x]) = 1 /\ mail[r][x] # <<>>
  <2>1. pc[x] \in Distributing
    BY <1>3, <1>7 DEF Gone, TypesOK
  <2>. QED BY <1>1, <1>3, <1>4, <2>1, AllAtEnd
<1>8. GoneOK'
  <2>1. ASSUME NEW q \in Ranks, Gone(q)' PROVE Ends(iter[q])'
    <3>1. Ends(iter[q])
      BY <1>3, <1>4, <1>6, <2>1 DEF GoneOK
    <3>. QED BY <1>1, <3>1 DEF Ends, Complete
  <2>2. ASSUME NEW q \in Ranks, NEW x \in Ranks, Gone(q)', ~Gone(x)'
        PROVE  pc'[x] = "done?" /\ iter'[x] = iter'[q]
    <3>1. x # r /\ ~Gone(x) /\ pc'[x] = pc[x]
      BY <1>5, <1>6, <2>2
    <3>2. pc[x] = "done?" /\ iter[x] = iter[r]
      BY <1>7, <3>1
    <3>3. q = r \/ iter[r] = iter[q]
      BY <1>3, <1>5, <1>6, <2>2 DEF GoneOK
    <3>. QED BY <1>1, <3>1, <3>2, <3>3
  <2>. QED BY <2>1, <2>2 DEF GoneOK
<1>9. \A q \in Ranks, x \in Ranks :
        mail'[q][x] = IF x = r THEN Tail(mail[q][x]) ELSE mail[q][x]
  BY <1>1, <1>3, TakenBox
<1>10. \A i, d : /\ LaterSent("done?", i, d) = 0 /\ LaterSent(label, i, d) = 0
                 /\ LaterReceived("done?", i, d) = 0
                 /\ LaterReceived(label, i, d) = 0
  BY <1>2 DEF LaterSent, LaterReceived
<1>11. pc'[r] = label
  BY <1>2, <1>3
<1>12. ASSUME NEW s, IsSequence(s), Len(s) = 1
       PROVE  IsSequence(Tail(s)) /\ Len(Tail(s)) = 0
  <2>1. Len(s) > 0
    BY <1>12
  <2>2. s # <<>>
    BY <1>12, <2>1, LengthFacts, Zenon
  <2>. QED BY <1>12, <2>2, TailFacts
<1>13. ASSUME NEW q \in Ranks, NEW x \in Ranks, Gone(q)' \/ Gone(x)'
       PROVE  LaterChannelOK(q, x)'
  <2>1. CASE x = r /\ Gone(q)
    <3>1. q # r /\ pc'[q] = pc[q] /\ Gone(x)'
      BY <1>5, <1>6, <2>1
    <3>2. PICK sent : sent = LaterSent(pc[q], Transfers(q, x), Transfers(x, q))
      OBVIOUS
    <3>3. Holds(q, x, Tail(mail[q][x]), 0, sent)
      BY <1>3, <1>5, <2>1, <3>2 DEF LaterMailOK, LaterChannelOK
    <3>4. mail'[q][x] = Tail(mail[q][x])
      BY <1>9, <2>1
    <3>5. 0 = LaterReceived(pc'[x], Transfers(q, x), Transfers(x, q))
      BY <1>10, <1>11, <2>1
    <3>. QED BY <1>1, <3>1, <3>2, <3>3, <3>4, <3>5, LaterChannelNext
  <2>2. CASE x = r /\ ~Gone(q)
    <3>1. pc[q] = "done?" /\ iter[q] = iter[r] /\ pc[q] \in Distributing
      BY <1>7, <2>2
    <3>2. ChannelOK(q, r)
      BY <1>3 DEF MailOK
    <3>3. IsSequence(mail[q][r]) /\ Len(mail[q][r]) = SentCount(q) - ReceivedCount(r)
      BY <3>1, <3>2 DEF ChannelOK
    <3>4. SentCount(q) = 4 + 2 * iter[r] /\ ReceivedCount(r) = 3 + 2 * iter[r]
      BY <1>1, <1>3, <3>1, CountFacts
    <3>5. Len(mail[q][r]) = 1
      BY <1>3, <3>3, <3>4
    <3>6. PICK s : s = Tail(mail[q][r])
      OBVIOUS
    <3>7. IsSequence(s) /\ Len(s) = 0
      BY <1>12, <3>3, <3>5, <3>6
    <3>8. 0 \in Nat
      OBVIOUS
    <3>9. Holds(q, x, s, 0, 0)
      BY <3>7, <3>8, HoldsNothing
    <3>10. s = mail'[q][x]
      BY <1>9, <2>2, <3>6
    <3>11. 0 = LaterSent(pc'[q], Transfers(q, x), Transfers(x, q))
      <4>1. pc'[q] = label \/ pc'[q] = "done?"
        BY <1>6, <1>11, <3>1
      <4>. QED BY <1>10, <4>1
    <3>12. 0 = LaterReceived(pc'[x], Transfers(q, x), Transfers(x, q))
      BY <1>10, <1>11, <2>2
    <3>13. Gone(x)'
      BY <1>5, <2>2
    <3>. QED BY <1>1, <3>9, <3>10, <3>11, <3>12, <3>13, LaterChannelNext
  <2>3. CASE x # r /\ q = r /\ ~Gone(x)
    <3>1. IsSequence(mail[r][x]) /\ Len(mail[r][x]) = 1 /\ mail[r][x] # <<>>
      BY <1>7, <2>3
    <3>2. PICK s : s = mail[r][x]
      OBVIOUS
    <3>3. IsSequence(Tail(s)) /\ Len(Tail(s)) = 0 /\ 0 \in Nat
      BY <1>12, <3>1, <3>2
    <3>4. Holds(q, x, Tail(s), 0, 0)
      BY <3>3, HoldsNothing
    <3>5. s = mail'[q][x] /\ ~Gone(x)'
      BY <1>6, <1>9, <2>3, <3>2
    <3>6. 0 = LaterSent(pc'[q], Transfers(q, x), Transfers(x, q))
      BY <1>10, <1>11, <2>3
    <3>. QED BY <1>1, <3>1, <3>2, <3>4, <3>5, <3>6, LaterChannelNext
  <2>4. CASE x # r /\ ~(q = r /\ ~Gone(x))
    <3>1. Gone(q) \/ Gone(x)
      BY <1>6, <1>13, <2>4
    <3>2. LaterChannelOK(q, x)
      BY <1>3, <3>1 DEF LaterMailOK
    <3>3. mail'[q][x] = mail[q][x] /\ Gone(x)' = Gone(x) /\ pc'[x] = pc[x]
      BY <1>6, <1>9, <2>4
    <3>4. LaterSent(pc'[q], Transfers(q, x), Transfers(x, q))
            = LaterSent(pc[q], Transfers(q, x), Transfers(x, q))
      BY <1>1, <1>6, <1>10, <1>11
    <3>. QED BY <1>1, <3>2, <3>3, <3>4, LaterChannelKept
  <2>. QED BY <2>1, <2>2, <2>3, <2>4
<1>14. ASSUME NEW x \in Ranks PROVE AttributesOK(x)'
  <2>1. CASE x = r
    <3>1. pc'[x] = "distributed" => Complete(x)'
      <4>1. OwnersOK(r) /\ IndicesOK(r)
        BY <1>3 DEF LocalOK
      <4>2. Faces(r) = LocalFaces(r) /\ DOMAIN index[r] = LocalFaces(r)
        BY <1>1, <4>1, OwnersKnown DEF IndicesOK, ValidIndices
      <4>. QED BY <1>1, <1>2, <1>11, <2>1, <4>2 DEF Complete
    <3>2. pc'[x] \in {"failed", "distributed"}
      BY <1>2, <1>11, <2>1
    <3>. QED BY <3>1, <3>2 DEF AttributesOK, Synchronizing
  <2>2. CASE x # r
    <3>1. /\ ghostEntitiesCounts'[x] = ghostEntitiesCounts[x]
          /\ ghostNeighbors'[x] = ghostNeighbors[x] /\ values'[x] = values[x]
      BY DEF attributes
    <3>2. AttributesOK(x)
      BY DEF SyncInv
    <3>. QED BY <1>1, <1>6, <2>2, <3>1, <3>2, AttributesKept
  <2>. QED BY <2>1, <2>2
<1>15. EveryRankOwns'
  BY <1>1, GhostsKept DEF SyncInv
<1>16. LaterMailOK'
  BY <1>13 DEF LaterMailOK
<1>17. /\ DOMAIN ghostEntitiesCounts' = Ranks /\ DOMAIN ghostNeighbors' = Ranks
       /\ DOMAIN values' = Ranks
  BY DEF SyncInv, attributes
<1>. QED BY <1>8, <1>14, <1>15, <1>16, <1>17 DEF SyncInv

(* The steps of distributeSubentities.                                     *)
LEMMA DistributeStepKeeps ==
  ASSUME SyncInv, IndInv', NEW r \in Ranks, DistributeStep(r), UNCHANGED attributes
  PROVE  SyncInv'
<1>1. IndInv /\ TypesOK /\ LocalOK /\ EveryRankOwns /\ MeshOK
  BY DEF SyncInv, IndInv, TypesOK
<1>2. /\ "start" \in Distributing /\ "counts" \in Distributing
      /\ "seeds" \in Distributing /\ "answers" \in Distributing
      /\ "done?" \in Distributing
  BY DEF Distributing
<1>3. CASE CountEntities(r)
  <2>1. /\ pc[r] = "start" /\ UNCHANGED meshVars
        /\ pc' = [pc EXCEPT ![r] = "counts"]
    BY <1>3 DEF CountEntities, Goto
  <2>. QED BY <1>2, <2>1, DistributionKeeps
<1>4. CASE AssignIndices(r)
  <2>1. /\ pc[r] = "counts" /\ UNCHANGED meshVars
        /\ pc' = [pc EXCEPT ![r] = "seeds"]
    BY <1>4 DEF AssignIndices, Goto
  <2>. QED BY <1>2, <2>1, DistributionKeeps
<1>5. ASSUME NEW seeds, SendAnswers(r, seeds), pc[r] \in {"seeds", "done?"},
             seeds = [q \in Ranks |-> Asked(q, r)]
      PROVE  pc' = [pc EXCEPT ![r] = "answers"]
  <2>1. ~LookupFails(r, seeds)
    <3>1. OwnersOK(r) /\ pc[r] # "start"
      BY <1>1, <1>5 DEF LocalOK
    <3>. QED BY <1>1, <1>5, <3>1, LookupsSucceed
  <2>. QED BY <1>5, <2>1 DEF SendAnswers, Goto
<1>6. CASE ReceiveSeeds(r)
  <2>1. pc[r] = "seeds" /\ UNCHANGED meshVars /\ Arrived(r, Ranks)
    BY <1>6 DEF ReceiveSeeds
  <2>2. PICK seeds : seeds = [q \in Ranks |-> Message(q, r)]
    OBVIOUS
  <2>3. SendAnswers(r, seeds)
    BY <1>6, <2>2 DEF ReceiveSeeds
  <2>4. seeds = [q \in Ranks |-> Asked(q, r)]
    BY <1>1, <2>1, <2>2, SeedsReceived
  <2>5. pc' = [pc EXCEPT ![r] = "answers"]
    BY <1>5, <2>1, <2>3, <2>4
  <2>. QED BY <1>2, <2>1, <2>5, DistributionKeeps
<1>7. CASE SetGhostIndices(r)
  <2>1. /\ pc[r] = "answers" /\ UNCHANGED meshVars
        /\ pc' = [pc EXCEPT ![r] = "done?"]
    BY <1>7 DEF SetGhostIndices, Goto
  <2>. QED BY <1>2, <2>1, DistributionKeeps
<1>8. CASE Repeat(r)
  <2>1. pc[r] = "done?" /\ UNCHANGED meshVars /\ Arrived(r, Ranks)
    BY <1>8 DEF Repeat
  <2>2. CASE LastPass(r)
    BY <1>8, <2>2, LastPassKeeps
  <2>3. CASE ~LastPass(r)
    <3>1. PICK seeds : seeds = foreign[r]
      OBVIOUS
    <3>2. SendAnswers(r, seeds)
      BY <1>8, <2>3, <3>1 DEF Repeat
    <3>3. seeds = [q \in Ranks |-> Asked(q, r)]
      BY <1>1, <2>1, <3>1 DEF LocalOK, SeedsOK
    <3>4. pc' = [pc EXCEPT ![r] = "answers"]
      BY <1>5, <2>1, <3>2, <3>3
    <3>5. ~Ends(iter[r])
      BY <1>1, <2>1, <2>3, LastPassEnds
    <3>. QED BY <1>2, <2>1, <3>4, <3>5, DistributionKeeps
  <2>. QED BY <2>2, <2>3
<1>. QED BY <1>3, <1>4, <1>6, <1>7, <1>8 DEF DistributeStep

-----------------------------------------------------------------------------
(* The array of a rank.                                                    *)

(* A rank that has left distributeSubentities knows the index of every     *)
(* face, and every face has an owner.                                      *)
LEMMA CompleteRank ==
  ASSUME SyncInv, NEW r \in Ranks, pc[r] \in Synchronizing
  PROVE  /\ Faces(r) = LocalFaces(r) /\ OwnFaces(r) = Owned(r)
         /\ GhostFaces(r) = LocalFaces(r) \ Owned(r)
         /\ \A f \in LocalFaces(r) : \E q \in Ranks : f \in Owned(q)
         /\ \A q \in Ranks : \A f \in LocalFaces(r) :
              f \in Owned(q) => index[r][f] = TrueIndex(q, f)
         /\ \A q \in Ranks : \A f \in GhostsOf(r, q) :
              f \in GhostFaces(r) /\ index[r][f] = TrueIndex(q, f)
         /\ \A f, F : Place(r, f, F) = PlaceBy(index[r], F, f)
<1>1. OwnersOK(r) /\ IndicesOK(r) /\ Complete(r) /\ MeshOK
  BY DEF SyncInv, IndInv, LocalOK, TypesOK, AttributesOK
<1>2. pc[r] # "start" /\ pc[r] # "counts"
  BY DEF Synchronizing
<1>3. /\ Faces(r) = LocalFaces(r) /\ OwnFaces(r) = Owned(r)
      /\ GhostFaces(r) = LocalFaces(r) \ Owned(r)
  BY <1>1, <1>2, OwnersKnown
<1>4. ASSUME NEW f \in LocalFaces(r)
      PROVE  \E q \in Ranks : f \in Owned(q) /\ index[r][f] = TrueIndex(q, f)
  <2>1. ValidIndex(f, index[r][f]) /\ index[r][f] # Padding
    BY <1>1, <1>2 DEF IndicesOK, ValidIndices, Complete
  <2>. QED BY <2>1 DEF ValidIndex
<1>5. ASSUME NEW q \in Ranks, NEW f \in LocalFaces(r), f \in Owned(q)
      PROVE  index[r][f] = TrueIndex(q, f)
  <2>1. PICK p \in Ranks : f \in Owned(p) /\ index[r][f] = TrueIndex(p, f)
    BY <1>4
  <2>. QED BY <1>1, <1>5, <2>1, IndicesDiffer
<1>6. ASSUME NEW q \in Ranks, NEW f \in GhostsOf(r, q)
      PROVE  f \in GhostFaces(r) /\ index[r][f] = TrueIndex(q, f)
  BY <1>3, <1>5 DEF GhostsOf
<1>. QED BY <1>3, <1>4, <1>5, <1>6 DEF Place, PlaceBy

(* Faces are sorted by their indices.                                      *)
LEMMA SortedFacts ==
  ASSUME SyncInv, NEW r \in Ranks, pc[r] \in Synchronizing,
         NEW F \in SUBSET LocalFaces(r)
  PROVE  /\ IsFiniteSet(F) /\ Cardinality(F) \in Nat
         /\ Sorted(r, F) \in Seq(F) /\ Len(Sorted(r, F)) = Cardinality(F)
         /\ \A f \in F : /\ Place(r, f, F) \in 1 .. Cardinality(F)
                         /\ Sorted(r, F)[Place(r, f, F)] = f
         /\ \A k \in 1 .. Cardinality(F) : \E f \in F : Place(r, f, F) = k
<1>1. MeshOK
  BY DEF SyncInv, IndInv, TypesOK
<1>2. IsFiniteSet(F)
  BY <1>1, OwnedFinite, FS_Subset
<1>3. PICK key : key = index[r]
  OBVIOUS
<1>4. ASSUME NEW f \in F
      PROVE  \E q \in Ranks : f \in Owned(q) /\ key[f] = TrueIndex(q, f)
  BY <1>3, CompleteRank
<1>5. \A f \in F : key[f] \in Int
  <2> TAKE f \in F
  <2>1. PICK q \in Ranks : f \in Owned(q) /\ key[f] = TrueIndex(q, f)
    BY <1>4
  <2>. QED BY <1>1, <2>1, IndexRange
<1>6. \A f \in F, g \in F : key[f] = key[g] => f = g
  <2> TAKE f \in F, g \in F
  <2>1. PICK q \in Ranks : f \in Owned(q) /\ key[f] = TrueIndex(q, f)
    BY <1>4
  <2>2. PICK p \in Ranks : g \in Owned(p) /\ key[g] = TrueIndex(p, g)
    BY <1>4
  <2>3. TrueIndex(q, f) = TrueIndex(p, g) <=> f = g
    BY <1>1, <2>1, <2>2, IndicesDiffer
  <2>. QED BY <2>1, <2>2, <2>3
<1>7. \A f : Place(r, f, F) = PlaceBy(key, F, f)
  BY <1>3 DEF Place, PlaceBy
<1>8. /\ Cardinality(F) \in Nat
      /\ \A f \in F : Place(r, f, F) \in 1 .. Cardinality(F)
      /\ \A f \in F, g \in F : Place(r, f, F) = Place(r, g, F) => f = g
      /\ \A k \in 1 .. Cardinality(F) : \E f \in F : Place(r, f, F) = k
  BY <1>2, <1>5, <1>6, <1>7, Places
<1>9. PICK n \in Nat : n = Cardinality(F)
  BY <1>8
<1>10. Sorted(r, F) = [k \in 1 .. n |-> CHOOSE f \in F : Place(r, f, F) = k]
  BY <1>9 DEF Sorted
<1>11. \A k \in 1 .. n : (CHOOSE f \in F : Place(r, f, F) = k) \in F
  BY <1>8, <1>9
<1>12. Sorted(r, F) \in [1 .. n -> F]
  BY <1>10, <1>11
<1>13. Sorted(r, F) \in Seq(F) /\ Len(Sorted(r, F)) = n
  BY <1>12
<1>14. ASSUME NEW f \in F PROVE Sorted(r, F)[Place(r, f, F)] = f
  <2>1. PICK k \in 1 .. n : k = Place(r, f, F)
    BY <1>8, <1>9
  <2>2. (CHOOSE g \in F : Place(r, g, F) = k) = f
    BY <1>8, <2>1
  <2>. QED BY <1>10, <2>1, <2>2
<1>. QED BY <1>2, <1>8, <1>9, <1>13, <1>14

(* The own faces come first in the array, and local indices count from the *)
(* first of them.                                                          *)
LEMMA OwnArray ==
  ASSUME SyncInv, NEW r \in Ranks, pc[r] \in Synchronizing
  PROVE  /\ ownStart(r) = ExclusiveScan(Counts)[r]
         /\ \A f \in Owned(r) :
              /\ Position(f, Owned(r)) \in Nat
              /\ Position(f, Owned(r)) + 1 \in DOMAIN Array(r)
              /\ Array(r)[Position(f, Owned(r)) + 1] = f
<1>1. MeshOK /\ Owned(r) # {}
  BY DEF SyncInv, IndInv, TypesOK, EveryRankOwns
<1>2. Owned(r) \subseteq LocalFaces(r)
  BY DEF Owned
<1>3. /\ Sorted(r, Owned(r)) \in Seq(Owned(r))
      /\ Len(Sorted(r, Owned(r))) = Cardinality(Owned(r))
      /\ Cardinality(Owned(r)) \in Nat
      /\ \A f \in Owned(r) : Sorted(r, Owned(r))[Place(r, f, Owned(r))] = f
      /\ \A f \in Owned(r) : Place(r, f, Owned(r)) \in 1 .. Cardinality(Owned(r))
  BY <1>2, SortedFacts
<1>4. /\ Sorted(r, GhostFaces(r)) \in Seq(GhostFaces(r))
      /\ Array(r) = Sorted(r, Owned(r)) \o Sorted(r, GhostFaces(r))
  <2>1. GhostFaces(r) \in SUBSET LocalFaces(r) /\ OwnFaces(r) = Owned(r)
    BY CompleteRank
  <2>. QED BY <2>1, SortedFacts DEF Array
<1>5. ASSUME NEW k \in 1 .. Cardinality(Owned(r))
      PROVE  k \in DOMAIN Array(r) /\ Array(r)[k] = Sorted(r, Owned(r))[k]
  <2>1. PICK s : s = Sorted(r, Owned(r))
    OBVIOUS
  <2>2. PICK t : t = Sorted(r, GhostFaces(r))
    OBVIOUS
  <2>3. PICK n \in Nat : n = Cardinality(Owned(r))
    BY <1>3
  <2>4. s \in Seq(Owned(r)) /\ t \in Seq(GhostFaces(r)) /\ Len(s) = n /\ k \in 1 .. n
    BY <1>3, <1>4, <2>1, <2>2, <2>3
  <2>5. s \in Seq(Owned(r) \union GhostFaces(r)) /\ t \in Seq(Owned(r) \union GhostFaces(r))
    BY <2>4
  <2>6. k \in DOMAIN (s \o t) /\ (s \o t)[k] = s[k]
    BY <2>4, <2>5
  <2>. QED BY <1>4, <2>1, <2>2, <2>6
<1>6. ASSUME NEW f \in Owned(r)
      PROVE  /\ Place(r, f, Owned(r)) = Position(f, Owned(r)) + 1
             /\ Position(f, Owned(r)) \in Nat
             /\ index[r][f] - ExclusiveScan(Counts)[r] = Position(f, Owned(r))
  <2>1. \A g \in Owned(r) : index[r][g] = TrueIndex(r, g)
    BY <1>2, CompleteRank
  <2>2. {g \in Owned(r) : index[r][g] <= index[r][f]}
          = {g \in Owned(r) : TrueIndex(r, g) <= TrueIndex(r, f)}
    BY <2>1
  <2>. QED BY <1>1, <2>1, <2>2, OwnPlaces DEF Place
<1>7. ASSUME NEW f \in Owned(r)
      PROVE  /\ Position(f, Owned(r)) \in Nat
             /\ Position(f, Owned(r)) + 1 \in DOMAIN Array(r)
             /\ Array(r)[Position(f, Owned(r)) + 1] = f
  BY <1>3, <1>5, <1>6
<1>8. ownStart(r) = ExclusiveScan(Counts)[r]
  <2>1. Cardinality(Owned(r)) >= 1
    <3>1. PICK f : f \in Owned(r)
      BY <1>1
    <3>. QED BY <1>3, <3>1
  <2>2. 1 \in 1 .. Cardinality(Owned(r))
    BY <1>3, <2>1
  <2>3. PICK f \in Owned(r) : f = Array(r)[1] /\ f = Sorted(r, Owned(r))[1]
    BY <1>3, <1>5, <2>2
  <2>4. Place(r, f, Owned(r)) = 1
    <3>1. PICK g \in Owned(r) : Place(r, g, Owned(r)) = 1
      BY <1>2, <2>2, SortedFacts
    <3>. QED BY <1>3, <2>3, <3>1
  <2>5. Position(f, Owned(r)) = 0
    BY <1>6, <2>4
  <2>6. index[r][f] \in Nat /\ ExclusiveScan(Counts)[r] \in Nat
    BY <1>1, <1>2, CompleteRank, IndexRange
  <2>7. index[r][f] = ExclusiveScan(Counts)[r]
    BY <1>6, <2>5, <2>6
  <2>. QED BY <2>3, <2>7 DEF ownStart
<1>. QED BY <1>7, <1>8

-----------------------------------------------------------------------------
(* The ghosts of a rank.                                                   *)

(* Where the ghosts that rank i owns are in the array of rank r.           *)
LEMMA GhostArray ==
  ASSUME SyncInv, NEW r \in Ranks, pc[r] \in Synchronizing, NEW i \in Ranks,
         NEW counts, counts = GhostCounts(r)
  PROVE  /\ GhostOffset(counts, i) \in Nat
         /\ Cardinality(GhostsOf(r, i)) \in Nat
         /\ GhostOffset(counts, i + 1)
              = GhostOffset(counts, i) + Cardinality(GhostsOf(r, i))
         /\ GhostOffset(counts, i + 1) <= Cardinality(GhostFaces(r))
         /\ \A f \in GhostsOf(r, i) :
              /\ f \in GhostFaces(r)
              /\ Place(r, f, GhostFaces(r)) = GhostOffset(counts, i) + Slot(r, i, f)
<1>1. MeshOK /\ NumRanks \in Nat /\ Ranks = 0 .. (NumRanks - 1)
  BY MeshAssumption DEF SyncInv, IndInv, TypesOK, Ranks
<1>2. counts \in [Ranks -> Nat] /\ counts[i] = Cardinality(GhostsOf(r, i))
  BY <1>1, CountsType DEF GhostCounts
<1>3. i \in 0 .. NumRanks /\ i + 1 \in 1 .. NumRanks /\ i + 1 \in 0 .. NumRanks
      /\ (i + 1) - 1 = i
  BY <1>1
<1>4. /\ ExclusiveScan(counts)[i] \in Nat
      /\ ExclusiveScan(counts)[i + 1] = ExclusiveScan(counts)[i] + counts[i]
  <2>1. /\ ExclusiveScan(counts) \in [0 .. NumRanks -> Nat]
        /\ \A n \in 1 .. NumRanks :
             ExclusiveScan(counts)[n] = ExclusiveScan(counts)[n - 1] + counts[n - 1]
    BY <1>2, ScanFacts
  <2>2. ExclusiveScan(counts)[i + 1]
          = ExclusiveScan(counts)[(i + 1) - 1] + counts[(i + 1) - 1]
    BY <1>3, <2>1
  <2>. QED BY <1>3, <2>1, <2>2
<1>5. ExclusiveScan(counts)[i + 1] <= Cardinality(GhostFaces(r))
  <2>1. Cardinality(GhostsBelow(r, i + 1)) = ExclusiveScan(counts)[i + 1]
    BY <1>1, <1>3, ScanCountsGhosts
  <2>2. GhostsBelow(r, i + 1) \subseteq GhostFaces(r)
    BY CompleteRank DEF GhostsBelow
  <2>3. IsFiniteSet(GhostFaces(r))
    <3>1. GhostFaces(r) \subseteq LocalFaces(r)
      BY CompleteRank
    <3>. QED BY <1>1, <3>1, OwnedFinite, FS_Subset
  <2>. QED BY <2>1, <2>2, <2>3, FS_Subset
<1>6. ASSUME NEW f \in GhostsOf(r, i)
      PROVE  /\ f \in GhostFaces(r)
             /\ Place(r, f, GhostFaces(r))
                  = ExclusiveScan(counts)[i] + Slot(r, i, f)
  <2>1. PICK key : key = index[r]
    OBVIOUS
  <2>2. \A q \in Ranks : \A g \in GhostsOf(r, q) : key[g] = TrueIndex(q, g)
    BY <2>1, CompleteRank
  <2>3. \A g \in LocalFaces(r) \ Owned(r) : \E q \in Ranks : g \in Owned(q)
    BY CompleteRank
  <2>4. PlaceBy(key, LocalFaces(r) \ Owned(r), f)
          = ExclusiveScan(GhostCounts(r))[i] + Slot(r, i, f)
    BY <1>1, <2>2, <2>3, GhostPlaces
  <2>. QED BY <2>1, <2>4, CompleteRank
<1>. QED BY <1>2, <1>4, <1>5, <1>6 DEF GhostOffset

(* A part of a sequence.                                                   *)
LEMMA SliceFacts ==
  ASSUME NEW S, NEW s \in Seq(S), NEW lo \in Nat, NEW n \in Nat,
         lo + n <= Len(s)
  PROVE  /\ DOMAIN SubSeq(s, lo + 1, lo + n) = 1 .. n
         /\ \A k \in 1 .. n : SubSeq(s, lo + 1, lo + n)[k] = s[lo + k]
<1>1. \A k \in (lo + 1) .. (lo + n) : k \in 1 .. Len(s)
  OBVIOUS
<1>2. SubSeq(s, lo + 1, lo + n) = [k \in 1 .. n |-> s[lo + k]]
  <2>1. \A k \in 1 .. n : k + (lo + 1) - 1 = lo + k
    OBVIOUS
  <2>. QED BY <1>1, <2>1
<1>. QED BY <1>2

(* The indices of the ghosts that rank i owns are a slice of all.          *)
LEMMA GhostSlice ==
  ASSUME SyncInv, NEW r \in Ranks, pc[r] \in Synchronizing, NEW i \in Ranks,
         NEW counts, counts = GhostCounts(r),
         NEW slice,
         slice = SubSeq(Sorted(r, GhostFaces(r)), GhostOffset(counts, i) + 1,
                        GhostOffset(counts, i + 1)),
         NEW m, m = [k \in DOMAIN slice |-> index[r][slice[k]]]
  PROVE  GhostIndices(r, i, m)
<1>1. PICK s : s = Sorted(r, GhostFaces(r))
  OBVIOUS
<1>2. PICK n \in Nat : n = Cardinality(GhostsOf(r, i))
  BY GhostArray
<1>3. PICK lo \in Nat : lo = GhostOffset(counts, i)
  BY GhostArray
<1>4. GhostOffset(counts, i + 1) = lo + n /\ lo + n <= Cardinality(GhostFaces(r))
  BY <1>2, <1>3, GhostArray
<1>5. GhostFaces(r) \in SUBSET LocalFaces(r)
  BY CompleteRank
<1>6. /\ s \in Seq(GhostFaces(r)) /\ Len(s) = Cardinality(GhostFaces(r))
      /\ \A f \in GhostFaces(r) : s[Place(r, f, GhostFaces(r))] = f
  BY <1>1, <1>5, SortedFacts
<1>7. DOMAIN slice = 1 .. n /\ \A k \in 1 .. n : slice[k] = s[lo + k]
  <2>1. slice = SubSeq(s, lo + 1, lo + n)
    BY <1>1, <1>3, <1>4
  <2>2. s \in Seq(GhostFaces(r)) /\ lo + n <= Len(s)
    BY <1>4, <1>6
  <2>3. /\ DOMAIN SubSeq(s, lo + 1, lo + n) = 1 .. n
        /\ \A k \in 1 .. n : SubSeq(s, lo + 1, lo + n)[k] = s[lo + k]
    BY <2>2, SliceFacts, Zenon
  <2>. QED BY <2>1, <2>3, Zenon
<1>8. MeshOK
  BY DEF SyncInv, IndInv, TypesOK
<1>9. ASSUME NEW f \in GhostsOf(r, i) PROVE m[Slot(r, i, f)] = TrueIndex(i, f)
  <2>1. Slot(r, i, f) \in 1 .. n
    BY <1>2, <1>8, SlotFacts
  <2>2. f \in GhostFaces(r) /\ Place(r, f, GhostFaces(r)) = lo + Slot(r, i, f)
    BY <1>3, GhostArray
  <2>3. slice[Slot(r, i, f)] = f
    BY <1>6, <1>7, <2>1, <2>2
  <2>4. index[r][f] = TrueIndex(i, f)
    BY CompleteRank
  <2>. QED BY <1>7, <2>1, <2>3, <2>4
<1>. QED BY <1>2, <1>7, <1>9 DEF GhostIndices

(* Who sends to whom follows from the counts of ghosts.                    *)
LEMMA TransferFacts ==
  ASSUME SyncInv, NEW q \in Ranks, NEW r \in Ranks
  PROVE  /\ GhostCounts(q)[r] > 0 <=> GhostsOf(q, r) # {}
         /\ Transfers(q, r) \in {0, 1}
         /\ Transfers(q, r) = 1 <=> GhostsOf(q, r) # {}
<1>1. MeshOK
  BY DEF SyncInv, IndInv, TypesOK
<1>2. GhostCounts(q)[r] = Cardinality(GhostsOf(q, r))
  BY DEF GhostCounts
<1>3. GhostCounts(q)[r] > 0 <=> GhostsOf(q, r) # {}
  BY <1>1, <1>2, SlotFacts
<1>. QED BY <1>3 DEF Transfers

(* The same for a rank that has all counts.                                 *)
LEMMA PartnerFacts ==
  ASSUME SyncInv, NEW r \in Ranks,
         pc[r] \in {"ghosts", "initialized", "values", "done"}
  PROVE  /\ ghostEntitiesCounts[r][r] = GhostCounts(r)
         /\ \A x \in Ranks : x \in Requesters(r) <=> GhostsOf(x, r) # {}
         /\ \A x \in Ranks : x \in Providers(r) <=> GhostsOf(r, x) # {}
         /\ Requesters(r) \subseteq Ranks /\ Providers(r) \subseteq Ranks
<1>1. ghostEntitiesCounts[r] = [q \in Ranks |-> GhostCounts(q)]
  BY DEF SyncInv, AttributesOK
<1>2. \A x \in Ranks : ghostEntitiesCounts[r][x][r] > 0 <=> GhostsOf(x, r) # {}
  BY <1>1, TransferFacts
<1>3. \A x \in Ranks : ghostEntitiesCounts[r][r][x] > 0 <=> GhostsOf(r, x) # {}
  BY <1>1, TransferFacts
<1>. QED BY <1>1, <1>2, <1>3 DEF Requesters, Providers

-----------------------------------------------------------------------------
(* The steps of the synchronizer keep its invariant.                       *)

(* What is common to them.                                                 *)
LEMMA SynchronizerKeeps ==
  ASSUME SyncInv, IndInv', NEW r \in Ranks, pc[r] \in Synchronizing,
         NEW label \in Synchronizing, pc' = [pc EXCEPT ![r] = label],
         UNCHANGED <<meshVars, iter, owner, index, foreign>>,
         DOMAIN ghostEntitiesCounts' = Ranks, DOMAIN ghostNeighbors' = Ranks,
         DOMAIN values' = Ranks,
         \A x \in Ranks : x # r =>
           /\ ghostEntitiesCounts'[x] = ghostEntitiesCounts[x]
           /\ ghostNeighbors'[x] = ghostNeighbors[x] /\ values'[x] = values[x],
         LaterMailOK', AttributesOK(r)'
  PROVE  SyncInv'
<1>1. UNCHANGED meshVars /\ iter' = iter /\ index' = index
  OBVIOUS
<1>2. /\ \A x \in Ranks : x # r => pc'[x] = pc[x]
      /\ \A x \in Ranks : Gone(x)' = Gone(x) /\ Gone(r)
  <2>1. DOMAIN pc = Ranks
    BY DEF SyncInv, IndInv, TypesOK
  <2>. QED BY <2>1 DEF Gone
<1>3. GoneOK'
  <2>1. \A q \in Ranks : Ends(iter[q])' = Ends(iter[q])
    BY <1>1 DEF Ends, Complete
  <2>. QED BY <1>1, <1>2, <2>1 DEF SyncInv, GoneOK
<1>4. EveryRankOwns'
  BY <1>1, GhostsKept DEF SyncInv
<1>5. ASSUME NEW x \in Ranks, x # r PROVE AttributesOK(x)'
  <2>1. AttributesOK(x)
    BY DEF SyncInv
  <2>. QED BY <1>1, <1>2, <1>5, <2>1, AttributesKept
<1>. QED BY <1>3, <1>4, <1>5 DEF SyncInv

(* The state in which a rank synchronizes.                                 *)
LEMMA SynchronizingState ==
  ASSUME SyncInv
  PROVE  /\ IsMail(mail) /\ DOMAIN pc = Ranks /\ MeshOK
         /\ DOMAIN globalOffsets = Ranks /\ DOMAIN ghostEntitiesCounts = Ranks
         /\ DOMAIN ghostNeighbors = Ranks /\ DOMAIN values = Ranks
         /\ \A r \in Ranks : AttributesOK(r)
         /\ "distributed" \in Synchronizing /\ "offsets" \in Synchronizing
         /\ "ghostCounts" \in Synchronizing /\ "ghosts" \in Synchronizing
         /\ "initialized" \in Synchronizing /\ "values" \in Synchronizing
         /\ "done" \in Synchronizing
BY DEF SyncInv, IndInv, TypesOK, IsMail, Synchronizing

(* The terms of a rank in the next state.                                  *)
LEMMA RankKept ==
  ASSUME UNCHANGED meshVars, UNCHANGED <<owner, index>>, NEW r \in Ranks
  PROVE  /\ Complete(r)' = Complete(r) /\ LocalFaces(r)' = LocalFaces(r)
         /\ Owned(r)' = Owned(r)
         /\ \A q \in Ranks :
              GhostCounts(q)' = GhostCounts(q) /\ GhostsOf(q, r)' = GhostsOf(q, r)
BY MeshKept, GhostsKept DEF Complete

(* A rank sends the index of its first face.                               *)
LEMMA ExchangeOffsetsKeeps ==
  ASSUME SyncInv, IndInv', NEW r \in Ranks, ExchangeOffsets(r)
  PROVE  SyncInv'
<1>1. PICK start : start = [q \in Ranks |-> ownStart(r)]
  OBVIOUS
<1>2. /\ pc[r] = "distributed" /\ pc' = [pc EXCEPT ![r] = "offsets"]
      /\ mail' = Posted(mail, r, Ranks, "offsets", start)
      /\ UNCHANGED <<meshVars, iter, owner, index, foreign, attributes>>
  BY <1>1 DEF ExchangeOffsets, Goto
<1>3. MailStep(r, {}, Ranks, "offsets", start)
  BY <1>2, SynchronizingState, MailSteps
<1>4. \A i, d : /\ LaterSent("distributed", i, d) = 0
                /\ LaterSent("offsets", i, d) = 1
                /\ LaterReceived("distributed", i, d) = 0
                /\ LaterReceived("offsets", i, d) = 0
  BY DEF LaterSent, LaterReceived
<1>5. \A x \in Ranks : start[x] = ExclusiveScan(Counts)[r]
  BY <1>1, <1>2, SynchronizingState, OwnArray
<1>6. \A x \in Ranks : LaterSays(r, x, 1, start[x])
  BY <1>5 DEF LaterSays
<1>7. LaterMailOK'
  <2>1. UNCHANGED meshVars /\ pc[r] \in Synchronizing
    BY <1>2, SynchronizingState
  <2> DEFINE S == {}
  <2>2. \A q \in Ranks :
           LaterReceived("offsets", Transfers(q, r), Transfers(r, q))
             = LaterReceived(pc[r], Transfers(q, r), Transfers(r, q))
               + (IF q \in S THEN 1 ELSE 0)
    BY <1>2, <1>4
  <2>3. \A x \in Ranks :
           LaterSent("offsets", Transfers(r, x), Transfers(x, r))
             = LaterSent(pc[r], Transfers(r, x), Transfers(x, r))
               + (IF x \in Ranks THEN 1 ELSE 0)
    BY <1>2, <1>4
  <2>4. \A x \in Ranks : x \in Ranks =>
          LaterSays(r, x, LaterSent("offsets", Transfers(r, x), Transfers(x, r)),
                    start[x])
    BY <1>4, <1>6
  <2>5. \A q \in Ranks : q \in S => mail[q][r] # <<>>
    OBVIOUS
  <2>6. MailStep(r, S, Ranks, "offsets", start)
    BY <1>3
  <2> HIDE DEF S
  <2>. QED BY <1>2, <2>1, <2>2, <2>3, <2>4, <2>5, <2>6, SynchronizingState, LaterStep
<1>8. AttributesOK(r)'
  <2>1. pc'[r] = "offsets" /\ Complete(r)
    BY <1>2, SynchronizingState DEF AttributesOK
  <2>2. Complete(r)'
    BY <1>2, <2>1, RankKept
  <2>. QED BY <2>1, <2>2 DEF AttributesOK
<1>9. /\ ghostEntitiesCounts' = ghostEntitiesCounts
      /\ ghostNeighbors' = ghostNeighbors /\ values' = values
  BY <1>2 DEF attributes
<1>. QED BY <1>2, <1>7, <1>8, <1>9, SynchronizingState, SynchronizerKeeps

(* A rank finds the owners of its ghosts, counts them and does not throw.  *)
LEMMA CountGhostsKeeps ==
  ASSUME SyncInv, IndInv', NEW r \in Ranks, CountGhosts(r)
  PROVE  SyncInv' /\ pc' = [pc EXCEPT ![r] = "ghostCounts"]
<1>1. /\ pc[r] = "offsets" /\ Arrived(r, Ranks)
      /\ globalOffsets' =
           [globalOffsets EXCEPT ![r] = [q \in Ranks |-> Message(q, r)]]
      /\ UNCHANGED <<meshVars, iter, owner, index, foreign, ghostEntitiesCounts,
                     ghostNeighbors, values>>
  BY DEF CountGhosts
<1>2. pc[r] \in Synchronizing /\ MeshOK /\ UNCHANGED meshVars
  BY <1>1, SynchronizingState
<1>3. \A i, d : /\ LaterSent("offsets", i, d) = 1
                /\ LaterSent("ghostCounts", i, d) = 2
                /\ LaterReceived("offsets", i, d) = 0
                /\ LaterReceived("ghostCounts", i, d) = 1
  BY DEF LaterSent, LaterReceived
<1>4. PICK offsets : offsets = globalOffsets'[r]
  OBVIOUS
<1>5. offsets = [q \in Ranks |-> ExclusiveScan(Counts)[q]]
  <2>1. ASSUME NEW q \in Ranks PROVE Message(q, r) = ExclusiveScan(Counts)[q]
    <3>1. mail[q][r] # <<>>
      BY <1>1 DEF Arrived
    <3>2. LaterSays(q, r, LaterReceived(pc[r], Transfers(q, r), Transfers(r, q)) + 1,
                    Message(q, r))
      BY <1>2, <3>1, LaterMessage
    <3>3. LaterReceived(pc[r], Transfers(q, r), Transfers(r, q)) + 1 = 1
      BY <1>1, <1>3
    <3>4. LaterSays(q, r, 1, Message(q, r))
      BY <3>2, <3>3
    <3>. QED BY <3>4 DEF LaterSays
  <2>2. offsets = [q \in Ranks |-> Message(q, r)]
    BY <1>1, <1>4, SynchronizingState
  <2>. QED BY <2>1, <2>2
<1>6. ASSUME NEW i \in Ranks PROVE LocalGhosts(r, i) = GhostsOf(r, i)
  <2>1. LocalGhosts(r, i) = {f \in GhostFaces(r) : OwnerOf(offsets, index[r][f]) = i}
    BY <1>4 DEF LocalGhosts
  <2>2. ASSUME NEW f \in GhostFaces(r)
        PROVE  OwnerOf(offsets, index[r][f]) = i <=> f \in Owned(i)
    <3>1. f \in LocalFaces(r)
      BY <1>2, CompleteRank
    <3>2. PICK q \in Ranks : f \in Owned(q) /\ index[r][f] = TrueIndex(q, f)
      BY <1>2, <3>1, CompleteRank
    <3>3. OwnerOf(offsets, index[r][f]) = q
      BY <1>2, <1>5, <3>2, OwnerFound
    <3>4. f \in Owned(i) => q = i
      BY <1>2, <3>2, OneOwner
    <3>. QED BY <3>2, <3>3, <3>4
  <2>3. GhostFaces(r) = LocalFaces(r) \ Owned(r)
    BY <1>2, CompleteRank
  <2>. QED BY <2>1, <2>2, <2>3 DEF GhostsOf
<1>7. LocalGhosts(r, r) = {}
  <2>1. LocalGhosts(r, r) = GhostsOf(r, r)
    BY <1>6
  <2>. QED BY <2>1 DEF GhostsOf
<1>8. PICK message : message = [q \in Ranks |-> GhostCounts(r)]
  OBVIOUS
<1>9. /\ pc' = [pc EXCEPT ![r] = "ghostCounts"]
      /\ mail' = Exchanged(r, "ghostCounts", message)
  <2>1. [i \in Ranks |-> Cardinality(LocalGhosts(r, i))] = GhostCounts(r)
    BY <1>6 DEF GhostCounts
  <2>. QED BY <1>7, <1>8, <2>1 DEF CountGhosts, Goto
<1>10. MailStep(r, Ranks, Ranks, "ghostCounts", message)
  BY <1>9, SynchronizingState, MailSteps DEF Exchanged
<1>11. \A x \in Ranks : LaterSays(r, x, 2, message[x])
  BY <1>8 DEF LaterSays
<1>12. LaterMailOK'
  <2>1. \A q \in Ranks : q \in Ranks => mail[q][r] # <<>>
    BY <1>1 DEF Arrived
  <2>2. \A q \in Ranks :
           LaterReceived("ghostCounts", Transfers(q, r), Transfers(r, q))
             = LaterReceived(pc[r], Transfers(q, r), Transfers(r, q))
               + (IF q \in Ranks THEN 1 ELSE 0)
    BY <1>1, <1>3
  <2>3. \A x \in Ranks :
           LaterSent("ghostCounts", Transfers(r, x), Transfers(x, r))
             = LaterSent(pc[r], Transfers(r, x), Transfers(x, r))
               + (IF x \in Ranks THEN 1 ELSE 0)
    BY <1>1, <1>3
  <2>4. \A x \in Ranks : x \in Ranks =>
          LaterSays(r, x, LaterSent("ghostCounts", Transfers(r, x), Transfers(x, r)),
                    message[x])
    BY <1>3, <1>11
  <2>. QED BY <1>2, <1>9, <1>10, <2>1, <2>2, <2>3, <2>4, SynchronizingState, LaterStep
<1>13. AttributesOK(r)'
  <2>1. pc'[r] = "ghostCounts" /\ Complete(r)
    BY <1>2, <1>9, SynchronizingState DEF AttributesOK
  <2>2. Complete(r)'
    BY <1>1, <2>1, RankKept
  <2>. QED BY <2>1, <2>2 DEF AttributesOK
<1>. QED BY <1>1, <1>2, <1>9, <1>12, <1>13, SynchronizingState, SynchronizerKeeps

(* A rank asks the owners of its ghosts for their values.                  *)
LEMMA SendGhostsKeeps ==
  ASSUME SyncInv, IndInv', NEW r \in Ranks, SendGhosts(r)
  PROVE  SyncInv'
<1>1. /\ pc[r] = "ghostCounts" /\ Arrived(r, Ranks)
      /\ ghostEntitiesCounts' =
           [ghostEntitiesCounts EXCEPT ![r] = [q \in Ranks |-> Message(q, r)]]
      /\ pc' = [pc EXCEPT ![r] = "ghosts"]
      /\ UNCHANGED <<meshVars, iter, owner, index, foreign, globalOffsets,
                     ghostNeighbors, values>>
  BY DEF SendGhosts, Goto
<1>2. pc[r] \in Synchronizing /\ MeshOK /\ UNCHANGED meshVars
  BY <1>1, SynchronizingState
<1>3. \A i, d : /\ LaterSent("ghostCounts", i, d) = 2
                /\ LaterSent("ghosts", i, d) = 2 + i
                /\ LaterReceived("ghostCounts", i, d) = 1
                /\ LaterReceived("ghosts", i, d) = 2
  BY DEF LaterSent, LaterReceived
<1>4. /\ ghostEntitiesCounts'[r] = [q \in Ranks |-> GhostCounts(q)]
      /\ ghostEntitiesCounts'[r][r] = GhostCounts(r)
      /\ DOMAIN ghostEntitiesCounts' = Ranks
  <2>1. ASSUME NEW q \in Ranks PROVE Message(q, r) = GhostCounts(q)
    <3>1. mail[q][r] # <<>>
      BY <1>1 DEF Arrived
    <3>2. LaterSays(q, r, LaterReceived(pc[r], Transfers(q, r), Transfers(r, q)) + 1,
                    Message(q, r))
      BY <1>2, <3>1, LaterMessage
    <3>3. LaterReceived(pc[r], Transfers(q, r), Transfers(r, q)) + 1 = 2
      BY <1>1, <1>3
    <3>4. LaterSays(q, r, 2, Message(q, r))
      BY <3>2, <3>3
    <3>. QED BY <3>4 DEF LaterSays
  <2>. QED BY <1>1, <2>1, SynchronizingState
<1>5. PICK T : T = Providers(r)'
  OBVIOUS
<1>6. \A x \in Ranks : x \in T <=> GhostsOf(r, x) # {}
  BY <1>4, <1>5, TransferFacts DEF Providers
<1>7. PICK counts : counts = GhostCounts(r)
  OBVIOUS
<1>8. PICK slice : slice =
        [i \in Ranks |-> SubSeq(Sorted(r, GhostFaces(r)), GhostOffset(counts, i) + 1,
                                GhostOffset(counts, i + 1))]
  OBVIOUS
<1>9. PICK ghosts : ghosts =
        [i \in Ranks |-> [k \in DOMAIN slice[i] |-> index[r][slice[i][k]]]]
  OBVIOUS
<1>10. ASSUME NEW i \in Ranks PROVE GhostIndices(r, i, ghosts[i])
  <2>1. PICK s : s = slice[i]
    OBVIOUS
  <2>2. s = SubSeq(Sorted(r, GhostFaces(r)), GhostOffset(counts, i) + 1,
                   GhostOffset(counts, i + 1))
    BY <1>8, <2>1
  <2>3. PICK m : m = ghosts[i]
    OBVIOUS
  <2>4. m = [k \in DOMAIN s |-> index[r][s[k]]]
    BY <1>9, <2>1, <2>3
  <2>5. GhostIndices(r, i, m)
    BY <1>2, <1>7, <2>2, <2>4, GhostSlice
  <2>. QED BY <2>3, <2>5
<1>11. mail' = Posted(Taken(r, Ranks), r, T, "ghosts", ghosts)
  <2>1. ghosts = [i \in Ranks |->
           LET part_ == SubSeq(Sorted(r, GhostFaces(r)), GhostOffset(counts, i) + 1,
                               GhostOffset(counts, i + 1))
           IN  [k \in DOMAIN part_ |-> index[r][part_[k]]]]
    BY <1>8, <1>9
  <2>. QED BY <1>4, <1>5, <1>7, <2>1 DEF SendGhosts
<1>12. MailStep(r, Ranks, T, "ghosts", ghosts)
  BY <1>11, SynchronizingState, MailSteps
<1>13. \A x \in Ranks : x \in T => LaterSays(r, x, 3, ghosts[x])
  BY <1>6, <1>10 DEF LaterSays
<1>14. LaterMailOK'
  <2>1. \A q \in Ranks : q \in Ranks => mail[q][r] # <<>>
    BY <1>1 DEF Arrived
  <2>2. \A q \in Ranks :
           LaterReceived("ghosts", Transfers(q, r), Transfers(r, q))
             = LaterReceived(pc[r], Transfers(q, r), Transfers(r, q))
               + (IF q \in Ranks THEN 1 ELSE 0)
    BY <1>1, <1>3
  <2>3. \A x \in Ranks : Transfers(r, x) = IF x \in T THEN 1 ELSE 0
    BY <1>6, TransferFacts
  <2>4. \A x \in Ranks :
           LaterSent("ghosts", Transfers(r, x), Transfers(x, r))
             = LaterSent(pc[r], Transfers(r, x), Transfers(x, r))
               + (IF x \in T THEN 1 ELSE 0)
    BY <1>1, <1>3, <2>3
  <2>5. \A x \in Ranks : x \in T =>
          LaterSays(r, x, LaterSent("ghosts", Transfers(r, x), Transfers(x, r)),
                    ghosts[x])
    <3> TAKE x \in Ranks
    <3>1. x \in T => LaterSent("ghosts", Transfers(r, x), Transfers(x, r)) = 3
      BY <1>3, <2>3
    <3>. QED BY <1>13, <3>1
  <2>. QED BY <1>1, <1>2, <1>12, <2>1, <2>2, <2>4, <2>5, SynchronizingState, LaterStep
<1>15. AttributesOK(r)'
  <2>1. pc'[r] = "ghosts" /\ Complete(r)
    BY <1>1, <1>2, SynchronizingState DEF AttributesOK
  <2>2. Complete(r)' /\ \A q \in Ranks : GhostCounts(q)' = GhostCounts(q)
    BY <1>1, <2>1, RankKept
  <2>3. ghostEntitiesCounts'[r] = [q \in Ranks |-> GhostCounts(q)']
    BY <1>4, <2>2
  <2>. QED BY <2>1, <2>2, <2>3 DEF AttributesOK
<1>16. \A x \in Ranks : x # r =>
         ghostEntitiesCounts'[x] = ghostEntitiesCounts[x]
  BY <1>1, SynchronizingState
<1>. QED BY <1>1, <1>2, <1>4, <1>14, <1>15, <1>16, SynchronizingState,
            SynchronizerKeeps

(* A rank converts the indices of the ghosts of others.                    *)
LEMMA FinishInitializeKeeps ==
  ASSUME SyncInv, IndInv', NEW r \in Ranks, FinishInitialize(r)
  PROVE  SyncInv'
<1>1. /\ pc[r] = "ghosts" /\ Arrived(r, Requesters(r))
      /\ mail' = Taken(r, Requesters(r))
      /\ pc' = [pc EXCEPT ![r] = "initialized"]
      /\ UNCHANGED <<meshVars, iter, owner, index, foreign, globalOffsets,
                     ghostEntitiesCounts>>
  BY DEF FinishInitialize, Goto
<1>2. pc[r] \in Synchronizing /\ MeshOK /\ UNCHANGED meshVars
  BY <1>1, SynchronizingState
<1>3. \A i, d : /\ LaterSent("ghosts", i, d) = 2 + i
                /\ LaterSent("initialized", i, d) = 2 + i
                /\ LaterReceived("ghosts", i, d) = 2
                /\ LaterReceived("initialized", i, d) = 2 + i
  BY DEF LaterSent, LaterReceived
<1>4. PICK S : S = Requesters(r)
  OBVIOUS
<1>5. S \subseteq Ranks /\ \A x \in Ranks : x \in S <=> GhostsOf(x, r) # {}
  BY <1>1, <1>4, PartnerFacts
<1>6. ASSUME NEW q \in S
      PROVE  q \in Ranks /\ mail[q][r] # <<>> /\ GhostIndices(q, r, Message(q, r))
  <2>1. q \in Ranks /\ mail[q][r] # <<>> /\ GhostsOf(q, r) # {}
    BY <1>1, <1>4, <1>5, <1>6 DEF Arrived
  <2>2. LaterSays(q, r, LaterReceived(pc[r], Transfers(q, r), Transfers(r, q)) + 1,
                  Message(q, r))
    BY <1>2, <2>1, LaterMessage
  <2>3. LaterReceived(pc[r], Transfers(q, r), Transfers(r, q)) + 1 = 3
    BY <1>1, <1>3
  <2>4. LaterSays(q, r, 3, Message(q, r))
    BY <2>2, <2>3
  <2>. QED BY <2>1, <2>4 DEF LaterSays
<1>7. LaterMailOK'
  <2> DEFINE T == {}
             m == <<>>
  <2>1. MailStep(r, S, T, "none", m)
    BY <1>1, <1>4, SynchronizingState, MailSteps
  <2>2. \A x \in Ranks : x \notin T
    OBVIOUS
  <2> HIDE DEF T, m
  <2>3. \A q \in Ranks : q \in S => mail[q][r] # <<>>
    BY <1>6
  <2>4. \A x \in Ranks : Transfers(x, r) = IF x \in S THEN 1 ELSE 0
    BY <1>5, TransferFacts
  <2>5. \A q \in Ranks :
           LaterReceived("initialized", Transfers(q, r), Transfers(r, q))
             = LaterReceived(pc[r], Transfers(q, r), Transfers(r, q))
               + (IF q \in S THEN 1 ELSE 0)
    BY <1>1, <1>3, <2>4
  <2>6. \A x \in Ranks :
           LaterSent("initialized", Transfers(r, x), Transfers(x, r))
             = LaterSent(pc[r], Transfers(r, x), Transfers(x, r))
               + (IF x \in T THEN 1 ELSE 0)
    <3> TAKE x \in Ranks
    <3>1. LaterSent("initialized", Transfers(r, x), Transfers(x, r)) \in Nat
      BY LaterCounts
    <3>. QED BY <1>1, <1>3, <2>2, <3>1
  <2>7. \A x \in Ranks : x \in T =>
          LaterSays(r, x, LaterSent("initialized", Transfers(r, x), Transfers(x, r)),
                    m[x])
    BY <2>2
  <2>. QED BY <1>1, <1>2, <2>1, <2>3, <2>5, <2>6, <2>7, SynchronizingState, LaterStep
<1>8. ghostNeighbors'[r] =
        [i \in S |-> [k \in DOMAIN Message(i, r) |->
                        LocalIndex(r, Message(i, r)[k])]]
  BY <1>4, SynchronizingState DEF FinishInitialize
<1>9. ASSUME NEW q \in Ranks, GhostsOf(q, r) # {}
      PROVE  NeighborsOK(q, r, ghostNeighbors'[r][q])
  <2>1. q \in S /\ GhostIndices(q, r, Message(q, r))
    BY <1>5, <1>6, <1>9
  <2>2. PICK message : message = Message(q, r)
    OBVIOUS
  <2>3. PICK m : m = ghostNeighbors'[r][q]
    OBVIOUS
  <2>4. m = [k \in DOMAIN message |-> LocalIndex(r, message[k])]
    BY <1>8, <2>1, <2>2, <2>3
  <2>5. /\ DOMAIN message = 1 .. Cardinality(GhostsOf(q, r))
        /\ \A f \in GhostsOf(q, r) : message[Slot(q, r, f)] = TrueIndex(r, f)
    BY <2>1, <2>2 DEF GhostIndices
  <2>6. ASSUME NEW f \in GhostsOf(q, r)
        PROVE  m[Slot(q, r, f)] = Position(f, Owned(r))
    <3>1. Slot(q, r, f) \in DOMAIN message /\ f \in Owned(r)
      BY <1>2, <2>5, SlotFacts DEF GhostsOf
    <3>2. m[Slot(q, r, f)] = LocalIndex(r, TrueIndex(r, f))
      BY <2>4, <2>5, <3>1
    <3>3. LocalIndex(r, TrueIndex(r, f)) = TrueIndex(r, f) - ExclusiveScan(Counts)[r]
      BY <1>2, OwnArray DEF LocalIndex
    <3>4. TrueIndex(r, f) - ExclusiveScan(Counts)[r] = Position(f, Owned(r))
      BY <1>2, <3>1, OwnPlaces
    <3>. QED BY <3>2, <3>3, <3>4
  <2>7. NeighborsOK(q, r, m)
    BY <2>4, <2>5, <2>6 DEF NeighborsOK
  <2>. QED BY <2>3, <2>7
<1>10. values'[r] = [f \in Faces(r) |-> IF f \in OwnFaces(r) THEN f ELSE {}]
  BY SynchronizingState DEF FinishInitialize
<1>11. DOMAIN values'[r] = LocalFaces(r) /\ \A f \in Owned(r) : values'[r][f] = f
  <2>1. Faces(r) = LocalFaces(r) /\ OwnFaces(r) = Owned(r) /\ Owned(r) \subseteq LocalFaces(r)
    BY <1>2, CompleteRank DEF Owned
  <2>. QED BY <1>10, <2>1
<1>12. AttributesOK(r)'
  <2>1. /\ pc'[r] = "initialized" /\ Complete(r)
        /\ ghostEntitiesCounts[r] = [q \in Ranks |-> GhostCounts(q)]
    BY <1>1, <1>2, SynchronizingState DEF AttributesOK
  <2>2. /\ Complete(r)' /\ \A q \in Ranks : GhostCounts(q)' = GhostCounts(q)
        /\ LocalFaces(r)' = LocalFaces(r) /\ Owned(r)' = Owned(r)
    BY <1>1, <2>1, RankKept
  <2>3. ghostEntitiesCounts'[r] = [q \in Ranks |-> GhostCounts(q)']
    <3>1. [q \in Ranks |-> GhostCounts(q)'] = [q \in Ranks |-> GhostCounts(q)]
      BY <2>2
    <3>. QED BY <1>1, <2>1, <3>1
  <2>4. ASSUME NEW q \in Ranks, GhostsOf(q, r)' # {}
        PROVE  NeighborsOK(q, r, ghostNeighbors[r][q])'
    <3>1. PICK m : m = ghostNeighbors'[r][q]
      OBVIOUS
    <3>2. GhostsOf(q, r) # {}
      BY <1>2, <2>4, GhostsKept
    <3>3. NeighborsOK(q, r, m)
      BY <1>9, <3>1, <3>2
    <3>4. NeighborsOK(q, r, m)'
      BY <1>2, <3>3, GhostsKept
    <3>. QED BY <3>1, <3>4 DEF NeighborsOK
  <2>. QED BY <1>11, <2>1, <2>2, <2>3, <2>4 DEF AttributesOK
<1>13. /\ DOMAIN ghostNeighbors' = Ranks /\ DOMAIN values' = Ranks
       /\ \A x \in Ranks : x # r =>
            ghostNeighbors'[x] = ghostNeighbors[x] /\ values'[x] = values[x]
  BY SynchronizingState DEF FinishInitialize
<1>. QED BY <1>1, <1>2, <1>7, <1>12, <1>13, SynchronizingState, SynchronizerKeeps

(* A rank sends the values of its faces to the ranks that have ghosts.     *)
LEMMA SynchronizeSends ==
  ASSUME SyncInv, IndInv', NEW r \in Ranks, Synchronize(r)
  PROVE  SyncInv'
<1>1. /\ pc[r] = "initialized" /\ pc' = [pc EXCEPT ![r] = "values"]
      /\ UNCHANGED <<meshVars, iter, owner, index, foreign, attributes>>
  BY DEF Synchronize, Goto
<1>2. pc[r] \in Synchronizing /\ MeshOK /\ UNCHANGED meshVars /\ AttributesOK(r)
  BY <1>1, SynchronizingState
<1>3. \A i, d : /\ LaterSent("initialized", i, d) = 2 + i
                /\ LaterSent("values", i, d) = 2 + i + d
                /\ LaterReceived("initialized", i, d) = 2 + i
                /\ LaterReceived("values", i, d) = 2 + i
  BY DEF LaterSent, LaterReceived
<1>4. PICK T : T = Requesters(r)
  OBVIOUS
<1>5. T \subseteq Ranks /\ \A x \in Ranks : x \in T <=> GhostsOf(x, r) # {}
  BY <1>1, <1>4, PartnerFacts
<1>6. PICK buffer : buffer =
        [i \in T |-> [k \in DOMAIN ghostNeighbors[r][i] |->
                        Value(r, ghostNeighbors[r][i][k])]]
  OBVIOUS
<1>7. mail' = Posted(mail, r, T, "values", buffer)
  BY <1>4, <1>6 DEF Synchronize
<1>8. ASSUME NEW x \in T PROVE GhostValues(x, r, buffer[x])
  <2>1. x \in Ranks /\ GhostsOf(x, r) # {}
    BY <1>5
  <2>2. PICK m : m = ghostNeighbors[r][x]
    OBVIOUS
  <2>3. NeighborsOK(x, r, m)
    BY <1>1, <1>2, <2>1, <2>2 DEF AttributesOK
  <2>4. buffer[x] = [k \in DOMAIN m |-> Value(r, m[k])]
    BY <1>6, <2>2
  <2>5. ASSUME NEW f \in GhostsOf(x, r) PROVE buffer[x][Slot(x, r, f)] = f
    <3>1. f \in Owned(r) /\ Slot(x, r, f) \in DOMAIN m
      BY <1>2, <2>1, <2>3, SlotFacts DEF GhostsOf, NeighborsOK
    <3>2. buffer[x][Slot(x, r, f)] = Value(r, Position(f, Owned(r)))
      BY <2>3, <2>4, <3>1 DEF NeighborsOK
    <3>3. Value(r, Position(f, Owned(r))) = values[r][f]
      BY <1>2, <3>1, OwnArray DEF Value
    <3>4. values[r][f] = f
      BY <1>1, <1>2, <3>1 DEF AttributesOK
    <3>. QED BY <3>2, <3>3, <3>4
  <2>. QED BY <2>5 DEF GhostValues
<1>9. LaterMailOK'
  <2> DEFINE S == {}
  <2>1. MailStep(r, S, T, "values", buffer)
    BY <1>7, SynchronizingState, MailSteps
  <2>2. \A x \in Ranks : x \notin S
    OBVIOUS
  <2> HIDE DEF S
  <2>3. \A q \in Ranks : q \in S => mail[q][r] # <<>>
    BY <2>2
  <2>4. \A x \in Ranks : /\ Transfers(x, r) = IF x \in T THEN 1 ELSE 0
                         /\ Transfers(r, x) \in {0, 1}
                         /\ Transfers(r, x) = 1 <=> GhostsOf(r, x) # {}
    BY <1>5, TransferFacts
  <2>5. \A q \in Ranks :
           LaterReceived("values", Transfers(q, r), Transfers(r, q))
             = LaterReceived(pc[r], Transfers(q, r), Transfers(r, q))
               + (IF q \in S THEN 1 ELSE 0)
    <3> TAKE q \in Ranks
    <3>1. LaterReceived("values", Transfers(q, r), Transfers(r, q)) \in Nat
      BY LaterCounts
    <3>. QED BY <1>1, <1>3, <2>2, <3>1
  <2>6. \A x \in Ranks :
           LaterSent("values", Transfers(r, x), Transfers(x, r))
             = LaterSent(pc[r], Transfers(r, x), Transfers(x, r))
               + (IF x \in T THEN 1 ELSE 0)
    BY <1>1, <1>3, <2>4
  <2>7. \A x \in Ranks : x \in T =>
          LaterSays(r, x, LaterSent("values", Transfers(r, x), Transfers(x, r)),
                    buffer[x])
    <3> SUFFICES ASSUME NEW x \in Ranks, x \in T
                 PROVE  LaterSays(r, x, LaterSent("values", Transfers(r, x),
                                                  Transfers(x, r)), buffer[x])
      OBVIOUS
    <3>1. LaterSent("values", Transfers(r, x), Transfers(x, r))
            = IF GhostsOf(r, x) = {} THEN 3 ELSE 4
      BY <1>3, <2>4
    <3>2. GhostValues(x, r, buffer[x])
      BY <1>8
    <3>3. CASE GhostsOf(r, x) = {}
      <4>1. LaterSays(r, x, 3, buffer[x])
        BY <3>2, <3>3 DEF LaterSays
      <4>. QED BY <3>1, <3>3, <4>1
    <3>4. CASE GhostsOf(r, x) # {}
      <4>1. LaterSays(r, x, 4, buffer[x])
        BY <3>2 DEF LaterSays
      <4>. QED BY <3>1, <3>4, <4>1
    <3>. QED BY <3>3, <3>4
  <2>. QED BY <1>1, <1>2, <2>1, <2>3, <2>5, <2>6, <2>7, SynchronizingState, LaterStep
<1>10. /\ ghostEntitiesCounts' = ghostEntitiesCounts
       /\ ghostNeighbors' = ghostNeighbors /\ values' = values
  BY <1>1 DEF attributes
<1>11. AttributesOK(r)'
  <2>1. /\ pc'[r] = "values" /\ Complete(r)
        /\ ghostEntitiesCounts[r] = [q \in Ranks |-> GhostCounts(q)]
        /\ \A q \in Ranks : GhostsOf(q, r) # {} =>
             NeighborsOK(q, r, ghostNeighbors[r][q])
        /\ DOMAIN values[r] = LocalFaces(r) /\ \A f \in Owned(r) : values[r][f] = f
    BY <1>1, <1>2, SynchronizingState DEF AttributesOK
  <2>2. /\ Complete(r)' /\ \A q \in Ranks : GhostCounts(q)' = GhostCounts(q)
        /\ LocalFaces(r)' = LocalFaces(r) /\ Owned(r)' = Owned(r)
    BY <1>1, <2>1, RankKept
  <2>3. ghostEntitiesCounts'[r] = [q \in Ranks |-> GhostCounts(q)']
    <3>1. [q \in Ranks |-> GhostCounts(q)'] = [q \in Ranks |-> GhostCounts(q)]
      BY <2>2
    <3>. QED BY <1>10, <2>1, <3>1
  <2>4. ASSUME NEW q \in Ranks, GhostsOf(q, r)' # {}
        PROVE  NeighborsOK(q, r, ghostNeighbors[r][q])'
    <3>1. PICK m : m = ghostNeighbors[r][q]
      OBVIOUS
    <3>2. GhostsOf(q, r) # {}
      BY <1>2, <2>4, GhostsKept
    <3>3. NeighborsOK(q, r, m)
      BY <2>1, <3>1, <3>2
    <3>4. NeighborsOK(q, r, m)'
      BY <1>2, <3>3, GhostsKept
    <3>. QED BY <1>10, <3>1, <3>4 DEF NeighborsOK
  <2>. QED BY <1>10, <2>1, <2>2, <2>3, <2>4 DEF AttributesOK
<1>. QED BY <1>1, <1>2, <1>9, <1>10, <1>11, SynchronizingState, SynchronizerKeeps

(* What a rank takes for the k-th of its ghosts.                           *)
ReceivedValue(r, counts, k) ==
  LET j == CHOOSE j \in Providers(r) :
             /\ GhostOffset(counts, j) < k
             /\ k <= GhostOffset(counts, j + 1)
  IN  Message(j, r)[k - GhostOffset(counts, j)]

(* It is the value of the face: its owner sends it.                        *)
LEMMA GhostReceived ==
  ASSUME SyncInv, NEW r \in Ranks, pc[r] = "values", Arrived(r, Providers(r)),
         NEW f \in GhostFaces(r),
         NEW k, k = Place(r, f, GhostFaces(r)),
         NEW counts, counts = ghostEntitiesCounts[r][r]
  PROVE  ReceivedValue(r, counts, k) = f
<1>1. pc[r] \in Synchronizing /\ MeshOK /\ counts = GhostCounts(r)
  BY SynchronizingState, PartnerFacts
<1>2. PICK i \in Ranks : f \in GhostsOf(r, i)
  <2>1. f \in LocalFaces(r) /\ f \notin Owned(r)
    BY <1>1, CompleteRank
  <2>. QED BY <1>1, <2>1, CompleteRank DEF GhostsOf
<1>3. i \in Providers(r) /\ Providers(r) \subseteq Ranks
  BY <1>2, PartnerFacts
<1>4. GhostValues(r, i, Message(i, r))
  <2>1. mail[i][r] # <<>> /\ GhostsOf(r, i) # {}
    BY <1>2, <1>3 DEF Arrived
  <2>2. LaterSays(i, r, LaterReceived(pc[r], Transfers(i, r), Transfers(r, i)) + 1,
                  Message(i, r))
    BY <1>1, <2>1, LaterMessage
  <2>3. LaterReceived(pc[r], Transfers(i, r), Transfers(r, i)) + 1
          = IF GhostsOf(i, r) = {} THEN 3 ELSE 4
    BY DEF LaterReceived, Transfers
  <2>4. CASE GhostsOf(i, r) = {}
    <3>1. LaterSays(i, r, 3, Message(i, r))
      BY <2>2, <2>3, <2>4
    <3>. QED BY <2>4, <3>1 DEF LaterSays
  <2>5. CASE GhostsOf(i, r) # {}
    <3>1. LaterSays(i, r, 4, Message(i, r))
      BY <2>2, <2>3, <2>5
    <3>. QED BY <3>1 DEF LaterSays
  <2>. QED BY <2>4, <2>5
<1>5. /\ GhostOffset(counts, i) \in Nat /\ Cardinality(GhostsOf(r, i)) \in Nat
      /\ GhostOffset(counts, i + 1)
           = GhostOffset(counts, i) + Cardinality(GhostsOf(r, i))
      /\ k = GhostOffset(counts, i) + Slot(r, i, f)
  BY <1>1, <1>2, GhostArray
<1>6. Slot(r, i, f) \in 1 .. Cardinality(GhostsOf(r, i))
  BY <1>1, <1>2, SlotFacts
<1>7. /\ GhostOffset(counts, i) < k /\ k <= GhostOffset(counts, i + 1)
      /\ k - GhostOffset(counts, i) = Slot(r, i, f) /\ k \in Nat
  BY <1>5, <1>6
<1>8. counts \in [Ranks -> Nat] /\ \A q \in Ranks : counts[q] = Cardinality(GhostsOf(r, q))
  BY <1>1, CountsType DEF GhostCounts
<1>9. ASSUME NEW q \in Ranks, NEW p \in Ranks, q < p
      PROVE  GhostOffset(counts, q + 1) <= GhostOffset(counts, p)
  <2>1. GhostOffset(counts, q) + counts[q] <= GhostOffset(counts, p)
    BY <1>8, <1>9, ScanIncreases DEF GhostOffset
  <2>2. GhostOffset(counts, q + 1) = GhostOffset(counts, q) + counts[q]
    BY <1>1, <1>8, GhostArray
  <2>. QED BY <2>1, <2>2
<1>10. ASSUME NEW j \in Providers(r),
              GhostOffset(counts, j) < k, k <= GhostOffset(counts, j + 1)
       PROVE  j = i
  <2>1. /\ j \in Ranks /\ i \in Int /\ j \in Int
        /\ GhostOffset(counts, j) \in Nat /\ GhostOffset(counts, j + 1) \in Nat
    <3>1. j \in Ranks
      BY <1>3
    <3>2. GhostOffset(counts, j) \in Nat /\ GhostOffset(counts, j + 1) \in Nat
      BY <1>1, <3>1, GhostArray
    <3>. QED BY <3>1, <3>2, MeshAssumption DEF Ranks
  <2>2. ~(j < i)
    BY <1>5, <1>7, <1>9, <1>10, <2>1
  <2>3. ~(i < j)
    BY <1>5, <1>7, <1>9, <1>10, <2>1
  <2>. QED BY <2>1, <2>2, <2>3
<1>11. PICK chosen :
         chosen = CHOOSE j \in Providers(r) : /\ GhostOffset(counts, j) < k
                                              /\ k <= GhostOffset(counts, j + 1)
  OBVIOUS
<1>12. chosen = i
  BY <1>3, <1>7, <1>10, <1>11
<1>13. ReceivedValue(r, counts, k) = Message(i, r)[k - GhostOffset(counts, i)]
  BY <1>11, <1>12 DEF ReceivedValue
<1>14. ReceivedValue(r, counts, k) = Message(i, r)[Slot(r, i, f)]
  BY <1>7, <1>13
<1>. QED BY <1>2, <1>4, <1>14 DEF GhostValues

(* A rank sets its ghosts.                                                 *)
LEMMA FinishSynchronizeKeeps ==
  ASSUME SyncInv, IndInv', NEW r \in Ranks, FinishSynchronize(r)
  PROVE  SyncInv'
<1>1. /\ pc[r] = "values" /\ Arrived(r, Providers(r))
      /\ mail' = Taken(r, Providers(r))
      /\ pc' = [pc EXCEPT ![r] = "done"]
      /\ UNCHANGED <<meshVars, iter, owner, index, foreign, globalOffsets,
                     ghostEntitiesCounts, ghostNeighbors>>
  BY DEF FinishSynchronize, Goto
<1>2. pc[r] \in Synchronizing /\ MeshOK /\ UNCHANGED meshVars /\ AttributesOK(r)
  BY <1>1, SynchronizingState
<1>3. \A i, d : /\ LaterSent("values", i, d) = 2 + i + d
                /\ LaterSent("done", i, d) = 2 + i + d
                /\ LaterReceived("values", i, d) = 2 + i
                /\ LaterReceived("done", i, d) = 2 + i + d
  BY DEF LaterSent, LaterReceived
<1>4. PICK S : S = Providers(r)
  OBVIOUS
<1>5. S \subseteq Ranks /\ \A x \in Ranks : x \in S <=> GhostsOf(r, x) # {}
  BY <1>1, <1>4, PartnerFacts
<1>6. LaterMailOK'
  <2> DEFINE T == {}
             m == <<>>
  <2>1. MailStep(r, S, T, "none", m)
    BY <1>1, <1>4, SynchronizingState, MailSteps
  <2>2. \A x \in Ranks : x \notin T
    OBVIOUS
  <2> HIDE DEF T, m
  <2>3. \A q \in Ranks : q \in S => mail[q][r] # <<>>
    BY <1>1, <1>4 DEF Arrived
  <2>4. \A x \in Ranks : /\ Transfers(r, x) = IF x \in S THEN 1 ELSE 0
                         /\ Transfers(x, r) \in {0, 1}
    BY <1>5, TransferFacts
  <2>5. \A q \in Ranks :
           LaterReceived("done", Transfers(q, r), Transfers(r, q))
             = LaterReceived(pc[r], Transfers(q, r), Transfers(r, q))
               + (IF q \in S THEN 1 ELSE 0)
    BY <1>1, <1>3, <2>4
  <2>6. \A x \in Ranks :
           LaterSent("done", Transfers(r, x), Transfers(x, r))
             = LaterSent(pc[r], Transfers(r, x), Transfers(x, r))
               + (IF x \in T THEN 1 ELSE 0)
    <3> TAKE x \in Ranks
    <3>1. LaterSent("done", Transfers(r, x), Transfers(x, r)) \in Nat
      BY LaterCounts
    <3>. QED BY <1>1, <1>3, <2>2, <3>1
  <2>7. \A x \in Ranks : x \in T =>
          LaterSays(r, x, LaterSent("done", Transfers(r, x), Transfers(x, r)),
                    m[x])
    BY <2>2
  <2>. QED BY <1>1, <1>2, <2>1, <2>3, <2>5, <2>6, <2>7, SynchronizingState, LaterStep
<1>7. PICK counts : counts = ghostEntitiesCounts[r][r]
  OBVIOUS
<1>8. values'[r] =
        [f \in Faces(r) |->
           IF f \in GhostFaces(r)
           THEN ReceivedValue(r, counts, Place(r, f, GhostFaces(r)))
           ELSE values[r][f]]
  BY <1>7, SynchronizingState DEF FinishSynchronize, ReceivedValue
<1>9. Faces(r) = LocalFaces(r) /\ GhostFaces(r) = LocalFaces(r) \ Owned(r)
  BY <1>2, CompleteRank
<1>10. ASSUME NEW f \in LocalFaces(r) PROVE values'[r][f] = f
  <2>1. CASE f \in GhostFaces(r)
    <3>1. PICK k : k = Place(r, f, GhostFaces(r))
      OBVIOUS
    <3>2. ReceivedValue(r, counts, k) = f
      BY <1>1, <1>7, <2>1, <3>1, GhostReceived
    <3>. QED BY <1>8, <1>9, <2>1, <3>1, <3>2
  <2>2. CASE f \notin GhostFaces(r)
    <3>1. values'[r][f] = values[r][f] /\ f \in Owned(r)
      BY <1>8, <1>9, <2>2
    <3>. QED BY <1>1, <1>2, <3>1 DEF AttributesOK
  <2>. QED BY <2>1, <2>2
<1>11. DOMAIN values'[r] = LocalFaces(r)
  BY <1>8, <1>9
<1>12. AttributesOK(r)'
  <2>1. /\ pc'[r] = "done" /\ Complete(r)
        /\ ghostEntitiesCounts[r] = [q \in Ranks |-> GhostCounts(q)]
        /\ \A q \in Ranks : GhostsOf(q, r) # {} =>
             NeighborsOK(q, r, ghostNeighbors[r][q])
    BY <1>1, <1>2, SynchronizingState DEF AttributesOK
  <2>2. /\ Complete(r)' /\ \A q \in Ranks : GhostCounts(q)' = GhostCounts(q)
        /\ LocalFaces(r)' = LocalFaces(r)
    BY <1>1, <2>1, RankKept
  <2>3. ghostEntitiesCounts'[r] = [q \in Ranks |-> GhostCounts(q)']
    <3>1. [q \in Ranks |-> GhostCounts(q)'] = [q \in Ranks |-> GhostCounts(q)]
      BY <2>2
    <3>. QED BY <1>1, <2>1, <3>1
  <2>4. ASSUME NEW q \in Ranks, GhostsOf(q, r)' # {}
        PROVE  NeighborsOK(q, r, ghostNeighbors[r][q])'
    <3>1. PICK m : m = ghostNeighbors[r][q]
      OBVIOUS
    <3>2. GhostsOf(q, r) # {}
      BY <1>2, <2>4, GhostsKept
    <3>3. NeighborsOK(q, r, m)
      BY <2>1, <3>1, <3>2
    <3>4. NeighborsOK(q, r, m)'
      BY <1>2, <3>3, GhostsKept
    <3>. QED BY <1>1, <3>1, <3>4 DEF NeighborsOK
  <2>. QED BY <1>10, <1>11, <2>1, <2>2, <2>3, <2>4 DEF AttributesOK
<1>13. /\ DOMAIN values' = Ranks
       /\ \A x \in Ranks : x # r => values'[x] = values[x]
  BY SynchronizingState DEF FinishSynchronize
<1>. QED BY <1>1, <1>2, <1>6, <1>12, <1>13, SynchronizingState, SynchronizerKeeps

-----------------------------------------------------------------------------
(* The theorem.                                                            *)

(* It holds initially, if every rank owns a vertex and a face.             *)
LEMMA SyncInitEstablishes ==
  ASSUME SyncInit, EveryRankOwns
  PROVE  SyncInv
<1>1. IndInv
  BY InitEstablishes
<1>3. \A r \in Ranks : pc[r] = "start"
  BY DEF SyncInit, Init
<1>4. \A r \in Ranks : ~Gone(r)
  BY <1>3 DEF Gone, Synchronizing
<1>5. \A r \in Ranks : AttributesOK(r)
  BY <1>3 DEF AttributesOK, Synchronizing
<1>. QED BY <1>1, <1>4, <1>5 DEF SyncInit, SyncInv, GoneOK, LaterMailOK

(* Every rank does, unless an empty one is tolerated.                      *)
LEMMA EveryRankOwnsInitially ==
  ASSUME SyncInit, ~ToleratedEmpty
  PROVE  EveryRankOwns
BY DEF SyncInit, Init, EveryRankOwns, Owned

(* All steps keep it.                                                      *)
LEMMA SyncNextKeeps ==
  ASSUME SyncInv, [Next]_allVars
  PROVE  SyncInv'
<1>1. IndInv /\ IndInv'
  BY NextKeeps DEF SyncInv
<1>2. CASE UNCHANGED allVars
  <2>1. /\ UNCHANGED meshVars /\ pc' = pc /\ iter' = iter /\ index' = index
        /\ mail' = mail /\ ghostEntitiesCounts' = ghostEntitiesCounts
        /\ ghostNeighbors' = ghostNeighbors /\ values' = values
    BY <1>2 DEF allVars, vars, attributes
  <2>2. \A x \in Ranks : Gone(x)' = Gone(x)
    BY <2>1 DEF Gone
  <2>3. GoneOK'
    <3>1. \A q \in Ranks : Ends(iter[q])' = Ends(iter[q])
      BY <2>1 DEF Ends, Complete
    <3>. QED BY <2>1, <2>2, <3>1 DEF SyncInv, GoneOK
  <2>4. LaterMailOK'
    <3>1. ASSUME NEW q \in Ranks, NEW x \in Ranks, Gone(q)' \/ Gone(x)'
          PROVE  LaterChannelOK(q, x)'
      <4>1. LaterChannelOK(q, x)
        BY <2>2, <3>1 DEF SyncInv, LaterMailOK
      <4>. QED BY <2>1, <2>2, <4>1, LaterChannelKept
    <3>. QED BY <3>1 DEF LaterMailOK
  <2>5. EveryRankOwns'
    BY <2>1, GhostsKept DEF SyncInv
  <2>6. ASSUME NEW x \in Ranks PROVE AttributesOK(x)'
    <3>1. AttributesOK(x)
      BY DEF SyncInv
    <3>. QED BY <2>1, <3>1, AttributesKept
  <2>. QED BY <1>1, <2>1, <2>3, <2>4, <2>5, <2>6 DEF SyncInv
<1>3. CASE Next
  <2>1. CASE Finished
    BY <1>2, <2>1 DEF Finished
  <2>2. ASSUME NEW r \in Ranks, RankStep(r) PROVE SyncInv'
    <3>1. CASE DistributeStep(r) /\ UNCHANGED attributes
      BY <1>1, <3>1, DistributeStepKeeps
    <3>2. CASE SynchronizeStep(r)
      BY <1>1, <3>2, ExchangeOffsetsKeeps, CountGhostsKeeps, SendGhostsKeeps,
         FinishInitializeKeeps, SynchronizeSends, FinishSynchronizeKeeps
         DEF SynchronizeStep
    <3>. QED BY <2>2, <3>1, <3>2 DEF RankStep
  <2>. QED BY <1>3, <2>1, <2>2 DEF Next
<1>. QED BY <1>2, <1>3

(* If every rank owns a vertex and a face, all ghosts have the values of   *)
(* their owners after synchronize(): the ranks find owners by global       *)
(* indices, receive the messages of the synchronizer in the order in which *)
(* they were sent although some ranks have left distributeSubentities and  *)
(* others have not, and the slices of ghosts and the local indices on the  *)
(* owner denote the same faces (DistributedMeshSynchronizer.h).            *)
THEOREM GhostsAlwaysUpdated ==
  /\ Spec /\ EveryRankOwns => []GhostsUpdated
  /\ ~ToleratedEmpty => (Spec => []GhostsUpdated)
<1>1. SyncInit /\ EveryRankOwns => SyncInv
  BY SyncInitEstablishes
<1>2. SyncInv /\ [Next]_allVars => SyncInv'
  BY SyncNextKeeps
<1>3. SyncInv => GhostsUpdated
  <2> SUFFICES ASSUME SyncInv, NEW r \in Ranks, pc[r] = "done", NEW f \in Faces(r)
               PROVE  values[r][f] = f
    BY DEF GhostsUpdated
  <2>1. pc[r] \in Synchronizing /\ AttributesOK(r)
    BY SynchronizingState
  <2>2. f \in LocalFaces(r)
    BY <2>1, CompleteRank
  <2>. QED BY <2>1, <2>2 DEF AttributesOK
<1>4. ~ToleratedEmpty => (SyncInit => EveryRankOwns)
  BY EveryRankOwnsInitially
<1>. QED BY <1>1, <1>2, <1>3, <1>4, PTL DEF Spec

-----------------------------------------------------------------------------
(* Two passes suffice.                                                     *)

(* Indices that rank r can learn in one pass: it has them if it knows the  *)
(* owners.                                                                 *)
Near(r) ==
  \A f \in LocalFaces(r) :
    f \in Owned(getEntityOwner(r, f)) => index[r][f] # Padding

(* What the first pass and the second one bring.                           *)
PassSays(q, r, n, m) ==
  /\ n = 3 => \A f \in Asked(r, q) : f \in Owned(q) => m[f] # Padding
  /\ n = 5 => \A f \in Asked(r, q) : m[f] # Padding
  /\ n = 6 => m = TRUE

PassChannelOK(q, r) ==
  \A j \in DOMAIN mail[q][r] : (Gone(q) => j = 1) =>
    PassSays(q, r, ReceivedCount(r) + j, mail[q][r][j][2])

PassMailOK == \A q, r \in Ranks : ~Gone(r) => PassChannelOK(q, r)

PassOK(r) ==
  /\ pc[r] # "failed" /\ iter[r] <= 1
  /\ pc[r] = "done?" \/ (pc[r] = "answers" /\ iter[r] = 1) => Near(r)
  /\ pc[r] = "done?" /\ iter[r] = 1 => Complete(r)

PassInv == SyncInv /\ PassMailOK /\ \A r \in Ranks : PassOK(r)

(* A rank that has a cell of a face knows the owner.                       *)
LEMMA CellShowsOwner ==
  ASSUME MeshOK, NEW r \in Ranks, NEW f \in LocalFaces(r),
         NEW c \in Mine(r), f \subseteq c
  PROVE  f \in Owned(getEntityOwner(r, f))
<1> DEFINE o == getEntityOwner(r, f)
           owners == {part[d] : d \in Both(f)}
           R == Both(f) \intersect Mine(r)
           O == Both(f) \intersect Mine(o)
<1> SUFFICES ASSUME o # r PROVE f \in Owned(o)
  BY DEF Owned
<1>1. Around(r, f) = Both(f)
  BY OwnCellShowsFace
<1>2. c \in Cells /\ c \in Both(f)
  BY DEF Mine, Both
<1>3. PICK d \in Both(f) : part[d] = o
  BY <1>1, OwnerIsRank
<1>4. o \in Ranks /\ d \in Mine(o) /\ d # c
  BY <1>3, OwnerIsRank DEF Mine, Both
<1>5. IsFiniteSet(Both(f)) /\ Cardinality(Both(f)) \in 0 .. 2
  BY FaceFacts
<1>6. IsFiniteSet(R) /\ IsFiniteSet(O) /\ R \intersect O = {}
  BY <1>4, <1>5, FS_Intersection DEF Mine
<1>7. Cardinality(R) \in Nat /\ Cardinality(O) \in Nat
  BY <1>6, FS_CardinalityType
<1>8. Cardinality(R) # 0 /\ Cardinality(O) # 0
  <2>1. R # {} /\ O # {}
    BY <1>2, <1>3, <1>4
  <2>. QED BY <1>6, <2>1, FS_EmptySet
<1>9. Cardinality(R) + Cardinality(O) <= Cardinality(Both(f))
  <2>1. Cardinality(R \union O)
          = Cardinality(R) + Cardinality(O) - Cardinality(R \intersect O)
    BY <1>6, FS_Union
  <2>2. Cardinality(R \intersect O) = 0
    BY <1>6, FS_EmptySet
  <2>3. R \union O \in SUBSET Both(f)
    OBVIOUS
  <2>4. Cardinality(R \union O) <= Cardinality(Both(f))
    BY <1>5, <2>3, FS_Subset
  <2>. QED BY <1>7, <2>1, <2>2, <2>4
<1>10. Cardinality(R) = 1 /\ Cardinality(O) = 1
  BY <1>5, <1>7, <1>8, <1>9
<1>11. o = InterfaceOwner(r, owners)
  BY <1>1, <1>10 DEF getEntityOwner
<1>12. f \in LocalFaces(o)
  <2>1. d \in localCells[o] /\ f \subseteq d
    BY <1>3, <1>4 DEF MeshOK, Both
  <2>2. Cardinality(f) = MeshDimension
    BY FaceFacts
  <2>. QED BY <2>1, <2>2 DEF LocalFaces, FacesOf
<1>13. Around(o, f) = Both(f)
  BY <1>3, <1>4, <1>12, OwnCellShowsFace DEF Both
<1>14. PICK p \in Ranks : p = o
  BY <1>4
<1>15. getEntityOwner(p, f) = InterfaceOwner(p, owners)
  <2>1. Around(p, f) = Both(f) /\ Cardinality(Around(p, f) \intersect Mine(p)) = 1
    BY <1>10, <1>13, <1>14
  <2>2. {part[e] : e \in Around(p, f)} = owners
    BY <2>1
  <2>. QED BY <2>1, <2>2 DEF getEntityOwner
<1>16. getEntityOwner(p, f) = p
  BY <1>11, <1>14, <1>15 DEF InterfaceOwner
<1>. QED BY <1>12, <1>14, <1>16 DEF Owned

(* Rank r goes on with the distribution, takes messages of the ranks in S  *)
(* and sends what a pass should bring.                                     *)
PassMove(r, label, S, l, m) ==
  /\ pc' = [pc EXCEPT ![r] = label]
  /\ \A x \in Ranks : x # r => iter'[x] = iter[x]
  /\ MailStep(r, S, Ranks, l, m)
  /\ S = {} \/ (S = Ranks /\ Arrived(r, Ranks))
  /\ ReceivedBy(label, iter'[r]) = ReceivedCount(r) + (IF S = {} THEN 0 ELSE 1)
  /\ \A x \in Ranks : PassSays(r, x, SentCount(r) + 1, m[x])

(* Messages on the way keep their meaning when a rank goes on in the passes*)
(* before any rank has left them.                                          *)
LEMMA PassMailStep ==
  ASSUME SyncInv, PassMailOK, UNCHANGED meshVars, NEW r \in Ranks,
         \A x \in Ranks : ~Gone(x), NEW label \in Distributing,
         NEW S, NEW l, NEW m, PassMove(r, label, S, l, m)
  PROVE  PassMailOK'
<1>s. PICK sent : sent = SentCount(r)
  OBVIOUS
<1>n. PICK n : n = sent + 1
  OBVIOUS
<1>r. PICK received : received = ReceivedBy(label, iter'[r])
  OBVIOUS
<1>m. /\ pc' = [pc EXCEPT ![r] = label]
      /\ \A x \in Ranks : x # r => iter'[x] = iter[x]
      /\ MailStep(r, S, Ranks, l, m)
      /\ S = {} \/ (S = Ranks /\ Arrived(r, Ranks))
      /\ received = ReceivedCount(r) + (IF S = {} THEN 0 ELSE 1)
      /\ \A x \in Ranks : PassSays(r, x, n, m[x])
  BY <1>s, <1>n, <1>r DEF PassMove
<1>1. /\ TypesOK /\ MailOK /\ DOMAIN pc = Ranks
      /\ \A x \in Ranks : pc[x] \in Distributing
  BY DEF SyncInv, IndInv, TypesOK, Gone
<1>2. pc'[r] = label /\ \A x \in Ranks : x # r => pc'[x] = pc[x]
  BY <1>1, <1>m
<1>3. \A x \in Ranks : x # r => ReceivedBy(pc'[x], iter'[x]) = ReceivedCount(x)
  BY <1>2, <1>m DEF ReceivedCount
<1>4. \A q \in Ranks, x \in Ranks : \A k, v : PassSays(q, x, k, v)' = PassSays(q, x, k, v)
  BY MeshKept DEF PassSays
<1>5. ASSUME NEW q \in Ranks, NEW x \in Ranks
      PROVE  PassChannelOK(q, x)'
  <2>1. PassChannelOK(q, x) /\ ~Gone(q)
    BY DEF PassMailOK
  <2>2. PICK before \in Nat : before = ReceivedCount(x)
    BY <1>1, CountFacts
  <2>3. PICK after : after = ReceivedBy(pc'[x], iter'[x])
    OBVIOUS
  <2>4. PICK old : old = mail[q][x]
    OBVIOUS
  <2>5. /\ IsSequence(old) /\ Len(old) = SentCount(q) - before
        /\ SentCount(q) \in Nat /\ Len(old) \in Nat /\ DOMAIN old = 1 .. Len(old)
    BY <1>1, <2>2, <2>4, CountFacts, LengthFacts DEF MailOK, ChannelOK
  <2>6. \A j \in DOMAIN old : PassSays(q, x, before + j, old[j][2])
    BY <2>1, <2>2, <2>4 DEF PassChannelOK
  <2>7. PICK s : s = IF x = r /\ q \in S THEN Tail(mail[q][x]) ELSE mail[q][x]
    OBVIOUS
  <2>8. PICK new : new = IF q = r THEN Append(s, <<l, m[x]>>) ELSE s
    OBVIOUS
  <2>9. new = mail'[q][x]
    BY <1>m, <2>7, <2>8 DEF MailStep
  <2>10. /\ IsSequence(s) /\ Len(s) = SentCount(q) - after /\ Len(s) \in Nat
         /\ after \in Nat
         /\ \A j \in DOMAIN s : PassSays(q, x, after + j, s[j][2])
    <3>1. CASE x = r /\ S = Ranks
      <4>1. old # <<>> /\ s = Tail(old) /\ S # {}
        BY <1>m, <2>4, <2>7, <3>1 DEF Arrived
      <4>2. after = before + 1
        BY <1>2, <1>r, <1>m, <2>2, <2>3, <3>1, <4>1
      <4>3. /\ IsSequence(s) /\ Len(s) = Len(old) - 1
            /\ DOMAIN s = 1 .. (Len(old) - 1) /\ Len(s) \in Nat
            /\ \A j \in 1 .. (Len(old) - 1) : s[j] = old[j + 1]
        BY <2>5, <4>1, TailFacts, LengthFacts
      <4>4. ASSUME NEW j \in DOMAIN s PROVE PassSays(q, x, after + j, s[j][2])
        <5>0. j \in 1 .. (Len(old) - 1) /\ Len(old) \in Nat /\ DOMAIN old = 1 .. Len(old)
          BY <2>5, <4>3
        <5>1. j + 1 \in DOMAIN old
          BY <5>0
        <5>2. s[j] = old[j + 1]
          BY <4>3, <5>0
        <5>3. after + j = before + (j + 1)
          BY <2>2, <4>2, <5>0
        <5>4. PassSays(q, x, before + (j + 1), old[j + 1][2])
          BY <2>6, <5>1
        <5>. QED BY <5>2, <5>3, <5>4
      <4>5. PICK k \in Nat : k = SentCount(q)
        BY <2>5
      <4>6. Len(s) = k - after /\ after \in Nat
        BY <2>5, <4>2, <4>3, <4>5
      <4>. QED BY <4>3, <4>4, <4>5, <4>6
    <3>2. CASE ~(x = r /\ S = Ranks)
      <4>1. s = old
        BY <1>m, <2>4, <2>7, <3>2
      <4>2. after = before
        <5>1. CASE x = r
          <6>1. S = {}
            BY <1>m, <3>2, <5>1
          <6>2. received = before
            BY <1>m, <2>2, <5>1, <6>1
          <6>. QED BY <1>2, <1>r, <2>3, <5>1, <6>2
        <5>2. CASE x # r
          BY <1>3, <2>2, <2>3, <5>2
        <5>. QED BY <5>1, <5>2
      <4>. QED BY <2>2, <2>5, <2>6, <4>1, <4>2
    <3>. QED BY <3>1, <3>2
  <2>11. \A j \in DOMAIN new : PassSays(q, x, after + j, new[j][2])
    <3>1. CASE q = r
      <4>1. new = Append(s, <<l, m[x]>>)
        BY <2>8, <3>1
      <4>2. /\ DOMAIN s = 1 .. Len(s)
            /\ DOMAIN new = 1 .. (Len(s) + 1)
            /\ \A j \in 1 .. Len(s) : new[j] = s[j]
            /\ new[Len(s) + 1] = <<l, m[x]>>
        BY <2>10, <4>1, AppendFacts
      <4>3. PassSays(q, x, n, m[x]) /\ sent = SentCount(q) /\ n = sent + 1
        BY <1>s, <1>n, <1>m, <3>1
      <4>4. after + (Len(s) + 1) = n
        BY <2>5, <2>10, <4>3
      <4>5. ASSUME NEW j \in DOMAIN new PROVE PassSays(q, x, after + j, new[j][2])
        <5>1. CASE j \in 1 .. Len(s)
          BY <2>10, <4>2, <5>1
        <5>2. CASE j = Len(s) + 1
          <6>1. new[j][2] = m[x] /\ after + j = n
            BY <4>2, <4>4, <5>2
          <6>. QED BY <4>3, <6>1
        <5>. QED BY <2>10, <4>2, <5>1, <5>2
      <4>. QED BY <4>5
    <3>2. CASE q # r
      BY <2>8, <2>10, <3>2
    <3>. QED BY <3>1, <3>2
  <2>12. \A j \in DOMAIN new : PassSays(q, x, after + j, new[j][2])'
    BY <1>4, <2>11
  <2>. QED BY <2>3, <2>9, <2>12 DEF PassChannelOK, PassSays, ReceivedCount
<1>. QED BY <1>5 DEF PassMailOK

-----------------------------------------------------------------------------
(* The passes, one step after another.                                     *)

(* How many messages a rank has received from every other one.             *)
LEMMA PassCounts ==
  \A i \in Nat : /\ ReceivedBy("start", i) = 0 /\ ReceivedBy("counts", i) = 0
                 /\ ReceivedBy("seeds", i) = 1
                 /\ ReceivedBy("answers", i) = 2 + 2 * i
                 /\ ReceivedBy("done?", i) = 3 + 2 * i
<1> TAKE i \in Nat
<1>1. /\ SentBy("counts", i) = 1 /\ SentBy("seeds", i) = 2
      /\ SentBy("answers", i) = 3 + 2 * i /\ SentBy("done?", i) = 4 + 2 * i
  BY DEF SentBy
<1>. QED BY <1>1 DEF ReceivedBy

(* What a rank that distributes has in the invariant.                      *)
LEMMA PassState ==
  ASSUME PassInv, NEW r \in Ranks, pc[r] \in Distributing
  PROVE  /\ TypesOK /\ LocalOK /\ MailOK /\ MeshOK /\ EveryRankOwns
         /\ IsMail(mail) /\ DOMAIN pc = Ranks /\ ~Gone(r) /\ PassOK(r)
         /\ iter[r] \in {0, 1} /\ iter[r] \in Nat /\ MeshDimension \in Nat
         /\ MeshDimension >= 2
<1>1. TypesOK /\ LocalOK /\ MailOK /\ MeshOK /\ EveryRankOwns /\ PassOK(r)
  BY DEF PassInv, SyncInv, IndInv, TypesOK
<1>2. IsMail(mail) /\ DOMAIN pc = Ranks
  BY <1>1 DEF TypesOK, IsMail
<1>3. ~Gone(r)
  BY LabelFacts DEF Gone
<1>4. iter[r] \in Nat /\ iter[r] <= 1 /\ MeshDimension \in Nat /\ MeshDimension >= 2
  BY <1>1, CountFacts, MeshAssumption DEF PassOK
<1>. QED BY <1>1, <1>2, <1>3, <1>4

(* The first message from a rank that brings what a pass should.           *)
LEMMA PassMessage ==
  ASSUME PassInv, NEW q \in Ranks, NEW r \in Ranks, pc[r] \in Distributing,
         mail[q][r] # <<>>
  PROVE  PassSays(q, r, ReceivedCount(r) + 1, Message(q, r))
<1>1. MailOK /\ PassMailOK /\ ~Gone(r)
  BY PassState DEF PassInv
<1>2. IsSequence(mail[q][r])
  BY <1>1 DEF MailOK, ChannelOK
<1>3. 1 \in DOMAIN mail[q][r] /\ Head(mail[q][r]) = mail[q][r][1]
  BY <1>2, TailFacts
<1>. QED BY <1>1, <1>3 DEF PassMailOK, PassChannelOK, Message

(* Indices that a rank knows stay.                                         *)
LEMMA NearKept ==
  ASSUME UNCHANGED meshVars, MeshOK, NEW x \in Ranks, index'[x] = index[x]
  PROVE  Near(x)' = Near(x) /\ Complete(x)' = Complete(x)
<1>1. /\ LocalFaces(x)' = LocalFaces(x)
      /\ \A f : getEntityOwner(x, f)' = getEntityOwner(x, f)
      /\ \A o \in Ranks : Owned(o)' = Owned(o)
  BY MeshKept
<1>2. ASSUME NEW f \in LocalFaces(x)
      PROVE  (f \in Owned(getEntityOwner(x, f)))' = (f \in Owned(getEntityOwner(x, f)))
  <2>1. PICK o : o = getEntityOwner(x, f)
    OBVIOUS
  <2>2. o \in Ranks
    BY <2>1, OwnerIsRank
  <2>3. o = getEntityOwner(x, f)'
    BY <1>1, <2>1
  <2>4. Owned(getEntityOwner(x, f))' = Owned(o)'
    BY <2>3 DEF Owned
  <2>. QED BY <1>1, <2>1, <2>2, <2>4
<1>3. Near(x)' = Near(x)
  BY <1>1, <1>2 DEF Near
<1>. QED BY <1>3 DEF Complete

(* A rank that waits.                                                      *)
LEMMA PassKept ==
  ASSUME UNCHANGED meshVars, MeshOK, NEW x \in Ranks, PassOK(x),
         pc'[x] = pc[x], iter'[x] = iter[x], index'[x] = index[x]
  PROVE  PassOK(x)'
BY NearKept DEF PassOK

(* A rank goes on with the distribution.                                   *)
LEMMA PassStep ==
  ASSUME PassInv, SyncInv', UNCHANGED meshVars, NEW r \in Ranks,
         pc[r] \in Distributing, pc[r] = "done?" => ~Ends(iter[r]),
         \A x \in Ranks : x # r => index'[x] = index[x],
         NEW label \in Distributing, NEW S, NEW l, NEW m,
         PassMove(r, label, S, l, m),
         PassOK(r)'
  PROVE  PassInv'
<1>1. SyncInv /\ PassMailOK /\ MeshOK /\ DOMAIN pc = Ranks /\ \A x \in Ranks : PassOK(x)
  BY PassState DEF PassInv
<1>2. \A x \in Ranks : ~Gone(x)
  BY <1>1, NoneGone
<1>3. /\ \A x \in Ranks : x # r => pc'[x] = pc[x]
      /\ \A x \in Ranks : x # r => iter'[x] = iter[x]
  BY <1>1 DEF PassMove
<1>4. PassMailOK'
  BY <1>1, <1>2, PassMailStep
<1>5. ASSUME NEW x \in Ranks PROVE PassOK(x)'
  <2>1. CASE x = r
    BY <2>1
  <2>2. CASE x # r
    BY <1>1, <1>3, <2>2, PassKept
  <2>. QED BY <2>1, <2>2
<1>. QED BY <1>4, <1>5 DEF PassInv

(* A rank counts its faces and sends the count.                            *)
LEMMA CountEntitiesPasses ==
  ASSUME PassInv, SyncInv', NEW r \in Ranks, CountEntities(r)
  PROVE  PassInv'
<1>1. PICK m : mail' = Posted(mail, r, Ranks, "counts", m)
  BY DEF CountEntities
<1>2. /\ pc[r] = "start" /\ pc' = [pc EXCEPT ![r] = "counts"]
      /\ UNCHANGED <<meshVars, iter, index>>
  BY DEF CountEntities, Goto
<1>3. pc[r] \in Distributing /\ "counts" \in Distributing
  BY <1>2 DEF Distributing
<1>4. TypesOK /\ IsMail(mail) /\ DOMAIN pc = Ranks /\ PassOK(r) /\ iter[r] \in Nat
  BY <1>3, PassState
<1> DEFINE S == {}
<1>5. MailStep(r, S, Ranks, "counts", m) /\ S = {}
  BY <1>1, <1>4, MailSteps
<1>6. SentCount(r) = 0 /\ ReceivedCount(r) = 0 /\ ReceivedBy("counts", iter'[r]) = 0
  BY <1>2, <1>3, <1>4, CountFacts, PassCounts
<1>7. \A x \in Ranks : PassSays(r, x, SentCount(r) + 1, m[x])
  BY <1>6 DEF PassSays
<1>8. PassOK(r)'
  <2>1. pc'[r] = "counts"
    BY <1>2, <1>4
  <2>. QED BY <1>2, <1>4, <2>1 DEF PassOK
<1>9. PassMove(r, "counts", S, "counts", m)
  BY <1>2, <1>5, <1>6, <1>7 DEF PassMove
<1> HIDE DEF S
<1>. QED BY <1>2, <1>3, <1>8, <1>9, PassStep

(* A rank numbers its faces and sends its seeds.                           *)
LEMMA AssignIndicesPasses ==
  ASSUME PassInv, SyncInv', NEW r \in Ranks, AssignIndices(r)
  PROVE  PassInv'
<1>1. PICK m : mail' = Exchanged(r, "seeds", m)
  BY DEF AssignIndices
<1>2. /\ pc[r] = "counts" /\ pc' = [pc EXCEPT ![r] = "seeds"] /\ Arrived(r, Ranks)
      /\ UNCHANGED <<meshVars, iter>>
  BY DEF AssignIndices, Goto
<1>3. pc[r] \in Distributing /\ "seeds" \in Distributing
  BY <1>2 DEF Distributing
<1>4. TypesOK /\ IsMail(mail) /\ DOMAIN pc = Ranks /\ PassOK(r) /\ iter[r] \in Nat
  BY <1>3, PassState
<1>5. MailStep(r, Ranks, Ranks, "seeds", m)
  BY <1>1, <1>4, MailSteps DEF Exchanged
<1>6. SentCount(r) = 1 /\ ReceivedCount(r) = 0 /\ ReceivedBy("seeds", iter'[r]) = 1
  <2>1. SentCount(r) = 1 /\ ReceivedCount(r) = 0
    BY <1>2, <1>3, <1>4, CountFacts
  <2>. QED BY <1>2, <1>4, <2>1, PassCounts
<1>7. \A x \in Ranks : PassSays(r, x, SentCount(r) + 1, m[x])
  BY <1>6 DEF PassSays
<1>8. PassOK(r)'
  <2>1. pc'[r] = "seeds"
    BY <1>2, <1>4
  <2>. QED BY <1>2, <1>4, <2>1 DEF PassOK
<1>9. PassMove(r, "seeds", Ranks, "seeds", m)
  BY <1>2, <1>5, <1>6, <1>7 DEF PassMove
<1>10. \A x \in Ranks : x # r => index'[x] = index[x]
  BY <1>4 DEF AssignIndices, TypesOK
<1>. QED BY <1>2, <1>3, <1>8, <1>9, <1>10, PassStep

(* Answers: in the first pass of owners, in the second one of all ranks    *)
(* that have a cell of the face.                                           *)
LEMMA AnswersPass ==
  ASSUME PassInv, SyncInv', NEW r \in Ranks, pc[r] \in {"seeds", "done?"},
         pc[r] = "done?" => ~Ends(iter[r]), Arrived(r, Ranks),
         UNCHANGED <<meshVars, index>>,
         NEW seeds, seeds = [q \in Ranks |-> Asked(q, r)], SendAnswers(r, seeds),
         \A x \in Ranks : x # r => iter'[x] = iter[x],
         NEW i \in {0, 1}, iter'[r] = i, SentCount(r) = 2 + 2 * i, i = 1 => Near(r)
  PROVE  PassInv'
<1>1. pc[r] \in Distributing /\ "answers" \in Distributing /\ pc[r] # "start"
  BY DEF Distributing
<1>2. /\ TypesOK /\ IsMail(mail) /\ DOMAIN pc = Ranks /\ PassOK(r) /\ iter[r] \in Nat
      /\ MeshOK /\ EveryRankOwns /\ OwnersOK(r) /\ IndicesOK(r)
  BY <1>1, PassState DEF LocalOK
<1>3. PICK m : m = [q \in Ranks |-> Answer(r, seeds, q)]
  OBVIOUS
<1>4. pc' = [pc EXCEPT ![r] = "answers"] /\ mail' = Exchanged(r, "answers", m)
  <2>1. ~LookupFails(r, seeds)
    BY <1>1, <1>2, LookupsSucceed
  <2>. QED BY <1>3, <2>1 DEF SendAnswers, Goto
<1>5. MailStep(r, Ranks, Ranks, "answers", m)
  BY <1>2, <1>4, MailSteps DEF Exchanged
<1>6. ReceivedBy("answers", iter'[r]) = 2 + 2 * i /\ ReceivedCount(r) + 1 = 2 + 2 * i
      /\ Ranks # {}
  <2>1. SentCount(r) = ReceivedCount(r) + 1
    BY <1>1, <1>2, CountFacts
  <2>. QED BY <2>1, PassCounts
<1>7. ASSUME NEW x \in Ranks, NEW f \in Asked(x, r) PROVE m[x][f] = index[r][f]
  <2>1. m[x][f] = index[r][CHOOSE g \in Common(r, f) : TRUE]
    BY <1>3 DEF Answer
  <2>2. Common(r, f) = {f}
    BY <1>1, <1>2, CommonFace
  <2>. QED BY <2>1, <2>2
<1>8. ASSUME NEW x \in Ranks, NEW f \in Asked(x, r), i = 0, f \in Owned(r)
      PROVE  m[x][f] # Padding
  <2>1. index[r][f] = TrueIndex(r, f) /\ TrueIndex(r, f) \in Nat
    BY <1>2, <1>8, IndexRange DEF IndicesOK
  <2>. QED BY <1>7, <2>1 DEF Padding
<1>9. ASSUME NEW x \in Ranks, NEW f \in Asked(x, r), i = 1
      PROVE  m[x][f] # Padding
  <2>1. PICK c \in Mine(r) : f \subseteq c
    BY <1>2, AskedHasCell
  <2>2. f \in LocalFaces(r)
    BY <1>2, AskedHasCell
  <2>3. f \in Owned(getEntityOwner(r, f))
    BY <1>2, <2>1, <2>2, CellShowsOwner
  <2>. QED BY <1>7, <1>9, <2>2, <2>3 DEF Near
<1>10. SentCount(r) + 1 = 3 + 2 * i
  OBVIOUS
<1>11. \A x \in Ranks : PassSays(r, x, SentCount(r) + 1, m[x])
  BY <1>8, <1>9, <1>10 DEF PassSays
<1>12. PassOK(r)'
  <2>1. pc'[r] = "answers" /\ iter'[r] = i
    BY <1>2, <1>4
  <2>2. Near(r)' = Near(r)
    BY <1>2, NearKept
  <2>. QED BY <2>1, <2>2 DEF PassOK
<1>13. PassMove(r, "answers", Ranks, "answers", m)
  BY <1>4, <1>5, <1>6, <1>11 DEF PassMove
<1>. QED BY <1>1, <1>12, <1>13, PassStep

(* A rank sets the indices of its ghosts: those whose owners it knows in   *)
(* the first pass, all in the second one.                                  *)
LEMMA SetGhostIndicesPasses ==
  ASSUME PassInv, SyncInv', NEW r \in Ranks, SetGhostIndices(r)
  PROVE  PassInv'
<1>1. /\ pc[r] = "answers" /\ pc' = [pc EXCEPT ![r] = "done?"] /\ Arrived(r, Ranks)
      /\ UNCHANGED <<meshVars, iter>>
  BY DEF SetGhostIndices, Goto
<1>2. pc[r] \in Distributing /\ "done?" \in Distributing /\ pc[r] # "start"
  BY <1>1 DEF Distributing
<1>3. /\ TypesOK /\ IsMail(mail) /\ DOMAIN pc = Ranks /\ PassOK(r) /\ iter[r] \in {0, 1}
      /\ iter[r] \in Nat /\ MeshOK /\ OwnersOK(r) /\ IndicesOK(r) /\ DOMAIN index = Ranks
  BY <1>2, PassState DEF LocalOK, TypesOK
<1>4. /\ Faces(r) = LocalFaces(r)
      /\ \A f \in LocalFaces(r) : owner[r][f] = getEntityOwner(r, f)
      /\ GhostFaces(r) = LocalFaces(r) \ Owned(r)
  BY <1>2, <1>3, OwnersKnown
<1>5. /\ DOMAIN index'[r] = LocalFaces(r)
      /\ \A f \in GhostFaces(r) : index'[r][f] = Message(owner[r][f], r)[f]
      /\ \A f \in Owned(r) : index'[r][f] = index[r][f]
      /\ \A x \in Ranks : x # r => index'[x] = index[x]
  <2>1. Owned(r) \subseteq LocalFaces(r)
    BY DEF Owned
  <2>. QED BY <1>3, <1>4, <2>1 DEF SetGhostIndices
<1> DEFINE g == [f \in GhostFaces(r) |-> Message(owner[r][f], r)[f]]
           d == \A f \in GhostFaces(r) : g[f] # Padding
<1>6. PICK m : m = [q \in Ranks |-> d]
  OBVIOUS
<1>7. mail' = Exchanged(r, "done?", m)
  BY <1>6 DEF SetGhostIndices
<1>8. (\A f \in GhostFaces(r) : Message(owner[r][f], r)[f] # Padding)
        => \A x \in Ranks : m[x] = TRUE
  BY <1>6
<1> HIDE DEF g, d
<1>9. MailStep(r, Ranks, Ranks, "done?", m)
  BY <1>3, <1>7, MailSteps DEF Exchanged
<1>10. /\ SentCount(r) = 3 + 2 * iter[r] /\ ReceivedCount(r) + 1 = 3 + 2 * iter[r]
       /\ ReceivedBy("done?", iter'[r]) = 3 + 2 * iter[r] /\ Ranks # {}
  <2>1. SentCount(r) = 3 + 2 * iter[r] /\ SentCount(r) = ReceivedCount(r) + 1
    BY <1>1, <1>2, <1>3, CountFacts
  <2>. QED BY <1>1, <1>3, <2>1, PassCounts
<1>11. \A f \in Owned(r) : index'[r][f] # Padding
  <2> TAKE f \in Owned(r)
  <2>1. index[r][f] = TrueIndex(r, f) /\ TrueIndex(r, f) \in Nat
    BY <1>1, <1>3, IndexRange DEF IndicesOK
  <2>. QED BY <1>5, <2>1 DEF Padding
<1>12. ASSUME NEW f \in GhostFaces(r),
              iter[r] = 1 \/ f \in Owned(getEntityOwner(r, f))
       PROVE  index'[r][f] # Padding
  <2>1. PICK q : q = getEntityOwner(r, f)
    OBVIOUS
  <2>2. f \in LocalFaces(r) /\ f \notin Owned(r) /\ q # r /\ owner[r][f] = q
    BY <1>4, <2>1 DEF Owned
  <2>3. q \in Ranks
    BY <1>3, <2>1, <2>2, OwnerIsRank
  <2>4. f \in Asked(r, q)
    BY <2>1, <2>2 DEF Asked
  <2>5. PICK n, v : n = ReceivedCount(r) + 1 /\ v = Message(q, r)
    OBVIOUS
  <2>6. PassSays(q, r, n, v) /\ n = 3 + 2 * iter[r]
    BY <1>1, <1>2, <1>10, <2>3, <2>5, PassMessage DEF Arrived
  <2>7. v[f] # Padding
    <3>1. CASE iter[r] = 1
      BY <2>4, <2>6, <3>1 DEF PassSays
    <3>2. CASE iter[r] = 0
      <4>1. f \in Owned(q)
        BY <1>12, <2>1, <3>2
      <4>. QED BY <2>4, <2>6, <3>2, <4>1 DEF PassSays
    <3>. QED BY <1>3, <3>1, <3>2
  <2>. QED BY <1>5, <2>2, <2>5, <2>7
<1>13. Near(r)' /\ (iter[r] = 1 => Complete(r)')
  <2>1. \A f \in LocalFaces(r) : f \in GhostFaces(r) \/ f \in Owned(r)
    BY <1>4
  <2>2. \A f \in LocalFaces(r) :
          iter[r] = 1 \/ f \in Owned(getEntityOwner(r, f)) => index'[r][f] # Padding
    BY <1>11, <1>12, <2>1
  <2>3. ASSUME NEW f \in LocalFaces(r)', (f \in Owned(getEntityOwner(r, f)))'
        PROVE  index'[r][f] # Padding
    <3>1. f \in LocalFaces(r) /\ getEntityOwner(r, f)' = getEntityOwner(r, f)
      BY <1>1, <2>3, MeshKept
    <3>2. PICK o \in Ranks : o = getEntityOwner(r, f)
      BY <1>3, <3>1, OwnerIsRank
    <3>3. o = getEntityOwner(r, f)'
      BY <3>1, <3>2
    <3>4. f \in Owned(o)'
      BY <2>3, <3>3 DEF Owned
    <3>5. f \in Owned(o)
      BY <1>1, <3>4, MeshKept
    <3>. QED BY <2>2, <3>1, <3>2, <3>5
  <2>4. Near(r)'
    BY <2>3 DEF Near
  <2>5. iter[r] = 1 => Complete(r)'
    BY <1>5, <2>2 DEF Complete
  <2>. QED BY <2>4, <2>5
<1>14. \A x \in Ranks : PassSays(r, x, SentCount(r) + 1, m[x])
  <2>1. iter[r] = 1 => \A x \in Ranks : m[x] = TRUE
    BY <1>5, <1>8, <1>12
  <2>2. SentCount(r) + 1 = 4 + 2 * iter[r]
    BY <1>3, <1>10
  <2>3. SentCount(r) + 1 = 4 \/ (SentCount(r) + 1 = 6 /\ iter[r] = 1)
    BY <1>3, <2>2
  <2>. QED BY <2>1, <2>3 DEF PassSays
<1>15. PassOK(r)'
  <2>1. pc'[r] = "done?" /\ iter'[r] = iter[r]
    BY <1>1, <1>3
  <2>. QED BY <1>3, <1>13, <2>1 DEF PassOK
<1>16. PassMove(r, "done?", Ranks, "done?", m)
  BY <1>1, <1>9, <1>10, <1>14 DEF PassMove
<1>. QED BY <1>1, <1>2, <1>5, <1>15, <1>16, PassStep

(* A rank that leaves, or has left, does not disturb those that distribute.*)
LEMMA PassMailLeaves ==
  ASSUME SyncInv, PassMailOK, UNCHANGED meshVars, NEW r \in Ranks, Gone(r)',
         \A x \in Ranks : x # r => pc'[x] = pc[x] /\ iter'[x] = iter[x],
         Later(r, mail'),
         Gone(r) \/ \A x \in Ranks : x # r => mail'[r][x] = mail[r][x]
  PROVE  PassMailOK'
<1>1. \A q \in Ranks, x \in Ranks : \A k, v : PassSays(q, x, k, v)' = PassSays(q, x, k, v)
  BY MeshKept DEF PassSays
<1>2. ASSUME NEW q \in Ranks, NEW x \in Ranks, ~Gone(x)',
             NEW j \in DOMAIN mail'[q][x], Gone(q)' => j = 1
      PROVE  PassSays(q, x, ReceivedCount(x) + j, mail[q][x][j][2])'
  <2>1. /\ x # r /\ ~Gone(x) /\ ReceivedCount(x)' = ReceivedCount(x)
        /\ PassChannelOK(q, x)
    BY <1>2 DEF Gone, ReceivedCount, PassMailOK
  <2>2. j \in DOMAIN mail[q][x] /\ mail'[q][x][j] = mail[q][x][j]
        /\ (Gone(q) => j = 1)
    <3>1. CASE q # r
      <4>1. mail'[q][x] = mail[q][x] /\ Gone(q)' = Gone(q)
        BY <2>1, <3>1 DEF Later, Gone
      <4>. QED BY <1>2, <4>1
    <3>2. CASE q = r /\ mail'[r][x] = mail[r][x]
      BY <1>2, <3>2
    <3>3. CASE q = r /\ mail'[r][x] # mail[r][x]
      <4>1. Gone(r) /\ j = 1
        BY <1>2, <2>1, <3>3
      <4>2. PICK e : mail'[r][x] = Append(mail[r][x], e)
        BY <2>1, <3>3 DEF Later
      <4>3. IsSequence(mail[r][x]) /\ mail[r][x] # <<>>
        BY <2>1, <4>1 DEF SyncInv, LaterMailOK, LaterChannelOK
      <4>4. /\ 1 \in DOMAIN mail[r][x] /\ DOMAIN mail[r][x] = 1 .. Len(mail[r][x])
            /\ mail'[r][x][1] = mail[r][x][1]
        BY <4>2, <4>3, AppendFacts, TailFacts
      <4>. QED BY <3>3, <4>1, <4>4
    <3>. QED BY <3>1, <3>2, <3>3
  <2>3. PICK n, v : n = ReceivedCount(x) + j /\ v = mail[q][x][j][2]
    OBVIOUS
  <2>4. PassSays(q, x, n, v)
    BY <2>1, <2>2, <2>3 DEF PassChannelOK
  <2>5. PassSays(q, x, n, v)'
    BY <1>1, <2>4
  <2>6. n = (ReceivedCount(x) + j)' /\ v = (mail[q][x][j][2])'
    BY <2>1, <2>2, <2>3
  <2>. QED BY <2>5, <2>6 DEF PassSays
<1>. QED BY <1>2 DEF PassMailOK, PassChannelOK

(* A rank begins the second pass, or ends the last one and does not throw. *)
LEMMA RepeatPasses ==
  ASSUME PassInv, SyncInv', NEW r \in Ranks, Repeat(r)
  PROVE  PassInv'
<1>1. /\ pc[r] = "done?" /\ Arrived(r, Ranks)
      /\ UNCHANGED <<meshVars, owner, index, foreign>>
  BY DEF Repeat
<1>2. pc[r] \in Distributing /\ pc[r] # "start"
  BY <1>1 DEF Distributing
<1>3. /\ TypesOK /\ IsMail(mail) /\ DOMAIN pc = Ranks /\ PassOK(r) /\ iter[r] \in {0, 1}
      /\ iter[r] \in Nat /\ MeshOK /\ OwnersOK(r) /\ IndicesOK(r) /\ SeedsOK(r)
      /\ MeshDimension \in Nat /\ MeshDimension >= 2 /\ IndInv /\ SyncInv /\ PassMailOK
      /\ \A x \in Ranks : PassOK(x)
  BY <1>2, PassState DEF LocalOK, PassInv, SyncInv
<1>4. LastPass(r) <=> Ends(iter[r])
  BY <1>1, <1>3, LastPassEnds
<1>5. SentCount(r) = 4 + 2 * iter[r] /\ ReceivedCount(r) + 1 = 4 + 2 * iter[r]
  BY <1>1, <1>2, <1>3, CountFacts
<1>6. iter[r] = 1 => LastPass(r)
  <2> SUFFICES ASSUME iter[r] = 1, NEW q \in Ranks PROVE Message(q, r)
    BY DEF LastPass
  <2>1. PICK n, v : n = ReceivedCount(r) + 1 /\ v = Message(q, r)
    OBVIOUS
  <2>2. PassSays(q, r, n, v) /\ n = 6
    BY <1>1, <1>2, <1>5, <2>1, PassMessage DEF Arrived
  <2>. QED BY <2>1, <2>2 DEF PassSays
<1>7. CASE ~LastPass(r)
  <2>1. SendAnswers(r, foreign[r]) /\ iter' = [iter EXCEPT ![r] = iter[r] + 1]
    BY <1>3, <1>7 DEF Repeat, TypesOK
  <2>2. iter[r] = 0 /\ ~Ends(iter[r])
    BY <1>3, <1>4, <1>6, <1>7
  <2>3. iter'[r] = 1 /\ \A x \in Ranks : x # r => iter'[x] = iter[x]
    BY <1>3, <2>1, <2>2 DEF TypesOK
  <2>4. PICK seeds : seeds = foreign[r]
    OBVIOUS
  <2>5. seeds = [q \in Ranks |-> Asked(q, r)] /\ SendAnswers(r, seeds)
    BY <1>1, <1>3, <2>1, <2>4 DEF SeedsOK, SendAnswers
  <2>6. PICK i \in {0, 1} : i = 1
    OBVIOUS
  <2>7. iter'[r] = i /\ SentCount(r) = 2 + 2 * i
    BY <1>5, <2>2, <2>3, <2>6
  <2>8. Near(r)
    BY <1>1, <1>3 DEF PassOK
  <2>. QED BY <1>1, <2>2, <2>3, <2>5, <2>7, <2>8, AnswersPass
<1>8. CASE LastPass(r)
  <2>1. Complete(r)
    <3>1. CASE iter[r] + 1 = MeshDimension
      <4>1. iter[r] = 1
        BY <1>3, <3>1
      <4>. QED BY <1>1, <1>3, <4>1 DEF PassOK
    <3>2. CASE iter[r] + 1 # MeshDimension
      BY <1>4, <1>8, <3>2 DEF Ends
    <3>. QED BY <3>1, <3>2
  <2>2. ~ \E f \in Faces(r) : index[r][f] = Padding
    <3>1. Faces(r) = LocalFaces(r) /\ DOMAIN index[r] = LocalFaces(r)
      BY <1>1, <1>2, <1>3, OwnersKnown DEF IndicesOK, ValidIndices
    <3>. QED BY <2>1, <3>1 DEF Complete
  <2>3. /\ pc' = [pc EXCEPT ![r] = "distributed"] /\ mail' = Taken(r, Ranks)
        /\ iter' = iter
    BY <1>8, <2>2 DEF Repeat, Goto
  <2>4. pc'[r] = "distributed" /\ \A x \in Ranks : x # r => pc'[x] = pc[x]
    BY <1>3, <2>3
  <2>5. Gone(r)'
    BY <2>4 DEF Gone, Synchronizing
  <2>6. Later(r, mail') /\ \A x \in Ranks : x # r => mail'[r][x] = mail[r][x]
    BY <1>3, <2>3, LaterBox, TakenBox
  <2>7. PassMailOK'
    BY <1>1, <1>3, <2>3, <2>4, <2>5, <2>6, PassMailLeaves
  <2>8. ASSUME NEW x \in Ranks PROVE PassOK(x)'
    <3>1. CASE x = r
      BY <1>3, <2>3, <2>4, <3>1 DEF PassOK
    <3>2. CASE x # r
      BY <1>1, <1>3, <2>3, <2>4, <3>2, PassKept
    <3>. QED BY <3>1, <3>2
  <2>. QED BY <2>7, <2>8 DEF PassInv
<1>. QED BY <1>7, <1>8

(* A rank that synchronizes does not throw either.                         *)
LEMMA SynchronizePasses ==
  ASSUME PassInv, SyncInv', NEW r \in Ranks, SynchronizeStep(r)
  PROVE  PassInv'
<1>1. /\ SyncInv /\ PassMailOK /\ IndInv /\ TypesOK /\ MeshOK /\ DOMAIN pc = Ranks
      /\ IndInv' /\ \A x \in Ranks : PassOK(x)
  BY DEF PassInv, SyncInv, IndInv, TypesOK
<1>2. PICK label \in Synchronizing \union {"failed"} :
        /\ pc[r] \in Synchronizing /\ pc' = [pc EXCEPT ![r] = label]
        /\ UNCHANGED <<meshVars, iter, owner, index, foreign>> /\ Later(r, mail')
  BY <1>1, SynchronizeEffect DEF SyncEffect
<1>3. pc'[r] = label /\ \A x \in Ranks : x # r => pc'[x] = pc[x]
  BY <1>1, <1>2
<1>4. Gone(r) /\ Gone(r)'
  BY <1>2, <1>3 DEF Gone
<1>5. pc'[r] # "failed" /\ pc'[r] \notin Distributing
  <2>1. CASE CountGhosts(r)
    <3>1. pc' = [pc EXCEPT ![r] = "ghostCounts"]
      BY <1>1, <2>1, CountGhostsKeeps
    <3>. QED BY <1>1, <3>1 DEF Distributing
  <2>2. CASE ExchangeOffsets(r) \/ SendGhosts(r) \/ FinishInitialize(r)
    BY <1>1, <2>2 DEF ExchangeOffsets, SendGhosts, FinishInitialize, Goto, Distributing
  <2>3. CASE Synchronize(r) \/ FinishSynchronize(r)
    BY <1>1, <2>3 DEF Synchronize, FinishSynchronize, Goto, Distributing
  <2>. QED BY <2>1, <2>2, <2>3 DEF SynchronizeStep
<1>6. PassMailOK'
  BY <1>1, <1>2, <1>3, <1>4, PassMailLeaves
<1>7. ASSUME NEW x \in Ranks PROVE PassOK(x)'
  <2>1. CASE x = r
    BY <1>1, <1>2, <1>5, <2>1 DEF PassOK, Distributing
  <2>2. CASE x # r
    BY <1>1, <1>2, <1>3, <2>2, PassKept
  <2>. QED BY <2>1, <2>2
<1>. QED BY <1>6, <1>7 DEF PassInv

(* The invariant holds initially and is kept.                              *)
LEMMA PassInvariant ==
  /\ SyncInit /\ EveryRankOwns => PassInv
  /\ PassInv /\ [Next]_allVars => PassInv'
<1>1. ASSUME SyncInit, EveryRankOwns PROVE PassInv
  <2>1. /\ \A r \in Ranks : pc[r] = "start" /\ iter[r] = 0
        /\ \A q, r \in Ranks : mail[q][r] = <<>>
    BY <1>1 DEF SyncInit, Init
  <2>2. PassMailOK
    BY <2>1 DEF PassMailOK, PassChannelOK
  <2>3. \A r \in Ranks : PassOK(r)
    BY <2>1 DEF PassOK
  <2>. QED BY <1>1, <2>2, <2>3, SyncInitEstablishes DEF PassInv
<1>2. ASSUME PassInv, [Next]_allVars PROVE PassInv'
  <2>1. SyncInv /\ SyncInv' /\ MeshOK /\ PassMailOK /\ \A x \in Ranks : PassOK(x)
    BY <1>2, SyncNextKeeps DEF PassInv, SyncInv, IndInv, TypesOK
  <2>2. CASE UNCHANGED allVars
    <3>1. /\ UNCHANGED meshVars /\ pc' = pc /\ iter' = iter /\ index' = index
          /\ mail' = mail
      BY <2>2 DEF allVars, vars
    <3>2. \A x \in Ranks : PassOK(x)'
      BY <2>1, <3>1, PassKept
    <3>3. \A q \in Ranks, x \in Ranks : \A n, v : PassSays(q, x, n, v)' = PassSays(q, x, n, v)
      BY <3>1, MeshKept DEF PassSays
    <3>4. PassMailOK'
      BY <2>1, <3>1, <3>3 DEF PassMailOK, PassChannelOK, Gone, ReceivedCount
    <3>. QED BY <2>1, <3>2, <3>4 DEF PassInv
  <2>3. ASSUME NEW r \in Ranks, RankStep(r) PROVE PassInv'
    <3>1. CASE ReceiveSeeds(r)
      <4>1. pc[r] = "seeds" /\ UNCHANGED <<meshVars, index, iter>> /\ Arrived(r, Ranks)
        BY <3>1 DEF ReceiveSeeds
      <4>2. PICK seeds : seeds = [q \in Ranks |-> Message(q, r)]
        OBVIOUS
      <4>3. SendAnswers(r, seeds)
        BY <3>1, <4>2 DEF ReceiveSeeds
      <4>4. seeds = [q \in Ranks |-> Asked(q, r)]
        BY <2>1, <4>1, <4>2, SeedsReceived DEF SyncInv
      <4>5. pc[r] \in Distributing /\ TypesOK
        BY <2>1, <4>1 DEF Distributing, SyncInv, IndInv
      <4>6. iter'[r] = 0 /\ SentCount(r) = 2
        BY <4>1, <4>5, CountFacts DEF TypesOK
      <4>7. PICK i \in {0, 1} : i = 0
        OBVIOUS
      <4>8. iter'[r] = i /\ SentCount(r) = 2 + 2 * i /\ i # 1
        BY <4>6, <4>7
      <4>. QED BY <1>2, <2>1, <4>1, <4>3, <4>4, <4>8, AnswersPass
    <3>. QED BY <1>2, <2>1, <2>3, <3>1, CountEntitiesPasses, AssignIndicesPasses,
                SetGhostIndicesPasses, RepeatPasses, SynchronizePasses
             DEF RankStep, DistributeStep
  <2>. QED BY <1>2, <2>2, <2>3 DEF Next, Finished
<1>. QED BY <1>1, <1>2

(* If every rank owns a vertex and a face, no rank throws: the vertices of *)
(* all faces that are asked for are found, no global index is left unset   *)
(* after the passes, and no rank takes a ghost for one of its own faces    *)
(* (distributeSubentities, DistributedMeshSynchronizer::initialize).       *)
THEOREM NoRankEverThrows ==
  /\ Spec /\ EveryRankOwns => []NoRankThrows
  /\ ~ToleratedEmpty => (Spec => []NoRankThrows)
<1>1. /\ SyncInit /\ EveryRankOwns => PassInv
      /\ PassInv /\ [Next]_allVars => PassInv'
  BY PassInvariant
<1>2. PassInv => NoRankThrows
  BY DEF PassInv, PassOK, NoRankThrows
<1>3. ~ToleratedEmpty => (SyncInit => EveryRankOwns)
  BY EveryRankOwnsInitially
<1>. QED BY <1>1, <1>2, <1>3, PTL DEF Spec

(* "maybe 2 iterations are always enough" (distributeSubentities.h:282):   *)
(* under the same condition they are, in any dimension.                    *)
THEOREM TwoPassesSuffice ==
  Spec /\ EveryRankOwns => [](\A r \in Ranks : iter[r] <= 1)
<1>1. /\ SyncInit /\ EveryRankOwns => PassInv
      /\ PassInv /\ [Next]_allVars => PassInv'
  BY PassInvariant
<1>2. PassInv => \A r \in Ranks : iter[r] <= 1
  BY DEF PassInv, PassOK
<1>. QED BY <1>1, <1>2, PTL DEF Spec
=============================================================================
