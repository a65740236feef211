------------------------- MODULE Partitioner_proofs -------------------------
(***************************************************************************)
(* Proofs about the block distribution, for every global size and every    *)
(* number of partitions, and about the program of MCPartitioner that asks  *)
(* for all of them, for every bound.                                       *)
(***************************************************************************)
EXTENDS MCPartitioner, Integers, TLAPS

(* Integer division, characterised by its two bounds. *)
LEMMA DivBounds ==
  ASSUME NEW a \in Nat, NEW b \in Nat \ {0}
  PROVE  /\ a \div b \in Nat
         /\ b * (a \div b) <= a
         /\ a < b * ((a \div b) + 1)
OBVIOUS

(* A multiple of b below a bounds the quotient from below. *)
LEMMA DivLower ==
  ASSUME NEW a \in Nat, NEW b \in Nat \ {0}, NEW q \in Nat, b * q <= a
  PROVE  q <= a \div b
<1> DEFINE d == a \div b
<1>1. d \in Nat /\ a < b * (d + 1)
  BY DivBounds
<1> HIDE DEF d
<1>2. b * q < b * (d + 1)
  BY <1>1
<1>3. q < d + 1
  BY <1>2, <1>1
<1>. QED BY <1>3, <1>1 DEF d

(* A multiple of b that is not above a bounds the quotient from above. *)
LEMMA DivUpper ==
  ASSUME NEW a \in Nat, NEW b \in Nat \ {0}, NEW q \in Nat, a <= b * q
  PROVE  a \div b <= q
<1> DEFINE d == a \div b
<1>1. d \in Nat /\ b * d <= a
  BY DivBounds
<1> HIDE DEF d
<1>2. b * d <= b * q
  BY <1>1
<1>3. d <= q
  BY <1>2, <1>1
<1>. QED BY <1>3 DEF d

(* The offsets start at 0 and end at the global size. *)
LEMMA OffsetEnds ==
  ASSUME NEW G \in Nat, NEW P \in Nat \ {0}
  PROVE  getOffset(G, 0, P) = 0 /\ getOffset(G, P, P) = G
<1>1. getOffset(G, 0, P) = 0
  BY DEF getOffset
<1>2. P * G \in Nat
  OBVIOUS
<1>3. G <= (P * G) \div P /\ (P * G) \div P <= G
  BY <1>2, DivLower, DivUpper
<1>4. (P * G) \div P \in Nat
  BY <1>2, DivBounds
<1>. QED BY <1>1, <1>3, <1>4 DEF getOffset

(* Offsets are natural numbers that never decrease with the rank. *)
LEMMA OffsetMonotone ==
  ASSUME NEW G \in Nat, NEW P \in Nat \ {0}, NEW r \in Nat
  PROVE  /\ getOffset(G, r, P) \in Nat
         /\ getOffset(G, r, P) <= getOffset(G, r + 1, P)
<1>1. r * G \in Nat /\ (r + 1) * G \in Nat /\ r * G <= (r + 1) * G
  OBVIOUS
<1> DEFINE d == (r * G) \div P
<1>2. d \in Nat /\ P * d <= r * G
  BY <1>1, DivBounds
<1>3. P * d <= (r + 1) * G
  <2>1. P * d \in Nat
    BY <1>2
  <2>. QED BY <1>1, <1>2, <2>1
<1> HIDE DEF d
<1>4. d <= ((r + 1) * G) \div P
  BY <1>1, <1>2, <1>3, DivLower
<1>. QED BY <1>2, <1>4 DEF getOffset, d

(***************************************************************************)
(* getOwner is correct whenever no rank is empty-handed: with at least as  *)
(* many elements as partitions, the rank it returns exists and owns the    *)
(* index, so neither assertion at the end of getOwner can fail.            *)
(***************************************************************************)
THEOREM OwnerCorrect ==
  ASSUME NEW G \in Nat \ {0}, NEW P \in Nat \ {0}, P <= G,
         NEW k \in 0 .. (G - 1)
  PROVE  /\ getOwner(k, G, P) \in 0 .. (P - 1)
         /\ OwnsIndex(k, G, P, getOwner(k, G, P))
<1> DEFINE o == ownerGuess(k, G, P)
<1>1. k * P \in Nat
  OBVIOUS
<1>2. /\ o \in Nat
      /\ G * o <= k * P
      /\ k * P < G * (o + 1)
  BY <1>1, DivBounds DEF ownerGuess
<1> HIDE DEF o
<1>3. o < P
  <2>1. k * P < G * P
    OBVIOUS
  <2>2. G * o < G * P
    BY <1>2, <2>1, <1>1
  <2>. QED BY <2>2, <1>2
<1>4. getOffset(G, o, P) <= k
  <2>1. o * G <= P * k
    BY <1>2
  <2>2. o * G \in Nat
    BY <1>2
  <2>. QED BY <2>1, <2>2, DivUpper DEF getOffset
<1>5. CASE o < P - 1 /\ k >= getOffset(G, o + 1, P)
  <2>1. getOwner(k, G, P) = o + 1
    BY <1>5 DEF getOwner, o
  <2>2. P * (k + 1) <= (o + 2) * G
    <3>1. (o + 2) * G = G * (o + 1) + G
      BY <1>2
    <3>2. P * (k + 1) = k * P + P
      OBVIOUS
    <3>3. G * (o + 1) \in Nat
      BY <1>2
    <3>. QED BY <3>1, <3>2, <3>3, <1>1, <1>2
  <2>3. (o + 2) * G \in Nat
    BY <1>2
  <2>4. k + 1 <= ((o + 2) * G) \div P
    BY <2>2, <2>3, DivLower
  <2>5. ((o + 2) * G) \div P \in Nat
    BY <2>3, DivBounds
  <2>6. getOffset(G, (o + 1) + 1, P) = ((o + 2) * G) \div P
    BY <1>2 DEF getOffset
  <2>. QED BY <1>2, <1>5, <2>1, <2>4, <2>5, <2>6 DEF OwnsIndex
<1>6. CASE ~(o < P - 1 /\ k >= getOffset(G, o + 1, P))
  <2>1. getOwner(k, G, P) = o
    BY <1>6 DEF getOwner, o
  <2>2. getOffset(G, o + 1, P) \in Nat
    BY <1>2, OffsetMonotone
  <2>3. k < getOffset(G, o + 1, P)
    <3>1. CASE o < P - 1
      BY <3>1, <1>6, <2>2
    <3>2. CASE o = P - 1
      <4>1. o + 1 = P
        BY <3>2
      <4>2. getOffset(G, o + 1, P) = G
        BY <4>1, OffsetEnds
      <4>. QED BY <4>2
    <3>. QED BY <3>1, <3>2, <1>2, <1>3
  <2>. QED BY <1>2, <1>3, <1>4, <2>1, <2>3 DEF OwnsIndex
<1>. QED BY <1>5, <1>6

-----------------------------------------------------------------------------
(* The last rank whose data start at or before index k. *)
lastRank(k, G, P) == ((k + 1) * P - 1) \div G

(* An offset is at or before k exactly for the ranks up to lastRank. *)
LEMMA OffsetBefore ==
  ASSUME NEW G \in Nat \ {0}, NEW P \in Nat \ {0}, NEW k \in Nat, NEW r \in Nat
  PROVE  /\ lastRank(k, G, P) \in Nat
         /\ getOffset(G, r, P) \in Nat
         /\ getOffset(G, r, P) <= k <=> r <= lastRank(k, G, P)
<1> DEFINE last == (k + 1) * P - 1
           q == last \div G
           d == (r * G) \div P
<1>1. r * G \in Nat /\ (k + 1) * P \in Nat /\ (k + 1) * P >= 1
  <2>1. (k + 1) * P = k * P + P /\ k * P \in Nat
    OBVIOUS
  <2>. QED BY <2>1
<1>2. last \in Nat
  BY <1>1
<1>3. d \in Nat /\ P * d <= r * G /\ r * G < P * (d + 1)
  BY <1>1, DivBounds
<1> HIDE DEF last
<1>4. q \in Nat /\ G * q <= last /\ last < G * (q + 1)
  BY <1>2, DivBounds
<1> HIDE DEF q, d
<1>5. ASSUME d <= k PROVE r <= q
  <2>1. P * (d + 1) <= P * (k + 1)
    BY <1>3, <1>5
  <2>2. P * (k + 1) = (k + 1) * P
    OBVIOUS
  <2>3. P * (d + 1) \in Nat /\ P * (k + 1) \in Nat
    BY <1>3
  <2>4. G * r <= last
    BY <1>1, <1>3, <2>1, <2>2, <2>3 DEF last
  <2>5. r <= last \div G
    BY <2>4, <1>2, DivLower
  <2>. QED BY <2>5 DEF q
<1>6. ASSUME r <= q PROVE d <= k
  <2>1. G * r <= G * q
    BY <1>4, <1>6
  <2>2. r * G < (k + 1) * P
    BY <1>1, <1>2, <1>4, <2>1 DEF last
  <2>3. P * d < P * (k + 1)
    BY <1>1, <1>3, <2>2
  <2>4. d < k + 1
    BY <1>3, <2>3
  <2>. QED BY <1>3, <2>4
<1>. QED BY <1>3, <1>4, <1>5, <1>6 DEF lastRank, getOffset, q, d, last

(* Offsets up to the number of ranks are within the array. *)
LEMMA OffsetInArray ==
  ASSUME NEW G \in Nat, NEW P \in Nat \ {0}, NEW r \in 0 .. P
  PROVE  getOffset(G, r, P) \in 0 .. G
<1>1. r * G \in Nat /\ r * G <= P * G
  OBVIOUS
<1>2. getOffset(G, r, P) <= G
  BY <1>1, DivUpper DEF getOffset
<1>. QED BY <1>1, <1>2, DivBounds DEF getOffset

(* splitRange without its minimum. *)
LEMMA SplitRange ==
  ASSUME NEW G \in Nat, NEW P \in Nat \ {0}, NEW r \in 0 .. (P - 1)
  PROVE  /\ splitBegin(G, r, P) = getOffset(G, r, P)
         /\ splitEnd(G, r, P) = getOffset(G, r + 1, P)
<1>1. getOffset(G, r, P) \in 0 .. G /\ getOffset(G, r + 1, P) \in 0 .. G
  BY OffsetInArray
<1>. QED BY <1>1 DEF splitBegin, splitEnd, MinOf

(* A rank has the average number of elements, rounded down or up. *)
LEMMA SizeBounds ==
  ASSUME NEW G \in Nat, NEW P \in Nat \ {0}, NEW r \in 0 .. (P - 1)
  PROVE  getSizeForRank(G, r, P) \in (G \div P) .. ((G \div P) + 1)
<1> DEFINE g == G \div P
           d == (r * G) \div P
           e == ((r + 1) * G) \div P
<1>1. r * G \in Nat /\ (r + 1) * G \in Nat /\ (r + 1) * G = r * G + G
  OBVIOUS
<1>2. g \in Nat /\ P * g <= G /\ G < P * (g + 1)
  BY DivBounds
<1>3. d \in Nat /\ P * d <= r * G /\ r * G < P * (d + 1)
  BY <1>1, DivBounds
<1>4. e \in Nat
  BY <1>1, DivBounds
<1> HIDE DEF g, d
<1>5. /\ P * (d + g) = P * d + P * g
      /\ P * (d + g + 1) = P * (d + 1) + P * g
      /\ P * (d + g + 2) = P * (d + 1) + P * (g + 1)
      /\ P * d \in Nat /\ P * g \in Nat
      /\ P * (d + 1) \in Nat /\ P * (g + 1) \in Nat
  BY <1>2, <1>3
<1>6. d + g <= e
  BY <1>1, <1>2, <1>3, <1>5, DivLower
<1>7. e <= d + g + 1
  <2>1. P * e <= (r + 1) * G
    BY <1>1, DivBounds
  <2> HIDE DEF e
  <2>2. P * e < P * (d + g + 2)
    BY <1>1, <1>2, <1>3, <1>4, <1>5, <2>1
  <2>3. e < d + g + 2
    BY <1>2, <1>3, <1>4, <2>2
  <2>. QED BY <2>3, <1>2, <1>3, <1>4
<1>8. getSizeForRank(G, r, P) = e - d
  BY SplitRange DEF getSizeForRank, getOffset, d
<1>. QED BY <1>2, <1>3, <1>4, <1>6, <1>7, <1>8 DEF g

-----------------------------------------------------------------------------
(* What the enumeration passes to the functions. *)
Inputs ==
  /\ size \in Nat \ {0} /\ partitions \in Nat \ {0}
  /\ Allowed(size, partitions)
  /\ i \in 0 .. (size - 1)

LEMMA InputsAlways ==
  Spec => []Inputs
<1>1. Init => Inputs
  BY BoundsAssumption DEF Init, Inputs
<1>2. Inputs /\ [Next]_vars => Inputs'
  BY DEF Inputs, Next, NextIndex, NextSize, vars, Allowed
<1>. QED BY <1>1, <1>2, PTL DEF Spec

(* If no rank is empty, the rank that getOwner returns owns the index: no  *)
(* assertion at the end of getOwner (Partitioner.h) can fail.              *)
THEOREM OwnerAlwaysOwns ==
  ASSUME ~EmptyRanks
  PROVE  Spec => []OwnerOwns
<1>1. Inputs => OwnerOwns
  BY OwnerCorrect DEF Inputs, Allowed, OwnerOwns
<1>. QED BY <1>1, InputsAlways, PTL

(* The ranges of splitRange tile the array and differ by one element, with *)
(* or without empty ranks.                                                 *)
THEOREM RangesAlwaysTile == Spec => []RangesTile
<1>1. ASSUME Inputs PROVE RangesTile
  <2> DEFINE q == lastRank(i, size, partitions)
  <2>0. size \in Nat \ {0} /\ partitions \in Nat \ {0} /\ i \in Nat /\ i < size
    BY <1>1 DEF Inputs
  <2>1. q \in Nat
    BY <2>0, OffsetBefore
  <2> HIDE DEF q
  <2>2. ASSUME NEW r \in Nat
        PROVE  getOffset(size, r, partitions) <= i <=> r <= q
    BY <2>0, OffsetBefore DEF q
  <2>3. q \in 0 .. (partitions - 1)
    <3>1. getOffset(size, partitions, partitions) = size
      BY <2>0, OffsetEnds
    <3>. QED BY <3>1, <2>0, <2>1, <2>2
  <2>4. ASSUME NEW r \in 0 .. (partitions - 1)
        PROVE  (/\ splitBegin(size, r, partitions) <= i
                /\ i < splitEnd(size, r, partitions)) <=> r = q
    <3>1. /\ splitBegin(size, r, partitions) = getOffset(size, r, partitions)
          /\ splitEnd(size, r, partitions) = getOffset(size, r + 1, partitions)
      BY <2>0, SplitRange
    <3>2. getOffset(size, r + 1, partitions) \in Nat
      BY <2>0, OffsetMonotone
    <3>3. getOffset(size, r, partitions) <= i <=> r <= q
      BY <2>2
    <3>4. getOffset(size, r + 1, partitions) <= i <=> r + 1 <= q
      BY <2>2
    <3>. QED BY <3>1, <3>2, <3>3, <3>4, <2>0, <2>1
  <2>5. ASSUME NEW s \in 0 .. (partitions - 1), NEW r \in 0 .. (partitions - 1)
        PROVE  getSizeForRank(size, s, partitions)
                 <= getSizeForRank(size, r, partitions) + 1
    <3>1. (size \div partitions) \in Nat
      BY <2>0, DivBounds
    <3> DEFINE average == (size \div partitions) .. ((size \div partitions) + 1)
    <3>2. getSizeForRank(size, s, partitions) \in average
      BY <2>0, SizeBounds
    <3>3. getSizeForRank(size, r, partitions) \in average
      BY <2>0, SizeBounds
    <3>. QED BY <3>1, <3>2, <3>3
  <2>. QED BY <2>3, <2>4, <2>5 DEF RangesTile
<1>. QED BY <1>1, InputsAlways, PTL
=============================================================================
