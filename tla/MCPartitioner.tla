--------------------------- MODULE MCPartitioner ---------------------------
(***************************************************************************)
(* Evaluates the functions of Partitioner for every number of ranks, every *)
(* global size up to MaxSize and every index: a program that grows an array*)
(* element by element and, for each size, asks for the owner of every      *)
(* element in turn.                                                        *)
(***************************************************************************)
EXTENDS Partitioner

CONSTANTS
  MaxSize,         (* bound on the number of elements                      *)
  MaxPartitions,   (* bound on the number of ranks                         *)
  EmptyRanks       (* may there be more ranks than elements?               *)

ASSUME BoundsAssumption ==
  /\ MaxSize \in Nat \ {0}
  /\ MaxPartitions \in Nat \ {0}
  /\ EmptyRanks \in BOOLEAN

VARIABLES size, partitions, i

vars == <<size, partitions, i>>

Allowed(G, P) == EmptyRanks \/ P <= G

Init ==
  /\ size \in 1 .. MaxSize
  /\ partitions \in 1 .. MaxPartitions
  /\ Allowed(size, partitions)
  /\ i = 0

NextIndex ==
  /\ i < size - 1
  /\ i' = i + 1
  /\ UNCHANGED <<size, partitions>>

NextSize ==
  /\ i = size - 1
  /\ size < MaxSize
  /\ size' = size + 1
  /\ i' = 0
  /\ UNCHANGED partitions

Next == NextIndex \/ NextSize

Spec == Init /\ [][Next]_vars

(* The rank getOwner returns exists and owns the index: the assertions at  *)
(* the end of getOwner hold.                                               *)
OwnerOwns ==
  LET owner == getOwner(i, size, partitions) IN
  owner \in 0 .. (partitions - 1) /\ OwnsIndex(i, size, partitions, owner)

(* The local ranges of splitRange cover the array without gap or overlap   *)
(* and differ in length by at most one: each index is in one range, and    *)
(* that range is the one of its owner unless ranks are empty.              *)
RangesTile ==
  LET ranks == 0 .. (partitions - 1)
      length == [r \in ranks |-> getSizeForRank(size, r, partitions)]
  IN
  /\ \E r \in ranks : \A q \in ranks :
       (splitBegin(size, q, partitions) <= i /\ i < splitEnd(size, q, partitions))
         <=> q = r
  /\ \A q, r \in ranks : length[q] <= length[r] + 1
=============================================================================
