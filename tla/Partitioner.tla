---------------------------- MODULE Partitioner ----------------------------
(***************************************************************************)
(* Block distribution of the index range 0..globalSize-1 over the ranks of *)
(* a communicator: the static functions of TNL::Containers::Partitioner.   *)
(* C++ division of non-negative integers is \div; products are exact here, *)
(* i.e. the Index type is assumed wide enough for globalSize * partitions. *)
(***************************************************************************)
EXTENDS Naturals

(* Smaller of two numbers (TNL::min). *)
MinOf(a, b) == IF a <= b THEN a ELSE b

(* Faulty: the remainder of the division is lost before multiplying. *)
getOffset_Truncated(globalSize, rank, partitions) ==
  rank * (globalSize \div partitions)

(* Offset of the data of a rank. *)
getOffset(globalSize, rank, partitions) == (rank * globalSize) \div partitions

(* The local range of a rank, clamped to the global size. *)
splitBegin(globalSize, rank, partitions) ==
  MinOf(globalSize, getOffset(globalSize, rank, partitions))

splitEnd(globalSize, rank, partitions) ==
  MinOf(globalSize, getOffset(globalSize, rank + 1, partitions))

(* Number of elements assigned to a rank. *)
getSizeForRank(globalSize, rank, partitions) ==
  splitEnd(globalSize, rank, partitions) - splitBegin(globalSize, rank, partitions)

(* The first guess of the owner of a global index. *)
ownerGuess(i, globalSize, partitions) == (i * partitions) \div globalSize

(* Faulty: the guess is not corrected. *)
getOwner_Guess(i, globalSize, partitions) == ownerGuess(i, globalSize, partitions)

(* The owner of a global index: the guess is corrected upwards by at most one. *)
getOwner(i, globalSize, partitions) ==
  LET owner == ownerGuess(i, globalSize, partitions) IN
  IF /\ owner < partitions - 1
     /\ i >= getOffset(globalSize, owner + 1, partitions)
  THEN owner + 1
  ELSE owner

(***************************************************************************)
(* What the two assertions at the end of getOwner demand of its result.    *)
(***************************************************************************)
OwnsIndex(i, globalSize, partitions, owner) ==
  /\ getOffset(globalSize, owner, partitions) <= i
  /\ i < getOffset(globalSize, owner + 1, partitions)
=============================================================================
