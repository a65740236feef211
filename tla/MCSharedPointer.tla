-------------------------- MODULE MCSharedPointer --------------------------
(* Instances of SharedPointer for TLC.                                     *)
EXTENDS SharedPointer, TLC

(* Pointers, addresses and values are interchangeable.                     *)
Permuted ==
  Permutations(Handles) \union Permutations(Objects)
    \union Permutations(Values) \union Permutations(Devices)
=============================================================================
