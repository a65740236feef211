------------------------ MODULE MCArraySynchronizer ------------------------
(* Instances of ArraySynchronizer for TLC.                                 *)
EXTENDS ArraySynchronizer

CONSTANTS a1, a2, s1, s2

(* Every array has the same synchronizer.                                  *)
Shared == [a \in Arrays |-> s1]

(* Every array has a synchronizer of its own.                              *)
Separate == [a \in Arrays |-> IF a = a1 THEN s1 ELSE s2]
=============================================================================
