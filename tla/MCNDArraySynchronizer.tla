----------------------- MODULE MCNDArraySynchronizer -----------------------
(* Instances of NDArraySynchronizer for TLC.                               *)
EXTENDS NDArraySynchronizer

CONSTANTS a1, a2

(* Every array has the same synchronizer.                                  *)
Shared == [a \in Arrays |-> 1]

(* Every array has a synchronizer of its own.                              *)
Separate == [a \in Arrays |-> IF a = a1 THEN 1 ELSE 2]

(* All arrays use the world communicator, or the last one has its ranks    *)
(* exchanged.                                                              *)
World == [a \in Arrays |-> [p \in Procs |-> p]]
Renumbered == [a \in Arrays |-> [p \in Procs |->
                 IF a = a1 THEN p ELSE (IF p = 0 THEN 1 ELSE
                                        IF p = 1 THEN 0 ELSE p)]]

SameShape == [a \in Arrays |-> 1]
OtherShape == [a \in Arrays |-> IF a = a1 THEN 1 ELSE 2]

AllMasks == {Sides, {"left"}, {"right"}}
TwoMasks == {Sides, {"left"}}
OneMask == {Sides}
=============================================================================
