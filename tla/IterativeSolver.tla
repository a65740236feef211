-------------------------- MODULE IterativeSolver --------------------------
(***************************************************************************)
(* The stopping rules that all iterative solvers share: the linear solvers *)
(* and the ODE solvers count iterations and compare their residue with two *)
(* limits.  A residue is abstracted to how it compares with the limits.    *)
(***************************************************************************)
EXTENDS Integers

CONSTANTS
  MinIterations,
  MaxIterations

ASSUME IterationsAssumption ==
  /\ MinIterations \in Nat
  /\ MaxIterations \in Nat

(* Below convergenceResidue, above divergenceResidue, neither, or NaN.     *)
Residues == {"converged", "diverged", "between", "nan"}

(* May the solver go on after i iterations?                                *)
checkNextIteration(i, residue) ==
  /\ residue # "nan"
  /\ i <= MaxIterations
  /\ residue \in {"converged", "diverged"} => i < MinIterations

(* The answer of a solver that has stopped.                                *)
checkConvergence(i, residue) ==
  /\ residue = "converged"
  /\ i < MaxIterations
=============================================================================
