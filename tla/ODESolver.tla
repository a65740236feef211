----------------------------- MODULE ODESolver -----------------------------
(***************************************************************************)
(* The explicit ODE solvers Euler and Merson: they advance a state from    *)
(* time to stopTime in steps that they adapt to a stability (Euler) or     *)
(* accuracy (Merson) condition.                                            *)
(*                                                                         *)
(* Times are counted in ticks.  The right-hand side is the environment: it *)
(* chooses the largest step that the condition accepts, and the residue.   *)
(***************************************************************************)
EXTENDS IterativeSolver, FiniteSetsExt

CONSTANTS
  Methods,     (* the solvers the program chooses from                     *)
  StableSteps, (* the largest accepted steps, for any evaluation           *)
  RHSResidues, (* the residues that may occur                              *)
  MaxStep      (* bound on the steps; stands for an unlimited maxTau       *)

ASSUME ODEAssumption ==
  /\ Methods \subseteq [name : {"euler", "merson"}, adaptive : BOOLEAN,
                        convergenceResidue : BOOLEAN,
                        stopOnSteadyState : BOOLEAN]
  /\ StableSteps \subseteq Nat \ {0}
  /\ RHSResidues \subseteq Residues
  /\ MaxStep \in Nat \ {0}

VARIABLES
  method,        (* adaptive: Euler with a Courant number, or Merson with  *)
                 (* a non-zero adaptivity; convergenceResidue: not zero    *)
  time, stopTime,
  tau,           (* the step for the next call of solve                    *)
  maxTau,
  currentTau,    (* the step that is taken next                            *)
  iteration, residue,
  solver         (* is solve running, or what did it return?               *)

odeVars == <<method, time, stopTime, tau, maxTau, currentTau, iteration,
             residue, solver>>

Running == "running"
Returned(result) == IF result THEN "succeeded" ELSE "failed"

ODETypeOK ==
  /\ method \in Methods
  /\ {time, stopTime} \subseteq Int
  /\ {tau, maxTau} \subseteq 1 .. MaxStep
  /\ currentTau \in Int
  /\ iteration \in 0 .. (MaxIterations + 2)
  /\ residue \in Residues
  /\ solver \in {Running, "succeeded", "failed"}
  /\ solver = Running => currentTau \in 1 .. maxTau

ODEInit ==
  /\ method \in Methods
  /\ time = 0
  /\ stopTime = 0
  /\ tau = 1
  /\ maxTau = MaxStep
  /\ currentTau = 0
  /\ iteration = 0
  /\ residue = "between"
  /\ solver = "succeeded"

-----------------------------------------------------------------------------
(* Faulty: the reduction has no effect on short steps.                     *)
Reduced_Rounded(step) == (9 * step + 9) \div 10

(* currentTau *= 0.9, in ticks; a step of one tick is always stable.       *)
Reduced(step) == Max({1, (9 * step) \div 10})

(* currentTau /= 0.95, rounded up to have an effect.                       *)
Enlarged(step) == Min({(20 * step + 18) \div 19, maxTau})

(* Faulty: the last step is not shortened.                                 *)
UpToStop_NotShortened(t, step, stop) == step

(* The step from t, shortened if it leads beyond the stop time.            *)
UpToStop(t, step, stop) == IF t + step > stop THEN stop - t ELSE step

(* ExplicitTimeStepper::solve from start to stop, up to the main loop of   *)
(* the ODE solver.  A maximal step, once derived from the minimal number   *)
(* of iterations, is kept.                                                 *)
Solve(start, stop, timeStep) ==
  LET limit == IF MinIterations = 0 THEN maxTau
               ELSE Max({1, (stop - start) \div MinIterations})
      first == UpToStop(start, Min({timeStep, limit}), stop)
  IN
  /\ solver # Running
  /\ tau' = timeStep
  /\ time' = start
  /\ stopTime' = stop
  /\ maxTau' = limit
  /\ currentTau' = first
  /\ IF first = 0
     THEN solver' = "succeeded" /\ UNCHANGED <<iteration, residue>>
     ELSE solver' = Running /\ iteration' = 0 /\ residue' = "between"
  /\ UNCHANGED method

(* The residue after a step to t: near the stop time it "may be inaccurate *)
(* significantly" and the previous one is kept.                            *)
NewResidue(t, r) == IF t = stopTime THEN residue ELSE r

(* No residue is below a convergence residue of zero.                      *)
Evaluations ==
  {r \in RHSResidues : r = "converged" => method.convergenceResidue}

(* The step does not satisfy the stability or accuracy condition.          *)
Rejected(stable) == method.adaptive /\ currentTau > stable

(* Euler::solve: the step is reduced until the CFL condition holds.        *)
EulerReduceStep ==
  /\ solver = Running
  /\ method.name = "euler"
  /\ \E stable \in StableSteps : Rejected(stable)
  /\ currentTau' = Reduced(currentTau)
  /\ UNCHANGED <<method, time, stopTime, tau, maxTau, iteration, residue,
                 solver>>

(* The step is enlarged even if it has just been shortened.                *)
EulerStep ==
  \E stable \in StableSteps, r \in Evaluations :
    LET t == time + currentTau
        res == NewResidue(t, r)
        short == UpToStop(t, currentTau, stopTime)
        next == IF method.adaptive THEN Enlarged(short)
                ELSE short
    IN
    /\ solver = Running
    /\ method.name = "euler"
    /\ ~Rejected(stable)
    /\ time' = t
    /\ residue' = res
    /\ iteration' = iteration + 1
    /\ IF ~checkNextIteration(iteration, res)
       THEN /\ solver' = Returned(checkConvergence(iteration + 1, res))
            /\ UNCHANGED <<tau, currentTau>>
       ELSE /\ tau' = IF t + currentTau > stopTime THEN tau ELSE currentTau
            /\ IF t >= stopTime \/ res = "converged"
               THEN solver' = "succeeded" /\ currentTau' = short
               ELSE solver' = Running /\ currentTau' = next
    /\ UNCHANGED <<method, stopTime, maxTau>>

(* Merson's loop condition, with the steady state taken into account.      *)
MersonMayGoOn ==
  \/ checkNextIteration(iteration, residue)
  \/ /\ residue = "converged"
     /\ iteration <= MaxIterations
     /\ ~method.stopOnSteadyState

(* The end of an iteration of Merson::solve at time t: the new step, which *)
(* is shortened if need be, and the stop conditions.                       *)
MersonNextStep(t, res, step) ==
  /\ currentTau' = UpToStop(t, step, stopTime)
  /\ tau' = IF t + step > stopTime THEN tau ELSE step
  /\ solver' = IF t >= stopTime \/ res = "converged" THEN "succeeded"
               ELSE Running

(* A step whose error is too large is repeated with a smaller one.         *)
MersonRejectStep ==
  /\ solver = Running
  /\ method.name = "merson"
  /\ MersonMayGoOn
  /\ \E stable \in StableSteps : Rejected(stable)
  /\ \E step \in 1 .. (currentTau - 1) :
       MersonNextStep(time, residue, Min({step, maxTau}))
  /\ UNCHANGED <<method, time, stopTime, maxTau, iteration, residue>>

MersonStep ==
  \E stable \in StableSteps, r \in Evaluations :
    LET t == time + currentTau
        res == NewResidue(t, r)
    IN
    /\ solver = Running
    /\ method.name = "merson"
    /\ MersonMayGoOn
    /\ ~Rejected(stable)
    /\ time' = t
    /\ residue' = res
    /\ iteration' = iteration + 1
    /\ IF ~checkNextIteration(iteration, res)
       THEN solver' = "failed" /\ UNCHANGED <<tau, currentTau>>
       ELSE \E step \in (IF method.adaptive THEN 1 .. maxTau
                         ELSE {currentTau}) : MersonNextStep(t, res, step)
    /\ UNCHANGED <<method, stopTime, maxTau>>

MersonGiveUp ==
  /\ solver = Running
  /\ method.name = "merson"
  /\ ~MersonMayGoOn
  /\ solver' = Returned(checkConvergence(iteration, residue))
  /\ UNCHANGED <<method, time, stopTime, tau, maxTau, currentTau, iteration,
                 residue>>

ODEStep ==
  \/ EulerReduceStep \/ EulerStep
  \/ MersonRejectStep \/ MersonStep \/ MersonGiveUp
=============================================================================
