----------------------- MODULE TimeDependentPDESolver ----------------------
(***************************************************************************)
(* One run of a time dependent problem: SolverStarter::runPDESolver calls  *)
(* TimeDependentPDESolver::solve, which alternates between snapshots and   *)
(* intervals that ExplicitTimeStepper passes to the ODE solver.  Four      *)
(* timers are switched on the way, and every step of it may fail.          *)
(***************************************************************************)
EXTENDS ODESolver, SequencesExt, Timer

CONSTANTS
  Parameters, (* [initial, final, period, timeStep]: configurations        *)
  Roundings,  (* 1 if the quotient of times may be rounded up to one more  *)
              (* step                                                      *)
  MaxTime     (* bound on the clock                                        *)

ASSUME PDEAssumption ==
  /\ \A p \in Parameters :
       /\ {p.initial, p.final} \subseteq Int
       /\ p.period \in Nat \ {0}
       /\ p.timeStep \in 1 .. MaxStep
  /\ Roundings \subseteq {0, 1}
  /\ MaxTime \in Nat

VARIABLES
  parameters,
  phase,     (* where the main thread is                                   *)
  t, step, allSteps, (* local variables of solve                           *)
  snapshots, (* the snapshots, each with the time that the solver has      *)
             (* reached and whether the state has become steady            *)
  timers,    (* ioTimer, computeTimer, totalTimer; mainTimer of the stepper*)
  now,       (* the clock                                                  *)
  spent,     (* history: the time that each timer is meant to measure      *)
  returnCode

pdeVars == <<parameters, phase, t, step, allSteps, snapshots, timers, now,
             spent, returnCode>>
vars == <<odeVars, pdeVars>>

TimerNames == {"io", "compute", "total", "main"}

TypeOK ==
  /\ ODETypeOK
  /\ parameters \in Parameters
  /\ phase \in {"setup", "io", "loop", "computing", "epilog", "done"}
  /\ t \in Int
  /\ {step, allSteps} \subseteq Int
  /\ timers \in [TimerNames -> Timers]
  /\ now \in 0 .. MaxTime
  /\ spent \in [TimerNames -> 0 .. MaxTime]
  /\ returnCode \in {"none", "true", "false", "threw"}

Init ==
  /\ ODEInit
  /\ parameters \in Parameters
  /\ phase = "setup"
  /\ t = 0 /\ step = 0 /\ allSteps = 0
  /\ snapshots = <<>>
  /\ timers = [x \in TimerNames |->
                 IF x = "total" THEN start(reset, 0) ELSE reset]
  /\ now = 0
  /\ spent = [x \in TimerNames |-> 0]
  /\ returnCode = "none"

-----------------------------------------------------------------------------
(* setFinalTime compares with the initial time of the constructor.         *)
initialTime == 0

(* ceil of the quotient; exact if rounding is 0.                           *)
StepsOf(p, rounding) ==
  LET length == p.final - p.initial IN
  (length + p.period - 1) \div p.period
    + (IF length > 0 /\ length % p.period = 0 THEN rounding ELSE 0)

(* Faulty: every interval is as long as the snapshot period.               *)
Interval_Whole(from) == parameters.period
Interval(from) == Min({parameters.period, parameters.final - from})

SetupFails ==
  /\ phase = "setup"
  /\ parameters.final <= initialTime
  /\ phase' = "done"
  /\ returnCode' = "false"
  /\ UNCHANGED <<odeVars, parameters, t, step, allSteps, snapshots, timers,
                 now, spent>>

(* The rest of the setup, and solve up to the first snapshot.              *)
Setup ==
  /\ phase = "setup"
  /\ parameters.final > initialTime
  /\ phase' = "io"
  /\ t' = parameters.initial
  /\ step' = 0
  /\ \E rounding \in Roundings : allSteps' = StepsOf(parameters, rounding)
  /\ timers' = [timers EXCEPT !["io"] = start(reset, now),
                              !["compute"] = reset]
  /\ time' = parameters.initial
  /\ UNCHANGED <<method, stopTime, tau, maxTau, currentTau, iteration,
                 residue, solver, parameters, snapshots, now, spent,
                 returnCode>>

(* Faulty: the I/O timer runs on while the solver computes.                *)
AfterSnapshot_IORuns ==
  [timers EXCEPT !["compute"] = start(@, now),
                 !["main"] = IF step = 0 THEN reset ELSE @]

(* The timers after a snapshot; the first one is followed by the           *)
(* initialization of the time stepper.                                     *)
AfterSnapshot ==
  [timers EXCEPT !["io"] = stop(@, now),
                 !["compute"] = start(@, now),
                 !["main"] = IF step = 0 THEN reset ELSE @]

MakeSnapshot ==
  /\ phase = "io"
  /\ snapshots' = Append(snapshots, [time |-> t, step |-> step,
                                     reached |-> time,
                                     steady |-> residue = "converged"])
  /\ timers' = AfterSnapshot
  /\ phase' = "loop"
  /\ UNCHANGED <<odeVars, parameters, t, step, allSteps, now, spent,
                 returnCode>>

SnapshotFails ==
  /\ phase = "io"
  /\ phase' = "epilog"
  /\ returnCode' = "false"
  /\ UNCHANGED <<odeVars, parameters, t, step, allSteps, snapshots, timers,
                 now, spent>>

BeginInterval ==
  /\ phase = "loop"
  /\ step < allSteps
  /\ Solve(t, t + Interval(t), parameters.timeStep)
  /\ timers' = [timers EXCEPT !["main"] = start(@, now)]
  /\ phase' = "computing"
  /\ UNCHANGED <<parameters, t, step, allSteps, snapshots, now, spent,
                 returnCode>>

Compute ==
  /\ phase = "computing"
  /\ ODEStep
  /\ UNCHANGED pdeVars

EndInterval ==
  /\ phase = "computing"
  /\ solver = "succeeded"
  /\ step' = step + 1
  /\ t' = t + Interval(t)
  /\ timers' = [timers EXCEPT !["main"] = stop(@, now),
                              !["io"] = start(@, now),
                              !["compute"] = stop(@, now)]
  /\ phase' = "io"
  /\ UNCHANGED <<odeVars, parameters, allSteps, snapshots, now, spent,
                 returnCode>>

IntervalFails ==
  /\ phase = "computing"
  /\ solver = "failed"
  /\ phase' = "epilog"
  /\ returnCode' = "false"
  /\ UNCHANGED <<odeVars, parameters, t, step, allSteps, snapshots, timers,
                 now, spent>>

FinishSolve ==
  /\ phase = "loop"
  /\ step >= allSteps
  /\ timers' = [timers EXCEPT !["compute"] = stop(@, now)]
  /\ phase' = "epilog"
  /\ returnCode' = "true"
  /\ UNCHANGED <<odeVars, parameters, t, step, allSteps, snapshots, now,
                 spent>>

(* runPDESolver after solve: the timers are stopped and logged.            *)
WriteEpilog ==
  /\ phase = "epilog"
  /\ timers' = [timers EXCEPT !["compute"] = stop(@, now),
                              !["total"] = stop(@, now)]
  /\ phase' = "done"
  /\ UNCHANGED <<odeVars, parameters, t, step, allSteps, snapshots, now,
                 spent, returnCode>>

(* An exception of the problem is caught by runPDESolver, which returns.   *)
Throw ==
  /\ phase \in {"io", "computing"}
  /\ phase' = "done"
  /\ returnCode' = "threw"
  /\ UNCHANGED <<odeVars, parameters, t, step, allSteps, snapshots, timers,
                 now, spent>>

(* Time passes while a snapshot is made or the solver computes.            *)
Tick ==
  LET meant == {"total"} \cup (IF phase = "io" THEN {"io"}
                               ELSE {"compute", "main"})
  IN
  /\ phase \in {"io", "computing"}
  /\ now < MaxTime
  /\ now' = now + 1
  /\ spent' = [x \in TimerNames |->
                 spent[x] + (IF x \in meant THEN 1 ELSE 0)]
  /\ UNCHANGED <<odeVars, parameters, phase, t, step, allSteps, snapshots,
                 timers, returnCode>>

Terminated == phase = "done" /\ UNCHANGED vars

MainThread ==
  \/ SetupFails \/ Setup
  \/ MakeSnapshot \/ SnapshotFails
  \/ BeginInterval \/ Compute \/ EndInterval \/ IntervalFails
  \/ FinishSolve \/ WriteEpilog

Next == MainThread \/ Throw \/ Tick \/ Terminated

Spec == Init /\ [][Next]_vars

(* The main thread is not suspended for ever, and calls of the problem     *)
(* return.                                                                 *)
FairSpec == Spec /\ WF_vars(MainThread)

-----------------------------------------------------------------------------
ValidTimes == parameters.initial < parameters.final

(* solve promises "the status of the problem" once per snapshot period:    *)
(* the i-th snapshot is for the i-th multiple of the period, the last one  *)
(* of a successful run for the final time, whatever the rounding of the    *)
(* number of steps (TimeDependentPDESolver::solve).                        *)
SnapshotsOnSchedule ==
  ValidTimes =>
    /\ \A i \in DOMAIN snapshots :
         /\ snapshots[i].step = i - 1
         /\ snapshots[i].time = Min({parameters.initial
                                       + (i - 1) * parameters.period,
                                     parameters.final})
    /\ returnCode = "true" => Last(snapshots).time = parameters.final

(* A snapshot holds no earlier state than the one of its time, unless the  *)
(* solver was told that "the computation stops when steady-state solution  *)
(* is reached" (ExplicitSolver::configSetup, which makes it an option).    *)
SnapshotsReached ==
  \A i \in DOMAIN snapshots :
    LET s == snapshots[i] IN
    s.reached >= s.time \/ (s.steady /\ method.stopOnSteadyState)

(* The program asks for the stops in steady states that the solvers make   *)
(* whenever they are given a convergence residue.                          *)
SteadyStopsAsked == method.convergenceResidue => method.stopOnSteadyState

(* A snapshot holds the state of its time: no failure, limit or shortened  *)
(* step makes the solver report success earlier, and only Euler with a     *)
(* Courant number goes too far (Euler::solve, Merson::solve,               *)
(* TimeDependentPDESolver::solve).                                         *)
SnapshotsOfTheirTime ==
  /\ SteadyStopsAsked => SnapshotsReached
  /\ \A i \in DOMAIN snapshots :
       \/ method.name = "euler" /\ method.adaptive
       \/ snapshots[i].reached <= snapshots[i].time

(* "the evolution computation shall by stopped" at the stop time           *)
(* (ExplicitSolver::setStopTime): no ODE solver passes it.                 *)
StopsAtStopTime == phase = "computing" => time <= stopTime

(* A timer that is stopped shows exactly the time that it is meant to      *)
(* measure, over all intervals, snapshots and failures (Timer::stop and    *)
(* the calls of the timers in the three classes).                          *)
StoppedTimeExact ==
  \A x \in TimerNames :
    timers[x].stopState => getRealTime(timers[x], now) = spent[x]

(* After a successful run the epilog reports all times exactly: time of    *)
(* input and output is not counted as computation, nor the reverse         *)
(* (SolverStarter::writeEpilog).                                           *)
TimesReported ==
  phase = "done" /\ returnCode = "true" =>
    \A x \in TimerNames : getRealTime(timers[x], now) = spent[x]

(* The same for a run that failed and still writes its epilog.             *)
FailureTimesReported ==
  phase = "done" /\ returnCode = "false" /\ snapshots # <<>> =>
    getRealTime(timers["io"], now) = spent["io"]

(* The final time that setup accepts is larger than the initial time       *)
(* (TimeDependentPDESolver::setFinalTime: "Final time for                  *)
(* TimeDependentPDESolver must larger than the initial time").             *)
SetupChecksTimes == phase \in {"setup", "done"} \/ ValidTimes

(* Every run ends, whatever the steps that the solver finds acceptable     *)
(* (the loops of Euler::solve, Merson::solve and                           *)
(* TimeDependentPDESolver::solve).                                         *)
SolveEnds == <>(phase = "done")
=============================================================================
