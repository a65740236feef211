---------------------- MODULE MCTimeDependentPDESolver ---------------------
(* Instances of TimeDependentPDESolver for TLC.                            *)
EXTENDS TimeDependentPDESolver

AllMethods == [name : {"euler", "merson"}, adaptive : BOOLEAN,
               convergenceResidue : BOOLEAN, stopOnSteadyState : BOOLEAN]

Times(initial, final, period, timeStep) ==
  [initial |-> initial, final |-> final, period |-> period,
   timeStep |-> timeStep]

(* Intervals of equal length, a shorter last one, a time step that does    *)
(* not divide them; negative times, and times that setup rejects.          *)
Configurations == {Times(0, 4, 2, 2), Times(1, 7, 6, 4), Times(-2, 5, 4, 3),
                   Times(-2, 0, 1, 1)}

(* The initial time is behind the final time.                              *)
Reversed == {Times(3, 2, 1, 1)}
AllConfigurations == Configurations \union Reversed
=============================================================================
