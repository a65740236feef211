------------------------------- MODULE Timer -------------------------------
(***************************************************************************)
(* TNL::Timer: a stopwatch that accumulates the time between start and     *)
(* stop.  Its three clocks (real time, CPU time, CPU cycles) are handled   *)
(* alike; one stands for all.  now is the clock that readRealTime returns. *)
(***************************************************************************)
EXTENDS Naturals

(* initialRealTime, totalRealTime and stopState of a timer.                *)
Timers == [initial : Nat, total : Nat, stopState : BOOLEAN]

reset == [initial |-> 0, total |-> 0, stopState |-> TRUE]

(* A running timer that is started again forgets the time since its start. *)
start(timer, now) ==
  [timer EXCEPT !.initial = now, !.stopState = FALSE]

(* Faulty: the total is replaced instead of increased.                     *)
stop_Replaces(timer, now) ==
  IF timer.stopState THEN timer
  ELSE [timer EXCEPT !.total = now - timer.initial, !.stopState = TRUE]

(* stop() of a timer that does not run has no effect.                      *)
stop(timer, now) ==
  IF timer.stopState THEN timer
  ELSE [timer EXCEPT !.total = @ + (now - timer.initial), !.stopState = TRUE]

(* What the timer shows: while it runs, the time since its last start.     *)
getRealTime(timer, now) ==
  IF timer.stopState THEN timer.total ELSE now - timer.initial
=============================================================================
