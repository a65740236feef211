--------------------------- MODULE SolverMonitor ---------------------------
(***************************************************************************)
(* TNL::Solvers::SolverMonitor and SolverMonitorThread: the main thread    *)
(* launches the main loop of one monitor in a thread, solves, and stops and*)
(* joins the thread in the destructor of SolverMonitorThread.  The same    *)
(* monitor serves several sessions, one SolverMonitorThread after another. *)
(* The flags and the timeout are atomics: each access is one step.         *)
(***************************************************************************)
EXTENDS Integers

CONSTANTS
  RefreshRates,    (* arguments of setRefreshRate, in milliseconds         *)
  MaxSessions,     (* bound on the number of SolverMonitorThread objects   *)
  MaxStops         (* bound on explicit stopMainLoop calls per session     *)

timeout_base == 100
DefaultTimeout == 500

ASSUME ConstantsAssumption ==
  /\ RefreshRates \subseteq Int
  /\ MaxSessions \in Nat
  /\ MaxStops \in Nat

VARIABLES
  main,       (* what the main thread does                                 *)
  monitor,    (* where the monitor thread is in runMainLoop                *)
  started,    (* the flag of the same name                                 *)
  stopped,    (* the flag of the same name                                 *)
  timeout_milliseconds,
  steps,      (* local variables of runMainLoop                            *)
  i,
  sessions,   (* number of threads launched so far                         *)
  stops,      (* stopMainLoop calls in this session                        *)
  interrupted,    (* the program has called stopMainLoop itself            *)
  lateRefreshes,  (* refreshes and sleeps that began after a stop in this  *)
  lateSleeps,     (* session                                               *)
  slept       (* milliseconds slept since the last refresh, -1 before the  *)
              (* first one of the session                                  *)

flags == <<started, stopped>>
loop == <<monitor, steps, i>>
history == <<stops, interrupted, lateRefreshes, lateSleeps, slept>>
vars == <<main, monitor, started, stopped, timeout_milliseconds, steps, i,
          sessions, stops, interrupted, lateRefreshes, lateSleeps, slept>>

MonitorPc == {"none", "created", "outer", "refresh", "refreshing", "rate",
              "inner", "sleeping", "resetStarted", "resetStopped", "exited"}

TypeOK ==
  /\ main \in {"idle", "solving", "joining"}
  /\ monitor \in MonitorPc
  /\ started \in BOOLEAN
  /\ stopped \in BOOLEAN
  /\ timeout_milliseconds \in RefreshRates \union {DefaultTimeout}
  /\ steps \in Int
  /\ i \in Nat
  /\ monitor \in {"inner", "sleeping"} => steps > 0
  /\ sessions \in 0 .. MaxSessions
  /\ stops \in 0 .. (MaxStops + 1)
  /\ interrupted \in BOOLEAN
  /\ lateRefreshes \in 0 .. 2
  /\ lateSleeps \in 0 .. 2
  /\ slept \in Int

Init ==
  /\ main = "idle"
  /\ monitor = "none"
  /\ started = FALSE
  /\ stopped = FALSE
  /\ timeout_milliseconds = DefaultTimeout
  /\ steps = 0
  /\ i = 0
  /\ sessions = 0
  /\ stops = 0
  /\ interrupted = FALSE
  /\ lateRefreshes = 0
  /\ lateSleeps = 0
  /\ slept = -1

-----------------------------------------------------------------------------
(* The main thread.                                                        *)

(* Constructor of SolverMonitorThread: the thread exists, but it may run   *)
(* much later.                                                             *)
Launch ==
  /\ main = "idle"
  /\ sessions < MaxSessions
  /\ main' = "solving"
  /\ monitor' = "created"
  /\ sessions' = sessions + 1
  /\ stops' = 0
  /\ lateRefreshes' = 0
  /\ lateSleeps' = 0
  /\ slept' = -1
  /\ UNCHANGED <<flags, timeout_milliseconds, steps, i, interrupted>>

(* stopMainLoop called by the program while it solves.                     *)
StopMainLoop ==
  /\ main = "solving"
  /\ stops < MaxStops
  /\ stopped' = TRUE
  /\ stops' = stops + 1
  /\ interrupted' = TRUE
  /\ UNCHANGED <<main, loop, started, timeout_milliseconds, sessions,
                 lateRefreshes, lateSleeps, slept>>

SetRefreshRate ==
  /\ main = "solving"
  /\ \E rate \in RefreshRates :
       /\ rate # timeout_milliseconds
       /\ timeout_milliseconds' = rate
  /\ UNCHANGED <<main, loop, flags, sessions, history>>

(* Destructor of SolverMonitorThread: stop the loop ...                    *)
Destroy ==
  /\ main = "solving"
  /\ stopped' = TRUE
  /\ stops' = stops + 1
  /\ main' = "joining"
  /\ UNCHANGED <<loop, started, timeout_milliseconds, sessions, interrupted,
                 lateRefreshes, lateSleeps, slept>>

(* ... and wait for its thread.                                            *)
Join ==
  /\ main = "joining"
  /\ monitor = "exited"
  /\ main' = "idle"
  /\ monitor' = "none"
  /\ UNCHANGED <<flags, timeout_milliseconds, steps, i, sessions, history>>

-----------------------------------------------------------------------------
(* The monitor thread: runMainLoop.                                        *)

(* One more refresh or sleep begins: it is late if the loop was stopped.   *)
(* Late ones are counted up to two.                                        *)
CountLate(n) == IF stops > 0 /\ n < 2 THEN n + 1 ELSE n

(* Faulty: the loop clears both flags when it starts.                      *)
Start_ClearsStopped ==
  /\ monitor = "created"
  /\ started' = TRUE
  /\ stopped' = FALSE
  /\ monitor' = "outer"
  /\ UNCHANGED <<main, timeout_milliseconds, steps, i, sessions, history>>

Start ==
  /\ monitor = "created"
  /\ started' = TRUE
  /\ monitor' = "outer"
  /\ UNCHANGED <<main, stopped, timeout_milliseconds, steps, i, sessions,
                 history>>

(* while( ! stopped )                                                      *)
CheckOuter ==
  /\ monitor = "outer"
  /\ monitor' = IF stopped THEN "resetStarted" ELSE "refresh"
  /\ UNCHANGED <<main, flags, timeout_milliseconds, steps, i, sessions,
                 history>>

BeginRefresh ==
  /\ monitor = "refresh"
  /\ monitor' = "refreshing"
  /\ lateRefreshes' = CountLate(lateRefreshes)
  /\ UNCHANGED <<main, flags, timeout_milliseconds, steps, i, sessions, stops,
                 interrupted, lateSleeps, slept>>

EndRefresh ==
  /\ monitor = "refreshing"
  /\ monitor' = "rate"
  /\ slept' = 0
  /\ UNCHANGED <<main, flags, timeout_milliseconds, steps, i, sessions, stops,
                 interrupted, lateRefreshes, lateSleeps>>

(* Faulty: a timeout below the base gives no steps at all.                 *)
ReadRate_Unclamped ==
  /\ monitor = "rate"
  /\ steps' = timeout_milliseconds \div timeout_base
  /\ i' = 0
  /\ monitor' = "inner"
  /\ UNCHANGED <<main, flags, timeout_milliseconds, sessions, history>>

(* Faulty: a timeout below the base is raised in the member itself, so that*)
(* the rate of the program is lost.                                        *)
ReadRate_RaisesRate ==
  /\ monitor = "rate"
  /\ timeout_milliseconds' = IF timeout_milliseconds < timeout_base
                             THEN timeout_base ELSE timeout_milliseconds
  /\ steps' = timeout_milliseconds' \div timeout_base
  /\ i' = 0
  /\ monitor' = "inner"
  /\ UNCHANGED <<main, flags, sessions, history>>

(* The number of sleeps until the next refresh, at least one.  (For the    *)
(* negative timeouts C++ division differs from \div, but both quotients are*)
(* less than 1.)                                                           *)
ReadRate ==
  LET quotient == timeout_milliseconds \div timeout_base IN
  /\ monitor = "rate"
  /\ steps' = IF quotient <= 0 THEN 1 ELSE quotient
  /\ i' = 0
  /\ monitor' = "inner"
  /\ UNCHANGED <<main, flags, timeout_milliseconds, sessions, history>>

(* Faulty: the inner loop runs to its end even if the loop was stopped.    *)
CheckInner_IgnoresStop ==
  /\ monitor = "inner"
  /\ i' = i + 1
  /\ IF i < steps
     THEN /\ monitor' = "sleeping"
          /\ lateSleeps' = CountLate(lateSleeps)
     ELSE /\ monitor' = "outer"
          /\ UNCHANGED lateSleeps
  /\ UNCHANGED <<main, flags, timeout_milliseconds, steps, sessions, stops,
                 interrupted, lateRefreshes, slept>>

(* while( ! stopped && i++ < steps )                                       *)
CheckInner ==
  /\ monitor = "inner"
  /\ i' = IF stopped THEN i ELSE i + 1
  /\ IF ~stopped /\ i < steps
     THEN /\ monitor' = "sleeping"
          /\ lateSleeps' = CountLate(lateSleeps)
     ELSE /\ monitor' = "outer"
          /\ UNCHANGED lateSleeps
  /\ UNCHANGED <<main, flags, timeout_milliseconds, steps, sessions, stops,
                 interrupted, lateRefreshes, slept>>

WakeUp ==
  /\ monitor = "sleeping"
  /\ monitor' = "inner"
  /\ slept' = slept + timeout_base
  /\ UNCHANGED <<main, flags, timeout_milliseconds, steps, i, sessions, stops,
                 interrupted, lateRefreshes, lateSleeps>>

ResetStarted ==
  /\ monitor = "resetStarted"
  /\ started' = FALSE
  /\ monitor' = "resetStopped"
  /\ UNCHANGED <<main, stopped, timeout_milliseconds, steps, i, sessions,
                 history>>

(* Faulty: the loop leaves the flag set.                                   *)
ResetStopped_Forgotten ==
  /\ monitor = "resetStopped"
  /\ monitor' = "exited"
  /\ UNCHANGED <<main, flags, timeout_milliseconds, steps, i, sessions,
                 history>>

ResetStopped ==
  /\ monitor = "resetStopped"
  /\ stopped' = FALSE
  /\ monitor' = "exited"
  /\ UNCHANGED <<main, started, timeout_milliseconds, steps, i, sessions,
                 history>>

-----------------------------------------------------------------------------
MainStep == Launch \/ StopMainLoop \/ SetRefreshRate \/ Destroy \/ Join

MonitorStep ==
  \/ Start
  \/ CheckOuter
  \/ BeginRefresh
  \/ EndRefresh
  \/ ReadRate
  \/ CheckInner
  \/ WakeUp
  \/ ResetStarted
  \/ ResetStopped

Terminated == main = "idle" /\ sessions = MaxSessions /\ UNCHANGED vars

Next == MainStep \/ MonitorStep \/ Terminated

Spec == Init /\ [][Next]_vars

(* Fairness: the thread of the monitor is scheduled, its refresh and its   *)
(* sleeps end, and join returns once the thread has exited.  Nothing is    *)
(* assumed of the solver.                                                  *)
FairSpec == Spec /\ WF_vars(MonitorStep) /\ WF_vars(Join)

-----------------------------------------------------------------------------
(* Correctness.                                                            *)

(* The destructor of SolverMonitorThread returns, also when the thread runs*)
(* "delayed after the SolverMonitorThread's destructor has already called  *)
(* stopMainLoop()".                                                        *)
JoinReturns == (main = "joining") ~> (main = "idle")

(* After stopMainLoop the loop begins at most one more refresh and at most *)
(* one more sleep of the base timeout, whatever the refresh rate is: the   *)
(* destructor does not wait for the rest of a long interval.               *)
StopHonoured == lateRefreshes + lateSleeps <= 1

(* The loop of a session ends only if it was stopped in that session, as   *)
(* long as the program leaves the stopping to the destructors: the stop of *)
(* a session never silences a later one.                                   *)
EndsOnlyWhenStopped ==
  ~interrupted /\ monitor \in {"resetStarted", "resetStopped", "exited"} =>
    stops > 0

(* Consecutive refreshes are at least one base timeout apart, however small*)
(* the refresh rate: the loop never spins.                                 *)
RefreshesApart == monitor = "refreshing" /\ slept >= 0 => slept >= timeout_base

(* Between two sessions the monitor is in its initial state: what the end  *)
(* of runMainLoop, "reset to initial state", is for.                       *)
InitialStateRestored == main = "idle" => ~started /\ ~stopped

(* isStopped() tells the program that solves whether it has stopped the    *)
(* loop: "true if the main loop was stopped".                              *)
IsStoppedReports == main = "solving" /\ stops > 0 => stopped

(* "Set the time interval between two consecutive calls of refresh": the   *)
(* loop sleeps for a refresh rate that the program has set.                *)
IntervalIsRefreshRate ==
  monitor = "refreshing" /\ slept >= 0 =>
    slept \in RefreshRates \union {DefaultTimeout}
=============================================================================
