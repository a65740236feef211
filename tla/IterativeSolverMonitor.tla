----------------------- MODULE IterativeSolverMonitor ----------------------
(***************************************************************************)
(* TNL::Solvers::IterativeSolverMonitor: a solver monitor whose attributes *)
(* are set by the solver, in the main thread, while refresh() shows them in*)
(* the monitor thread.  Only two flags are atomic; the other attributes are*)
(* plain variables.  One step is one access of a flag, or all accesses of  *)
(* plain attributes between two of them.                                   *)
(*                                                                         *)
(* iterations and residue stand also for time and timeStep, which are saved*)
(* and shown alike (setStage does not reset them).  Values are numbered in *)
(* the order of the updates.  setVerbose is called before the monitor      *)
(* starts, and sets attributes_changed like the other setters.             *)
(***************************************************************************)
EXTENDS SolverMonitor

CONSTANTS
  Verbosities, (* values of the parameter verbose                          *)
  MaxUpdates   (* bound on the calls of setters                            *)

ASSUME MonitorAssumption ==
  /\ Verbosities \subseteq 0 .. 2
  /\ MaxUpdates \in Nat

VARIABLES
  verbose,
  current,  (* stage, iterations, residue                                  *)
  savedItems, (* saved_stage, saved_iterations, saved_residue              *)
  saved, attributes_changed,
  setter,   (* what the main thread is going to do next in a setter        *)
  refresher,(* where the monitor thread is in refresh()                    *)
  showSaved,(* the local variable saved of refresh()                       *)
  shown,    (* history: the items shown last                               *)
  lines,    (* history: lines printed since a setter has returned          *)
  updates   (* history: setters called                                     *)

attributes == <<verbose, current, savedItems, saved, attributes_changed,
                setter, refresher, showSaved, shown, lines, updates>>
monitorVars == <<vars, attributes>>

Items == [stage : 0 .. MaxUpdates, iterations : 0 .. MaxUpdates,
          residue : 0 .. MaxUpdates]
NoItems == [stage |-> 0, iterations |-> 0, residue |-> 0]

MonitorTypeOK ==
  /\ TypeOK
  /\ verbose \in Verbosities
  /\ {current, savedItems, shown} \subseteq Items
  /\ {saved, attributes_changed, showSaved} \subseteq BOOLEAN
  /\ setter \in {"none", "reset", "saved", "changed"}
  /\ refresher \in {"none", "clear", "test", "flag", "done"}
                     \union DOMAIN NoItems
  /\ refresher # "none" => monitor = "refreshing"
  /\ setter # "none" => main = "solving"
  /\ lines \in Nat
  /\ updates \in 0 .. MaxUpdates

MonitorInit ==
  /\ Init
  /\ verbose \in Verbosities
  /\ current = NoItems
  /\ savedItems = NoItems
  /\ saved = FALSE
  /\ attributes_changed = TRUE
  /\ setter = "none"
  /\ refresher = "none"
  /\ showSaved = FALSE
  /\ shown = NoItems
  /\ lines = 0
  /\ updates = 0

-----------------------------------------------------------------------------
(* The setters, called by the solver.                                      *)
BeginSetter ==
  /\ main = "solving"
  /\ setter = "none"
  /\ updates < MaxUpdates
  /\ updates' = updates + 1

(* setIterations, setResidue (and setTime, setTimeStep).                   *)
SetItem ==
  /\ BeginSetter
  /\ \E item \in {"iterations", "residue"} :
       current' = [current EXCEPT ![item] = updates']
  /\ setter' = "changed"
  /\ UNCHANGED <<vars, verbose, savedItems, saved, attributes_changed,
                 refresher, showSaved, shown, lines>>

(* setStage saves the items of a stage that has made iterations ...        *)
SaveStage ==
  /\ BeginSetter
  /\ savedItems' = IF current.iterations > 0 THEN current ELSE savedItems
  /\ setter' = "reset"
  /\ UNCHANGED <<vars, verbose, current, saved, attributes_changed, refresher,
                 showSaved, shown, lines>>

(* ... resets the current ones ...                                         *)
ResetStage ==
  /\ setter = "reset"
  /\ current' = [NoItems EXCEPT !.stage = updates]
  /\ setter' = "saved"
  /\ UNCHANGED <<vars, verbose, savedItems, saved, attributes_changed,
                 refresher, showSaved, shown, lines, updates>>

(* ... and sets the two flags.                                             *)
SetSaved ==
  /\ setter = "saved"
  /\ saved' = TRUE
  /\ setter' = "changed"
  /\ UNCHANGED <<vars, verbose, current, savedItems, attributes_changed,
                 refresher, showSaved, shown, lines, updates>>

SetChanged ==
  /\ setter = "changed"
  /\ attributes_changed' = TRUE
  /\ setter' = "none"
  /\ lines' = 0
  /\ UNCHANGED <<vars, verbose, current, savedItems, saved, refresher,
                 showSaved, shown, updates>>

Setter == SetItem \/ SaveStage \/ ResetStage \/ SetSaved \/ SetChanged

-----------------------------------------------------------------------------
(* refresh(), called by the main loop of SolverMonitor.                    *)
ReadSaved ==
  /\ BeginRefresh
  /\ refresher' = IF verbose > 0 THEN "clear" ELSE "done"
  /\ showSaved' = IF verbose > 0 THEN saved ELSE showSaved
  /\ UNCHANGED <<verbose, current, savedItems, saved, attributes_changed,
                 setter, shown, lines, updates>>

(* Faulty: refresh() leaves the flag saved as it is.                       *)
Cleared_Kept == saved
Cleared == FALSE

ClearSaved ==
  /\ refresher = "clear"
  /\ saved' = Cleared
  /\ refresher' = IF verbose = 1 THEN "test" ELSE "stage"
  /\ UNCHANGED <<vars, verbose, current, savedItems, attributes_changed,
                 setter, showSaved, shown, lines, updates>>

(* "verbose == 1, attributes were not updated since the last refresh"      *)
TestChanged ==
  /\ refresher = "test"
  /\ refresher' = IF attributes_changed THEN "stage" ELSE "done"
  /\ UNCHANGED <<vars, verbose, current, savedItems, saved,
                 attributes_changed, setter, showSaved, shown, lines,
                 updates>>

(* The items of a line are read and printed one after another.             *)
PrintItem ==
  /\ refresher \in DOMAIN NoItems
  /\ LET source == IF showSaved THEN savedItems ELSE current
     IN  shown' = [shown EXCEPT ![refresher] = source[refresher]]
  /\ refresher' = CASE refresher = "stage" -> "iterations"
                    [] refresher = "iterations" -> "residue"
                    [] refresher = "residue" -> "flag"
  /\ lines' = IF verbose = 1 /\ refresher = "residue" THEN lines + 1
                                                     ELSE lines
  /\ UNCHANGED <<vars, verbose, current, savedItems, saved,
                 attributes_changed, setter, showSaved, updates>>

(* Faulty: the flag is not reset.                                          *)
Unchanged_Kept == attributes_changed
Unchanged == FALSE

ResetChanged ==
  /\ refresher = "flag"
  /\ attributes_changed' = Unchanged
  /\ refresher' = "done"
  /\ UNCHANGED <<vars, verbose, current, savedItems, saved, setter,
                 showSaved, shown, lines, updates>>

Return ==
  /\ refresher = "done"
  /\ EndRefresh
  /\ refresher' = "none"
  /\ UNCHANGED <<verbose, current, savedItems, saved, attributes_changed,
                 setter, showSaved, shown, lines, updates>>

-----------------------------------------------------------------------------
(* The rest of the main loop, and of the main thread outside of setters.   *)
LoopStep ==
  /\ Start \/ CheckOuter \/ ReadRate \/ CheckInner \/ WakeUp \/ ResetStarted
       \/ ResetStopped
  /\ UNCHANGED attributes

RefreshStep ==
  \/ ReadSaved \/ ClearSaved \/ TestChanged \/ PrintItem \/ ResetChanged
  \/ Return

SessionStep == setter = "none" /\ MainStep /\ UNCHANGED attributes

MonitorNext ==
  \/ SessionStep
  \/ Setter
  \/ LoopStep
  \/ RefreshStep
  \/ Terminated /\ UNCHANGED attributes

MonitorSpec == MonitorInit /\ [][MonitorNext]_monitorVars

(* As in SolverMonitor; a setter that was called returns.                  *)
MonitorFairSpec ==
  /\ MonitorSpec
  /\ WF_monitorVars(LoopStep)
  /\ WF_monitorVars(RefreshStep)
  /\ WF_monitorVars(setter # "none" /\ Setter)
  /\ WF_monitorVars(Join /\ UNCHANGED attributes)

-----------------------------------------------------------------------------
(* With verbose = 1 at most one line is printed between the returns of two *)
(* setters, and before the first one: without an update a log does not go  *)
(* on, and of the refreshes that overlap a setter only one prints after it *)
(* returned (IterativeSolverMonitor::refresh).                             *)
LinesFollowUpdates == verbose = 1 => lines <= 1

(* A line is not printed again with the same values: refresh() returns if  *)
(* "attributes were not updated since the last refresh".                   *)
NoLineRepeated ==
  [][TestChanged /\ attributes_changed /\ ~showSaved /\ slept >= 0 =>
       shown # current]_monitorVars

(* With verbose = 2, once the solver makes no more updates, the monitor    *)
(* shows the current items, unless its loop is stopped: saved items do not *)
(* hide them for ever (IterativeSolverMonitor::refresh, setStage).         *)
LatestShown ==
  verbose = 2 /\ main = "solving" /\ setter = "none" /\ updates = MaxUpdates
    ~> \/ shown = current
       \/ main # "solving"
       \/ monitor \in {"resetStarted", "resetStopped", "exited"}

(* refresh() returns early only if the "attributes were not updated since  *)
(* the last refresh": the flag is not reset under an update that was not   *)
(* shown (IterativeSolverMonitor::refresh).                                *)
UpdatesKept ==
  [][ResetChanged /\ verbose = 1 /\ ~showSaved /\ setter = "none" =>
       shown = current]_monitorVars

(* "the values saved after the previous stage" are shown only if there are *)
(* any: they belong to a stage that has made iterations (refresh, setStage)*)
SavedStageShown == refresher = "flag" /\ showSaved => shown.iterations > 0
=============================================================================
