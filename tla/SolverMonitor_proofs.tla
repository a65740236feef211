------------------------ MODULE SolverMonitor_proofs ------------------------
(***************************************************************************)
(* The main loop of the solver monitor reacts promptly to stopMainLoop,    *)
(* a session ends only when it is stopped and the loop never spins, for    *)
(* every set of refresh rates and any number of sessions.  The monitor with*)
(* the steps of refresh() implements this loop, and a log written with     *)
(* verbose = 1 has at most one line between the returns of two setters.    *)
(***************************************************************************)
EXTENDS IterativeSolverMonitor, TLAPS

(* The main loop is still going to test the flag.                          *)
Looping == {"created", "outer", "refresh", "refreshing", "rate", "inner",
            "sleeping", "resetStarted", "resetStopped"}

(* The thread exists exactly while main is not idle.                       *)
ThreadOK == monitor = "none" <=> main = "idle"

(* Only the destructor exceeds the bound on explicit stops.                *)
StopsOK == main = "solving" => stops <= MaxStops

(* A stop of this session is not lost while the loop still tests the flag. *)
StopKept == stops > 0 /\ monitor \in Looping => stopped

(* Before a stop nothing is late, and a refresh that was chosen before the *)
(* stop is the first late one.                                             *)
LateOK ==
  /\ stops = 0 \/ monitor = "refresh" => lateRefreshes + lateSleeps = 0
  /\ lateRefreshes + lateSleeps <= 1

IndInv == TypeOK /\ ThreadOK /\ StopsOK /\ StopKept /\ LateOK

-----------------------------------------------------------------------------
LEMMA InitIndInv == Init => IndInv
<1> SUFFICES ASSUME Init PROVE IndInv
  OBVIOUS
<1>1. slept \in Int
  BY DEF Init
<1>2. TypeOK
  <2>1. /\ main \in {"idle", "solving", "joining"}
        /\ monitor \in MonitorPc
        /\ monitor \notin {"inner", "sleeping"}
    BY DEF Init, MonitorPc
  <2>2. /\ started \in BOOLEAN
        /\ stopped \in BOOLEAN
        /\ interrupted \in BOOLEAN
        /\ timeout_milliseconds \in RefreshRates \union {DefaultTimeout}
    BY DEF Init
  <2>3. /\ steps \in Int /\ i \in Nat
        /\ sessions \in 0 .. MaxSessions
        /\ stops \in 0 .. (MaxStops + 1)
        /\ lateRefreshes \in 0 .. 2 /\ lateSleeps \in 0 .. 2
    BY ConstantsAssumption DEF Init
  <2> QED
    BY <1>1, <2>1, <2>2, <2>3 DEF TypeOK
<1>3. ThreadOK /\ StopsOK /\ StopKept /\ LateOK
  BY ConstantsAssumption
     DEF Init, ThreadOK, StopsOK, StopKept, Looping, LateOK
<1> QED
  BY <1>2, <1>3 DEF IndInv

LEMMA MainIndInv == IndInv /\ MainStep => IndInv'
<1> SUFFICES ASSUME IndInv, MainStep PROVE IndInv'
  OBVIOUS
<1> USE ConstantsAssumption
    DEF IndInv, TypeOK, MonitorPc, ThreadOK, StopsOK, StopKept, Looping, LateOK
<1>1. CASE Launch
  BY <1>1 DEF Launch, flags
<1>2. CASE StopMainLoop
  BY <1>2 DEF StopMainLoop, loop
<1>3. CASE SetRefreshRate
  BY <1>3 DEF SetRefreshRate, loop, flags, history
<1>4. CASE Destroy
  BY <1>4 DEF Destroy, loop
<1>5. CASE Join
  BY <1>5 DEF Join, flags, history
<1> QED
  BY <1>1, <1>2, <1>3, <1>4, <1>5 DEF MainStep

LEMMA MonitorIndInv == IndInv /\ MonitorStep => IndInv'
<1> SUFFICES ASSUME IndInv, MonitorStep PROVE IndInv'
  OBVIOUS
<1> USE ConstantsAssumption
    DEF IndInv, TypeOK, MonitorPc, ThreadOK, StopsOK, StopKept, Looping, LateOK
<1>1. CASE Start
  BY <1>1 DEF Start, history
<1>2. CASE CheckOuter
  BY <1>2 DEF CheckOuter, flags, history
<1>3. CASE BeginRefresh
  BY <1>3 DEF BeginRefresh, CountLate, flags
<1>4. CASE EndRefresh
  BY <1>4 DEF EndRefresh, flags
<1>5. CASE ReadRate
  BY <1>5 DEF ReadRate, flags, history, timeout_base, DefaultTimeout
<1>6. CASE CheckInner
  BY <1>6 DEF CheckInner, CountLate, flags
<1>7. CASE WakeUp
  BY <1>7 DEF WakeUp, flags, timeout_base
<1>8. CASE ResetStarted
  BY <1>8 DEF ResetStarted, history
<1>9. CASE ResetStopped
  BY <1>9 DEF ResetStopped, history
<1> QED
  BY <1>1, <1>2, <1>3, <1>4, <1>5, <1>6, <1>7, <1>8, <1>9 DEF MonitorStep

LEMMA StutterIndInv == IndInv /\ UNCHANGED vars => IndInv'
  BY DEF IndInv, TypeOK, MonitorPc, ThreadOK, StopsOK, StopKept, Looping, LateOK, vars

LEMMA SpecIndInv == Spec => []IndInv
<1>1. IndInv /\ [Next]_vars => IndInv'
  BY MainIndInv, MonitorIndInv, StutterIndInv DEF Next, Terminated
<1> QED
  BY <1>1, InitIndInv, PTL DEF Spec

-----------------------------------------------------------------------------
(* After stopMainLoop the loop begins at most one more refresh or sleep,   *)
(* whatever the refresh rate, the number of sessions and of stops.         *)
THEOREM PromptStop == Spec => []StopHonoured
<1>1. IndInv => StopHonoured
  BY DEF IndInv, LateOK, StopHonoured
<1> QED
  BY <1>1, SpecIndInv, PTL

-----------------------------------------------------------------------------
(***************************************************************************)
(* Until the program calls stopMainLoop itself, the destructor's stop is   *)
(* the only one, and it is consumed by the loop it was meant for.          *)
(***************************************************************************)
OnlyDestructorStops ==
  ~interrupted =>
    /\ main = "solving" => stops = 0 /\ ~stopped
    /\ main = "idle" => ~stopped
    /\ main = "joining" => stops > 0
    /\ monitor = "exited" => ~stopped
    /\ EndsOnlyWhenStopped

LEMMA OnlyDestructorStopsStep ==
  ASSUME IndInv, OnlyDestructorStops, [Next]_vars
  PROVE  OnlyDestructorStops'
<1> USE ConstantsAssumption
    DEF IndInv, TypeOK, MonitorPc, ThreadOK, StopsOK, StopKept, Looping,
        OnlyDestructorStops, EndsOnlyWhenStopped
<1>1. CASE Launch
  BY <1>1 DEF Launch, flags
<1>2. CASE StopMainLoop
  BY <1>2 DEF StopMainLoop, loop
<1>3. CASE SetRefreshRate
  BY <1>3 DEF SetRefreshRate, loop, flags, history
<1>4. CASE Destroy
  BY <1>4 DEF Destroy, loop
<1>5. CASE Join
  BY <1>5 DEF Join, flags, history
<1>6. CASE Start
  BY <1>6 DEF Start, history
<1>7. CASE CheckOuter
  BY <1>7 DEF CheckOuter, flags, history
<1>8. CASE BeginRefresh \/ EndRefresh \/ WakeUp
  BY <1>8 DEF BeginRefresh, EndRefresh, WakeUp, flags
<1>9. CASE ReadRate
  BY <1>9 DEF ReadRate, flags, history
<1>10. CASE CheckInner
  BY <1>10 DEF CheckInner, flags
<1>11. CASE ResetStarted
  BY <1>11 DEF ResetStarted, history
<1>12. CASE ResetStopped
  BY <1>12 DEF ResetStopped, history
<1>13. CASE UNCHANGED vars
  BY <1>13 DEF vars
<1> QED
  BY <1>1, <1>2, <1>3, <1>4, <1>5, <1>6, <1>7, <1>8, <1>9, <1>10, <1>11,
     <1>12, <1>13 DEF Next, MainStep, MonitorStep, Terminated

(* As long as the program leaves the stopping to the destructors, the loop *)
(* of a session ends only when that session is stopped.                    *)
THEOREM SessionsRunUntilStopped == Spec => []EndsOnlyWhenStopped
<1>1. Init => OnlyDestructorStops
  BY DEF Init, OnlyDestructorStops, EndsOnlyWhenStopped
<1>2. IndInv /\ OnlyDestructorStops /\ [Next]_vars => OnlyDestructorStops'
  BY OnlyDestructorStopsStep
<1>3. OnlyDestructorStops => EndsOnlyWhenStopped
  BY DEF OnlyDestructorStops, EndsOnlyWhenStopped
<1> QED
  BY <1>1, <1>2, <1>3, SpecIndInv, PTL DEF Spec

-----------------------------------------------------------------------------
(***************************************************************************)
(* Since the last refresh the loop has slept once, unless it has just begun*)
(* to sleep or has been stopped: a stopped loop leaves the inner loop early*)
(* but then does not refresh.                                              *)
(***************************************************************************)
SleptOK ==
  /\ monitor = "created" => slept < 0
  /\ monitor \in {"rate", "inner", "sleeping"} => slept >= 0
  /\ monitor = "inner" => i = 0 \/ slept >= timeout_base
  /\ monitor = "outer" => slept < 0 \/ slept >= timeout_base \/ stopped
  /\ monitor \in {"refresh", "refreshing"} => 
       slept < 0 \/ slept >= timeout_base

LEMMA SleptStep ==
  ASSUME IndInv, SleptOK, [Next]_vars
  PROVE  SleptOK'
<1>1. /\ slept \in Int /\ i \in Nat /\ steps \in Int
      /\ monitor = "inner" => steps > 0
      /\ monitor = "none" <=> main = "idle"
  BY DEF IndInv, TypeOK, ThreadOK
<1> USE <1>1 DEF SleptOK, timeout_base
<1>2. CASE Launch
  BY <1>2 DEF Launch
<1>3. CASE StopMainLoop \/ SetRefreshRate \/ Destroy
  BY <1>3 DEF StopMainLoop, SetRefreshRate, Destroy, loop, flags, history
<1>4. CASE Join
  BY <1>4 DEF Join
<1>5. CASE Start
  BY <1>5 DEF Start, history
<1>6. CASE CheckOuter
  BY <1>6 DEF CheckOuter, flags, history
<1>7. CASE BeginRefresh \/ EndRefresh
  BY <1>7 DEF BeginRefresh, EndRefresh, flags
<1>8. CASE ReadRate
  BY <1>8 DEF ReadRate, flags, history
<1>9. CASE CheckInner
  BY <1>9 DEF CheckInner, flags
<1>10. CASE WakeUp
  BY <1>10 DEF WakeUp, flags
<1>11. CASE ResetStarted \/ ResetStopped
  BY <1>11 DEF ResetStarted, ResetStopped, history
<1>12. CASE UNCHANGED vars
  BY <1>12 DEF vars
<1> QED
  BY <1>2, <1>3, <1>4, <1>5, <1>6, <1>7, <1>8, <1>9, <1>10, <1>11, <1>12
     DEF Next, MainStep, MonitorStep, Terminated

(* However small the refresh rate and whenever it is changed, consecutive  *)
(* refreshes are at least one base timeout apart (runMainLoop).            *)
THEOREM NeverSpins == Spec => []RefreshesApart
<1>1. Init => SleptOK
  BY DEF Init, SleptOK
<1>2. IndInv /\ SleptOK /\ [Next]_vars => SleptOK'
  BY SleptStep
<1>3. IndInv /\ SleptOK => RefreshesApart
  BY DEF IndInv, TypeOK, SleptOK, RefreshesApart, timeout_base
<1> QED
  BY <1>1, <1>2, <1>3, SpecIndInv, PTL DEF Spec

-----------------------------------------------------------------------------
(* IterativeSolverMonitor.                                                 *)

(* A line is printed only under the flag.  After it the flag is reset, or  *)
(* about to be, until the next setter returns.                             *)
Counted ==
  /\ lines \in {0, 1}
  /\ lines = 1 /\ attributes_changed => refresher = "flag"
  /\ refresher \in {"stage", "iterations", "residue"} => attributes_changed

(* The loop is in refresh() as long as refresh() runs, and the thread is   *)
(* gone before the next session.                                           *)
Placed ==
  /\ refresher # "none" => monitor = "refreshing"
  /\ main = "idle" => monitor = "none"

LinesInv == Placed /\ (verbose = 1 => Counted)

(* Steps that leave the attributes alone preserve the count ...            *)
LEMMA LinesUnchanged ==
  ASSUME LinesInv, UNCHANGED attributes, Placed'
  PROVE  LinesInv'
  BY DEF LinesInv, Counted, attributes

(* ... and do not leave or enter refresh().                                *)
LEMMA LinesElsewhere ==
  ASSUME LinesInv, SessionStep \/ LoopStep
  PROVE  LinesInv'
  <1>1. UNCHANGED attributes
    BY DEF SessionStep, LoopStep
  <1>2. CASE MainStep
    <2>1. Placed'
      <3>1. CASE Launch
        BY <1>1, <3>1 DEF Launch, LinesInv, Placed, attributes
      <3>2. CASE StopMainLoop
        BY <1>1, <3>2 DEF StopMainLoop, loop, LinesInv, Placed, attributes
      <3>3. CASE SetRefreshRate
        BY <1>1, <3>3 DEF SetRefreshRate, loop, LinesInv, Placed, attributes
      <3>4. CASE Destroy
        BY <1>1, <3>4 DEF Destroy, loop, LinesInv, Placed, attributes
      <3>5. CASE Join
        BY <1>1, <3>5 DEF Join, LinesInv, Placed, attributes
      <3> QED
        BY <1>2, <3>1, <3>2, <3>3, <3>4, <3>5 DEF MainStep
    <2> QED
      BY <1>1, <2>1, LinesUnchanged
  <1>3. CASE LoopStep
    <2>1. monitor # "refreshing" /\ monitor # "none" /\ UNCHANGED main
      BY <1>3 DEF LoopStep, Start, CheckOuter, ReadRate, CheckInner, WakeUp,
                  ResetStarted, ResetStopped
    <2>2. Placed'
      BY <1>1, <2>1 DEF LinesInv, Placed, attributes
    <2> QED
      BY <1>1, <2>2, LinesUnchanged
  <1> QED
    BY <1>2, <1>3 DEF SessionStep

(* When a setter sets the flag a new count begins.                         *)
LEMMA LinesSetter ==
  ASSUME LinesInv, Setter
  PROVE  LinesInv'
  <1>1. CASE SetItem
    BY <1>1 DEF SetItem, BeginSetter, Placed, vars, LinesInv, Counted
  <1>2. CASE SaveStage
    BY <1>2 DEF SaveStage, Placed, vars, BeginSetter, LinesInv, Counted
  <1>3. CASE ResetStage
    BY <1>3 DEF ResetStage, Placed, vars, LinesInv, Counted
  <1>4. CASE SetSaved
    BY <1>4 DEF SetSaved, Placed, vars, LinesInv, Counted
  <1>5. CASE SetChanged
    BY <1>5 DEF SetChanged, Placed, vars, LinesInv, Counted
  <1> QED
    BY <1>1, <1>2, <1>3, <1>4, <1>5 DEF Setter

(* refresh() prints a line only under a flag that it resets afterwards.    *)
LEMMA LinesRefresh ==
  ASSUME LinesInv, RefreshStep
  PROVE  LinesInv'
  <1>1. CASE ReadSaved
    BY <1>1 DEF ReadSaved, BeginRefresh, Placed, LinesInv, Counted
  <1>2. CASE ClearSaved
    BY <1>2 DEF ClearSaved, Placed, vars, LinesInv, Counted
  <1>3. CASE TestChanged
    BY <1>3 DEF TestChanged, Placed, vars, LinesInv, Counted
  <1>4. CASE PrintItem
    BY <1>4 DEF PrintItem, Placed, vars, NoItems, LinesInv, Counted
  <1>5. CASE ResetChanged
    BY <1>5 DEF ResetChanged, Placed, vars, Unchanged, LinesInv, Counted
  <1>6. CASE Return
    BY <1>6 DEF Return, EndRefresh, Placed, LinesInv, Counted
  <1> QED
    BY <1>1, <1>2, <1>3, <1>4, <1>5, <1>6 DEF RefreshStep

LEMMA LinesHold == MonitorSpec => []LinesInv
  <1>1. MonitorInit => LinesInv
    BY DEF MonitorInit, Init, Placed, LinesInv, Counted
  <1>2. LinesInv /\ [MonitorNext]_monitorVars => LinesInv'
    <2> SUFFICES ASSUME LinesInv, [MonitorNext]_monitorVars
                 PROVE  LinesInv'
      OBVIOUS
    <2>1. CASE Setter
      BY <2>1, LinesSetter
    <2>2. CASE RefreshStep
      BY <2>2, LinesRefresh
    <2>3. CASE SessionStep \/ LoopStep
      BY <2>3, LinesElsewhere
    <2>4. CASE UNCHANGED monitorVars \/ (Terminated /\ UNCHANGED attributes)
      BY <2>4, LinesUnchanged
         DEF monitorVars, vars, attributes, Terminated, LinesInv, Placed
    <2> QED
      BY <2>1, <2>2, <2>3, <2>4 DEF MonitorNext
  <1> QED
    BY <1>1, <1>2, PTL DEF MonitorSpec

(* However setters and refreshes interleave, the log has at most one line  *)
(* between the returns of two setters (IterativeSolverMonitor::refresh with*)
(* verbose = 1).                                                           *)
THEOREM NoLineWithoutUpdate == MonitorSpec => []LinesFollowUpdates
  <1>1. LinesInv => LinesFollowUpdates
    BY DEF LinesInv, Counted, LinesFollowUpdates
  <1> QED
    BY <1>1, LinesHold, PTL

(* The steps of refresh() and of the setters are no steps of the main loop *)
(* but for the call and the return of refresh().                           *)
LEMMA ImplementsStep == [MonitorNext]_monitorVars => [Next]_vars
  <1> SUFFICES ASSUME [MonitorNext]_monitorVars
               PROVE  [Next]_vars
    OBVIOUS
  <1>1. CASE SessionStep
    BY <1>1 DEF SessionStep, Next
  <1>2. CASE Setter
    <2>1. UNCHANGED vars
      BY <1>2 DEF Setter, SetItem, SaveStage, ResetStage, SetSaved, SetChanged
    <2> QED
      BY <2>1
  <1>3. CASE LoopStep
    BY <1>3 DEF LoopStep, Next, MonitorStep
  <1>4. CASE RefreshStep
    <2>1. BeginRefresh \/ EndRefresh \/ UNCHANGED vars
      BY <1>4 DEF RefreshStep, ReadSaved, ClearSaved, TestChanged, PrintItem,
                  ResetChanged, Return
    <2> QED
      BY <2>1 DEF Next, MonitorStep
  <1>5. CASE Terminated /\ UNCHANGED attributes
    BY <1>5 DEF Next
  <1>6. CASE UNCHANGED monitorVars
    BY <1>6 DEF monitorVars
  <1> QED
    BY <1>1, <1>2, <1>3, <1>4, <1>5, <1>6 DEF MonitorNext

(* IterativeSolverMonitor is a SolverMonitor: whatever refresh() does, the *)
(* main loop behaves as SolverMonitor::runMainLoop with an abstract one.   *)
THEOREM ImplementsSolverMonitor == MonitorSpec => Spec
  <1>1. MonitorInit => Init
    BY DEF MonitorInit
  <1> QED
    BY <1>1, ImplementsStep, PTL DEF MonitorSpec, Spec

(* So a stop is prompt, and a session ends only when stopped, with the     *)
(* attributes of IterativeSolverMonitor as well (SolverMonitor::           *)
(* stopMainLoop, runMainLoop).                                             *)
THEOREM MonitorStops ==
  MonitorSpec => [](StopHonoured /\ EndsOnlyWhenStopped)
  BY ImplementsSolverMonitor, PromptStop, SessionsRunUntilStopped, PTL

-----------------------------------------------------------------------------
(* Types.  refresh() runs inside the main loop and a setter inside the     *)
(* solver.                                                                 *)
ItemsOK ==
  /\ verbose \in Verbosities
  /\ current \in Items /\ savedItems \in Items /\ shown \in Items
  /\ saved \in BOOLEAN /\ attributes_changed \in BOOLEAN
  /\ showSaved \in BOOLEAN
  /\ setter \in {"none", "reset", "saved", "changed"}
  /\ refresher \in {"none", "clear", "test", "flag", "done", "stage",
                    "iterations", "residue"}
  /\ setter # "none" => main = "solving"
  /\ verbose # 1 => lines = 0
  /\ updates \in 0 .. MaxUpdates

LEMMA ItemsInit == MonitorInit => ItemsOK
  <1>1. NoItems \in Items
    BY MonitorAssumption DEF NoItems, Items
  <1> SUFFICES ASSUME MonitorInit PROVE ItemsOK
    OBVIOUS
  <1>2. /\ saved \in BOOLEAN /\ attributes_changed \in BOOLEAN
        /\ showSaved \in BOOLEAN
    BY DEF MonitorInit
  <1>3. current \in Items /\ savedItems \in Items /\ shown \in Items
    BY <1>1 DEF MonitorInit
  <1>4. /\ verbose \in Verbosities /\ setter = "none" /\ refresher = "none"
        /\ lines = 0 /\ updates = 0
    BY DEF MonitorInit
  <1> QED
    BY <1>2, <1>3, <1>4, MonitorAssumption DEF ItemsOK

LEMMA ItemsUnchanged ==
  ASSUME ItemsOK, UNCHANGED attributes, setter = "none" \/ UNCHANGED main
  PROVE  ItemsOK'
  BY DEF ItemsOK, attributes

LEMMA ItemsSetter ==
  ASSUME ItemsOK, Setter
  PROVE  ItemsOK'
  <1> USE MonitorAssumption DEF ItemsOK, vars
  <1>1. CASE SetItem
    <2>1. /\ updates' \in 0 .. MaxUpdates
          /\ UNCHANGED <<main, verbose, savedItems, shown, lines>>
      BY <1>1 DEF SetItem, BeginSetter
    <2>2. current' \in Items
      BY <1>1, <2>1 DEF SetItem, Items
    <2> QED
      BY <1>1, <2>1, <2>2 DEF SetItem, BeginSetter
  <1>2. CASE SaveStage
    BY <1>2 DEF SaveStage, BeginSetter
  <1>3. CASE ResetStage
    <2>1. current' \in Items
      <3>1. NoItems \in Items
        BY MonitorAssumption DEF NoItems, Items
      <3>2. current' = [NoItems EXCEPT !["stage"] = updates]
        BY <1>3 DEF ResetStage
      <3> QED
        BY <3>1, <3>2 DEF Items
    <2> QED
      BY <1>3, <2>1 DEF ResetStage
  <1>4. CASE SetSaved
    BY <1>4 DEF SetSaved
  <1>5. CASE SetChanged
    BY <1>5 DEF SetChanged
  <1> QED
    BY <1>1, <1>2, <1>3, <1>4, <1>5 DEF Setter

LEMMA ItemsRefresh ==
  ASSUME ItemsOK, RefreshStep
  PROVE  ItemsOK'
  <1> USE DEF ItemsOK, vars
  <1>1. CASE ReadSaved
    BY <1>1 DEF ReadSaved, BeginRefresh
  <1>2. CASE ClearSaved
    BY <1>2 DEF ClearSaved, Cleared
  <1>3. CASE TestChanged
    BY <1>3 DEF TestChanged
  <1>4. CASE PrintItem
    <2>1. refresher \in {"stage", "iterations", "residue"}
      BY <1>4 DEF PrintItem, NoItems
    <2>2. shown' \in Items
      <3> DEFINE source == IF showSaved THEN savedItems ELSE current
      <3>1. /\ source \in Items
            /\ shown' = [shown EXCEPT ![refresher] = source[refresher]]
        BY <1>4 DEF PrintItem
      <3> HIDE DEF source
      <3>2. source[refresher] \in 0 .. MaxUpdates
        BY <2>1, <3>1 DEF Items
      <3> QED
        BY <2>1, <3>1, <3>2 DEF Items
    <2> QED
      BY <1>4, <2>1, <2>2 DEF PrintItem
  <1>5. CASE ResetChanged
    BY <1>5 DEF ResetChanged, Unchanged
  <1>6. CASE Return
    BY <1>6 DEF Return, EndRefresh
  <1> QED
    BY <1>1, <1>2, <1>3, <1>4, <1>5, <1>6 DEF RefreshStep

LEMMA ItemsStep ==
  ASSUME ItemsOK, [MonitorNext]_monitorVars
  PROVE  ItemsOK'
  <1>1. CASE Setter
    BY <1>1, ItemsSetter
  <1>2. CASE RefreshStep
    BY <1>2, ItemsRefresh
  <1>3. CASE SessionStep
    BY <1>3, ItemsUnchanged DEF SessionStep
  <1>4. CASE LoopStep
    <2>1. UNCHANGED main /\ UNCHANGED attributes
      BY <1>4 DEF LoopStep, Start, CheckOuter, ReadRate, CheckInner, WakeUp,
                  ResetStarted, ResetStopped
    <2> QED
      BY <2>1, ItemsUnchanged
  <1>5. CASE UNCHANGED monitorVars \/ (Terminated /\ UNCHANGED attributes)
    BY <1>5, ItemsUnchanged DEF monitorVars, vars, Terminated
  <1> QED
    BY <1>1, <1>2, <1>3, <1>4, <1>5 DEF MonitorNext

LEMMA ItemsTyped == IndInv /\ LinesInv /\ ItemsOK => MonitorTypeOK
  <1> SUFFICES ASSUME IndInv, LinesInv, ItemsOK
               PROVE  MonitorTypeOK
    OBVIOUS
  <1>1. TypeOK
    BY DEF IndInv
  <1>2. refresher # "none" => monitor = "refreshing"
    BY DEF LinesInv, Placed
  <1>3. lines \in Nat
    BY DEF LinesInv, Counted, ItemsOK
  <1>4. DOMAIN NoItems = {"stage", "iterations", "residue"}
    BY DEF NoItems
  <1> QED
    BY <1>1, <1>2, <1>3, <1>4 DEF ItemsOK, MonitorTypeOK

(* Types: in particular refresh() runs only while the loop is in it and a  *)
(* setter only while the solver runs (IterativeSolverMonitor).             *)
THEOREM MonitorTypes == MonitorSpec => []MonitorTypeOK
  <1>1. ItemsOK /\ [MonitorNext]_monitorVars => ItemsOK'
    BY ItemsStep
  <1> QED
    BY <1>1, ItemsInit, ItemsTyped, LinesHold, ImplementsSolverMonitor,
       SpecIndInv, PTL DEF MonitorSpec

(* The loop never spins with the attributes either.                        *)
THEOREM MonitorNeverSpins == MonitorSpec => []RefreshesApart
  BY ImplementsSolverMonitor, NeverSpins, PTL
=============================================================================
