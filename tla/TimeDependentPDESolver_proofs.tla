-------------------- MODULE TimeDependentPDESolver_proofs -------------------
(***************************************************************************)
(* Proofs about the time loop, for all configurations of times, solvers,   *)
(* iteration limits, steps and roundings: its timers, and the snapshots    *)
(* with the times they are made for.                                       *)
(***************************************************************************)
EXTENDS TimeDependentPDESolver, TLAPS

(* The minimum of two numbers.                                             *)
LEMMA MinOfTwo ==
  ASSUME NEW a \in Int, NEW b \in Int
  PROVE  Min({a, b}) = IF a <= b THEN a ELSE b
<1>1. CASE a <= b
  <2>1. Min({a, b}) = CHOOSE x \in {a, b} : \A y \in {a, b} : x <= y
    BY DEF Min
  <2>2. \A x \in {a, b} : (\A y \in {a, b} : x <= y) => x = a
    BY <1>1
  <2>3. \A y \in {a, b} : a <= y
    BY <1>1
  <2> QED
    BY <1>1, <2>1, <2>2, <2>3
<1>2. CASE ~(a <= b)
  <2>1. Min({a, b}) = CHOOSE x \in {a, b} : \A y \in {a, b} : x <= y
    BY DEF Min
  <2>2. \A x \in {a, b} : (\A y \in {a, b} : x <= y) => x = b
    BY <1>2
  <2>3. \A y \in {a, b} : b <= y
    BY <1>2
  <2> QED
    BY <1>2, <2>1, <2>2, <2>3
<1> QED
  BY <1>1, <1>2

LEMMA MaxOfTwo ==
  ASSUME NEW a \in Int, NEW b \in Int
  PROVE  Max({a, b}) = IF a >= b THEN a ELSE b
<1>1. CASE a >= b
  <2>1. Max({a, b}) = CHOOSE x \in {a, b} : \A y \in {a, b} : x >= y
    BY DEF Max
  <2>2. \A x \in {a, b} : (\A y \in {a, b} : x >= y) => x = a
    BY <1>1
  <2>3. \A y \in {a, b} : a >= y
    BY <1>1
  <2> QED
    BY <1>1, <2>1, <2>2, <2>3
<1>2. CASE ~(a >= b)
  <2>1. Max({a, b}) = CHOOSE x \in {a, b} : \A y \in {a, b} : x >= y
    BY DEF Max
  <2>2. \A x \in {a, b} : (\A y \in {a, b} : x >= y) => x = b
    BY <1>2
  <2>3. \A y \in {a, b} : b >= y
    BY <1>2
  <2> QED
    BY <1>2, <2>1, <2>2, <2>3
<1> QED
  BY <1>1, <1>2

-----------------------------------------------------------------------------
(* The timers.                                                             *)

(* A timer accounts for a time: what it has accumulated, and what has      *)
(* passed since it was started.                                            *)
Accounts(timer, clock, meant) ==
  /\ timer \in Timers
  /\ timer.initial <= clock
  /\ meant = IF timer.stopState THEN timer.total
             ELSE timer.total + (clock - timer.initial)

RunningIn(p) ==
  CASE p = "setup"     -> {"total"}
    [] p = "io"        -> {"total", "io"}
    [] p = "loop"      -> {"total", "compute"}
    [] p = "computing" -> {"total", "compute", "main"}

(* After a successful run all timers are stopped; total by the epilog.     *)
StoppedAfter(p) ==
  IF p = "epilog" THEN TimerNames \ {"total"} ELSE TimerNames

(* mainTimer is reset after the first snapshot, when nothing has been      *)
(* computed.                                                               *)
TimersOK ==
  /\ now \in Nat
  /\ timers \in [TimerNames -> Timers]
  /\ spent \in [TimerNames -> Nat]
  /\ step \in Nat
  /\ phase \in {"setup", "io", "loop", "computing", "epilog", "done"}
  /\ \A x \in TimerNames : Accounts(timers[x], now, spent[x])
  /\ phase \in {"setup", "io", "loop", "computing"} =>
       \A x \in TimerNames : timers[x].stopState <=> x \notin RunningIn(phase)
  /\ phase = "setup" =>
       timers["io"] = reset /\ timers["compute"] = reset
  /\ phase = "setup" \/ (phase = "io" /\ step = 0) => timers["main"] = reset
  /\ phase \in {"epilog", "done"} /\ returnCode = "true" =>
       \A x \in StoppedAfter(phase) : timers[x].stopState

(* start and stop without EXCEPT.                                          *)
LEMMA StartRecord ==
  ASSUME NEW timer \in Timers, NEW clock
  PROVE  start(timer, clock) = [initial |-> clock, total |-> timer.total,
                                stopState |-> FALSE]
<1> DEFINE begun == [timer EXCEPT !.initial = clock]
<1>1. begun = [initial |-> clock, total |-> timer.total,
               stopState |-> timer.stopState]
  BY DEF Timers
<1>2. start(timer, clock) = [begun EXCEPT !.stopState = FALSE]
  BY Zenon DEF start
<1> HIDE DEF begun
<1> QED
  BY <1>1, <1>2

LEMMA StopRecord ==
  ASSUME NEW timer \in Timers, NEW clock, timer.stopState = FALSE
  PROVE  stop(timer, clock) =
           [initial |-> timer.initial,
            total |-> timer.total + (clock - timer.initial),
            stopState |-> TRUE]
<1> DEFINE sum == timer.total + (clock - timer.initial)
           added == [timer EXCEPT !.total = sum]
<1>1. added = [initial |-> timer.initial, total |-> sum,
               stopState |-> timer.stopState]
  BY DEF Timers
<1>2. stop(timer, clock) = [added EXCEPT !.stopState = TRUE]
  BY Zenon DEF stop
<1> HIDE DEF sum, added
<1>3. stop(timer, clock) = [initial |-> timer.initial, total |-> sum,
                            stopState |-> TRUE]
  BY <1>1, <1>2
<1> QED
  BY <1>3 DEF sum

LEMMA StartAccounts ==
  ASSUME NEW timer, NEW clock \in Nat, NEW meant,
         Accounts(timer, clock, meant), timer.stopState
  PROVE  /\ Accounts(start(timer, clock), clock, meant)
         /\ start(timer, clock).stopState = FALSE
<1>1. timer \in Timers
  BY DEF Accounts
<1> DEFINE begun == start(timer, clock)
<1>2. begun = [initial |-> clock, total |-> timer.total, stopState |-> FALSE]
  BY <1>1, StartRecord
<1> HIDE DEF begun
<1>3. timer.total \in Nat /\ meant = timer.total
  BY DEF Accounts, Timers
<1>4. begun \in Timers
  BY <1>2, <1>3 DEF Timers
<1>5. Accounts(begun, clock, meant)
  BY <1>2, <1>3, <1>4 DEF Accounts
<1>6. begun.stopState = FALSE
  BY <1>2
<1> QED
  BY <1>5, <1>6 DEF begun

LEMMA StopAccounts ==
  ASSUME NEW timer, NEW clock \in Nat, NEW meant,
         Accounts(timer, clock, meant)
  PROVE  /\ Accounts(stop(timer, clock), clock, meant)
         /\ stop(timer, clock).stopState = TRUE
<1>1. timer.stopState \in BOOLEAN /\ timer \in Timers
  BY DEF Accounts, Timers
<1>2. CASE timer.stopState = TRUE
  BY <1>2 DEF stop
<1>3. CASE timer.stopState = FALSE
  <2> DEFINE halted == stop(timer, clock)
             sum == timer.total + (clock - timer.initial)
  <2>1. halted = [initial |-> timer.initial, total |-> sum,
                  stopState |-> TRUE]
    BY <1>1, <1>3, StopRecord
  <2>2. /\ timer.initial \in Nat /\ timer.initial <= clock
        /\ sum \in Nat /\ meant = sum
    BY <1>3 DEF Accounts, Timers
  <2> HIDE DEF halted, sum
  <2>3. halted \in Timers
    BY <2>1, <2>2 DEF Timers
  <2>4. Accounts(halted, clock, meant)
    BY <2>1, <2>2, <2>3 DEF Accounts
  <2>5. halted.stopState = TRUE
    BY <2>1
  <2> QED
    BY <2>4, <2>5 DEF halted
<1> QED
  BY <1>1, <1>2, <1>3

LEMMA ResetAccounts ==
  /\ reset \in Timers
  /\ reset.stopState = TRUE
  /\ \A clock \in Nat : \A meant : Accounts(reset, clock, meant) <=> meant = 0
  BY DEF Accounts, reset, Timers

LEMMA TickAccounts ==
  ASSUME NEW timer, NEW clock \in Nat, NEW meant,
         Accounts(timer, clock, meant)
  PROVE  /\ timer.stopState => Accounts(timer, clock + 1, meant + 0)
         /\ ~timer.stopState => Accounts(timer, clock + 1, meant + 1)
  BY DEF Accounts, Timers

LEMMA TimersInit == Init => TimersOK
<1> SUFFICES ASSUME Init PROVE TimersOK
  OBVIOUS
<1> USE DEF Init
<1>1. start(reset, 0).stopState = FALSE
  BY ResetAccounts, StartAccounts
<1>2. Accounts(start(reset, 0), 0, 0)
  BY ResetAccounts, StartAccounts
<1>3. timers["total"] = start(reset, 0)
  BY DEF TimerNames
<1>4. \A x \in TimerNames \ {"total"} : timers[x] = reset
  BY DEF TimerNames
<1>5. \A x \in TimerNames : Accounts(timers[x], now, spent[x])
  BY <1>2, <1>3, <1>4, ResetAccounts
<1>6. \A x \in TimerNames : timers[x] \in Timers
  BY <1>5 DEF Accounts
<1>7. \A x \in TimerNames : timers[x].stopState <=> x \notin RunningIn(phase)
  BY <1>1, <1>3, <1>4, ResetAccounts DEF RunningIn
<1>8. timers \in [TimerNames -> Timers]
  BY <1>6
<1> QED
  BY <1>4, <1>5, <1>7, <1>8 DEF TimersOK, TimerNames

(* A step that leaves the timers and the clock alone.                      *)
LEMMA SameTimers ==
  ASSUME TimersOK, UNCHANGED <<timers, now, spent>>
  PROVE  /\ now' \in Nat
         /\ timers' \in [TimerNames -> Timers]
         /\ spent' \in [TimerNames -> Nat]
         /\ \A x \in TimerNames : Accounts(timers'[x], now', spent'[x])
  BY DEF TimersOK

LEMMA TimersNext == TimersOK /\ [Next]_vars => TimersOK'
<1> SUFFICES ASSUME TimersOK, [Next]_vars PROVE TimersOK'
  OBVIOUS
<1>0. /\ now \in Nat /\ step \in Nat
      /\ timers \in [TimerNames -> Timers] /\ spent \in [TimerNames -> Nat]
      /\ \A x \in TimerNames : Accounts(timers[x], now, spent[x])
  BY DEF TimersOK
<1>1. CASE SetupFails
  BY <1>1, SameTimers DEF SetupFails, TimersOK
<1>2. CASE Setup
  <2>1. /\ phase = "setup" /\ phase' = "io" /\ step' = 0
        /\ timers' = [timers EXCEPT !["io"] = start(reset, now),
                                   !["compute"] = reset]
        /\ UNCHANGED <<now, spent>>
    BY <1>2 DEF Setup
  <2>2. /\ timers["io"] = reset /\ timers["compute"] = reset
        /\ timers["main"] = reset
        /\ \A x \in TimerNames : timers[x].stopState <=> x \notin {"total"}
    BY <2>1 DEF TimersOK, RunningIn
  <2>3. /\ Accounts(start(reset, now), now, spent["io"])
        /\ start(reset, now).stopState = FALSE
    BY <1>0, <2>2, ResetAccounts, StartAccounts DEF TimerNames
  <2>4. /\ timers'["io"] = start(reset, now)
        /\ \A x \in TimerNames \ {"io"} : timers'[x] = timers[x]
    BY <1>0, <2>1, <2>2 DEF TimerNames
  <2>5. \A x \in TimerNames : Accounts(timers'[x], now', spent'[x])
    BY <1>0, <2>1, <2>3, <2>4
  <2>6. timers' \in [TimerNames -> Timers]
    BY <1>0, <2>1, <2>3, ResetAccounts DEF Accounts
  <2>7. \A x \in TimerNames : timers'[x].stopState <=> x \notin {"total", "io"}
    BY <2>2, <2>3, <2>4
  <2>8. timers'["main"] = reset
    BY <2>2, <2>4 DEF TimerNames
  <2> QED
    BY <1>0, <2>1, <2>5, <2>6, <2>7, <2>8 DEF TimersOK, RunningIn
<1>3. CASE MakeSnapshot
  <2>1. /\ phase = "io" /\ phase' = "loop" /\ timers' = AfterSnapshot
        /\ UNCHANGED <<step, now, spent>>
    BY <1>3 DEF MakeSnapshot
  <2>2. \A x \in TimerNames : timers[x].stopState <=> x \notin {"total", "io"}
    BY <2>1 DEF TimersOK, RunningIn
  <2>3. step = 0 => timers["main"] = reset
    BY <2>1 DEF TimersOK
  <2>4. /\ timers'["io"] = stop(timers["io"], now)
        /\ timers'["compute"] = start(timers["compute"], now)
        /\ timers'["main"] = timers["main"]
        /\ timers'["total"] = timers["total"]
        /\ DOMAIN timers' = TimerNames
        /\ timers' = [x \in TimerNames |-> timers'[x]]
    BY <1>0, <2>1, <2>3 DEF AfterSnapshot, TimerNames
  <2>5. /\ Accounts(stop(timers["io"], now), now, spent["io"])
        /\ stop(timers["io"], now).stopState = TRUE
    BY <1>0, StopAccounts DEF TimerNames
  <2>6. /\ Accounts(start(timers["compute"], now), now, spent["compute"])
        /\ start(timers["compute"], now).stopState = FALSE
    BY <1>0, <2>2, StartAccounts DEF TimerNames
  <2>7. \A x \in TimerNames : Accounts(timers'[x], now', spent'[x])
    BY <1>0, <2>1, <2>4, <2>5, <2>6 DEF TimerNames
  <2>8. timers' \in [TimerNames -> Timers]
    BY <2>4, <2>7 DEF Accounts
  <2>9. \A x \in TimerNames :
          timers'[x].stopState <=> x \notin {"total", "compute"}
    BY <2>2, <2>4, <2>5, <2>6 DEF TimerNames
  <2> QED
    BY <1>0, <2>1, <2>7, <2>8, <2>9 DEF TimersOK, RunningIn
<1>4. CASE SnapshotFails
  BY <1>4, SameTimers DEF SnapshotFails, TimersOK
<1>5. CASE BeginInterval
  <2>1. /\ phase = "loop" /\ phase' = "computing"
        /\ timers' = [timers EXCEPT !["main"] = start(@, now)]
        /\ UNCHANGED <<step, now, spent>>
    BY <1>5 DEF BeginInterval
  <2>2. \A x \in TimerNames :
          timers[x].stopState <=> x \notin {"total", "compute"}
    BY <2>1 DEF TimersOK, RunningIn
  <2>3. /\ timers'["main"] = start(timers["main"], now)
        /\ \A x \in TimerNames \ {"main"} : timers'[x] = timers[x]
        /\ timers' = [x \in TimerNames |-> timers'[x]]
    BY <1>0, <2>1 DEF TimerNames
  <2>4. /\ Accounts(start(timers["main"], now), now, spent["main"])
        /\ start(timers["main"], now).stopState = FALSE
    BY <1>0, <2>2, StartAccounts DEF TimerNames
  <2>5. \A x \in TimerNames : Accounts(timers'[x], now', spent'[x])
    BY <1>0, <2>1, <2>3, <2>4
  <2>6. timers' \in [TimerNames -> Timers]
    BY <2>3, <2>5 DEF Accounts
  <2>7. \A x \in TimerNames :
          timers'[x].stopState <=> x \notin {"total", "compute", "main"}
    BY <2>2, <2>3, <2>4
  <2> QED
    BY <1>0, <2>1, <2>5, <2>6, <2>7 DEF TimersOK, RunningIn
<1>6. CASE Compute
  BY <1>6, SameTimers DEF Compute, pdeVars, TimersOK
<1>7. CASE EndInterval
  <2>1. /\ phase = "computing" /\ phase' = "io" /\ step' = step + 1
        /\ timers' = [timers EXCEPT !["main"] = stop(@, now),
                                   !["io"] = start(@, now),
                                   !["compute"] = stop(@, now)]
        /\ UNCHANGED <<now, spent>>
    BY <1>7 DEF EndInterval
  <2>2. \A x \in TimerNames :
          timers[x].stopState <=> x \notin {"total", "compute", "main"}
    BY <2>1 DEF TimersOK, RunningIn
  <2>3. /\ timers'["main"] = stop(timers["main"], now)
        /\ timers'["io"] = start(timers["io"], now)
        /\ timers'["compute"] = stop(timers["compute"], now)
        /\ timers'["total"] = timers["total"]
        /\ timers' = [x \in TimerNames |-> timers'[x]]
    BY <1>0, <2>1 DEF TimerNames
  <2>4. /\ Accounts(stop(timers["main"], now), now, spent["main"])
        /\ stop(timers["main"], now).stopState = TRUE
        /\ Accounts(stop(timers["compute"], now), now, spent["compute"])
        /\ stop(timers["compute"], now).stopState = TRUE
    BY <1>0, StopAccounts DEF TimerNames
  <2>5. /\ Accounts(start(timers["io"], now), now, spent["io"])
        /\ start(timers["io"], now).stopState = FALSE
    BY <1>0, <2>2, StartAccounts DEF TimerNames
  <2>6. \A x \in TimerNames : Accounts(timers'[x], now', spent'[x])
    BY <1>0, <2>1, <2>3, <2>4, <2>5 DEF TimerNames
  <2>7. timers' \in [TimerNames -> Timers]
    BY <2>3, <2>6 DEF Accounts
  <2>8. \A x \in TimerNames : timers'[x].stopState <=> x \notin {"total", "io"}
    BY <2>2, <2>3, <2>4, <2>5 DEF TimerNames
  <2> QED
    BY <1>0, <2>1, <2>6, <2>7, <2>8 DEF TimersOK, RunningIn
<1>8. CASE IntervalFails
  BY <1>8, SameTimers DEF IntervalFails, TimersOK
<1>9. CASE FinishSolve
  <2>1. /\ phase = "loop" /\ phase' = "epilog"
        /\ timers' = [timers EXCEPT !["compute"] = stop(@, now)]
        /\ UNCHANGED <<step, now, spent>>
    BY <1>9 DEF FinishSolve
  <2>2. \A x \in TimerNames :
          timers[x].stopState <=> x \notin {"total", "compute"}
    BY <2>1 DEF TimersOK, RunningIn
  <2>3. /\ timers'["compute"] = stop(timers["compute"], now)
        /\ \A x \in TimerNames \ {"compute"} : timers'[x] = timers[x]
        /\ timers' = [x \in TimerNames |-> timers'[x]]
    BY <1>0, <2>1 DEF TimerNames
  <2>4. /\ Accounts(stop(timers["compute"], now), now, spent["compute"])
        /\ stop(timers["compute"], now).stopState = TRUE
    BY <1>0, StopAccounts DEF TimerNames
  <2>5. \A x \in TimerNames : Accounts(timers'[x], now', spent'[x])
    BY <1>0, <2>1, <2>3, <2>4
  <2>6. timers' \in [TimerNames -> Timers]
    BY <2>3, <2>5 DEF Accounts
  <2>7. \A x \in TimerNames \ {"total"} : timers'[x].stopState
    BY <2>2, <2>3, <2>4
  <2> QED
    BY <1>0, <2>1, <2>5, <2>6, <2>7 DEF TimersOK, StoppedAfter
<1>10. CASE WriteEpilog
  <2>1. /\ phase = "epilog" /\ phase' = "done"
        /\ timers' = [timers EXCEPT !["compute"] = stop(@, now),
                                   !["total"] = stop(@, now)]
        /\ UNCHANGED <<step, now, spent, returnCode>>
    BY <1>10 DEF WriteEpilog
  <2>2. returnCode = "true" =>
          \A x \in TimerNames \ {"total"} : timers[x].stopState
    BY <2>1 DEF TimersOK, StoppedAfter
  <2>3. /\ timers'["compute"] = stop(timers["compute"], now)
        /\ timers'["total"] = stop(timers["total"], now)
        /\ \A x \in TimerNames \ {"compute", "total"} : timers'[x] = timers[x]
        /\ timers' = [x \in TimerNames |-> timers'[x]]
    BY <1>0, <2>1 DEF TimerNames
  <2>4. /\ Accounts(stop(timers["compute"], now), now, spent["compute"])
        /\ stop(timers["compute"], now).stopState = TRUE
        /\ Accounts(stop(timers["total"], now), now, spent["total"])
        /\ stop(timers["total"], now).stopState = TRUE
    BY <1>0, StopAccounts DEF TimerNames
  <2>5. \A x \in TimerNames : Accounts(timers'[x], now', spent'[x])
    BY <1>0, <2>1, <2>3, <2>4
  <2>6. timers' \in [TimerNames -> Timers]
    BY <2>3, <2>5 DEF Accounts
  <2>7. returnCode = "true" => \A x \in TimerNames : timers'[x].stopState
    BY <2>2, <2>3, <2>4
  <2> QED
    BY <1>0, <2>1, <2>5, <2>6, <2>7 DEF TimersOK, StoppedAfter
<1>11. CASE Throw
  BY <1>11, SameTimers DEF Throw, TimersOK
<1>12. CASE Tick
  <2> DEFINE running == RunningIn(phase)
  <2>1. /\ phase \in {"io", "computing"}
        /\ now' = now + 1
        /\ spent' = [x \in TimerNames |->
                       spent[x] + (IF x \in running THEN 1 ELSE 0)]
        /\ UNCHANGED <<phase, step, timers, returnCode>>
    BY <1>12 DEF Tick, RunningIn
  <2>2. \A x \in TimerNames : timers[x].stopState <=> x \notin running
    BY <2>1 DEF TimersOK
  <2> HIDE DEF running
  <2>3. \A x \in TimerNames : Accounts(timers'[x], now', spent'[x])
    <3> SUFFICES ASSUME NEW x \in TimerNames
                 PROVE  Accounts(timers[x], now + 1, spent'[x])
      BY <2>1
    <3>1. Accounts(timers[x], now, spent[x]) /\ spent[x] \in Nat
      BY <1>0
    <3>2. CASE x \in running
      BY <1>0, <2>1, <2>2, <3>1, <3>2, TickAccounts
    <3>3. CASE x \notin running
      BY <1>0, <2>1, <2>2, <3>1, <3>3, TickAccounts
    <3> QED
      BY <3>2, <3>3
  <2>4. spent' \in [TimerNames -> Nat] /\ now' \in Nat
    BY <1>0, <2>1
  <2> QED
    BY <1>0, <2>1, <2>3, <2>4 DEF TimersOK
<1>13. CASE UNCHANGED vars
  BY <1>13, SameTimers DEF vars, pdeVars, TimersOK
<1> QED
  BY <1>1, <1>2, <1>3, <1>4, <1>5, <1>6, <1>7, <1>8, <1>9, <1>10, <1>11,
     <1>12, <1>13 DEF Next, MainThread, Terminated

LEMMA TimersAlways == Spec => []TimersOK
  BY TimersInit, TimersNext, PTL DEF Spec

(* A stopped timer shows exactly the time that it is meant to measure, over*)
(* all intervals, snapshots and failures.                                  *)
THEOREM StoppedTimesExact == Spec => []StoppedTimeExact
<1>1. TimersOK => StoppedTimeExact
  BY DEF TimersOK, Accounts, StoppedTimeExact, getRealTime
<1> QED
  BY <1>1, TimersAlways, PTL

(* A successful run reports all times exactly.                             *)
THEOREM SuccessReportsTimes == Spec => []TimesReported
<1>1. TimersOK => TimesReported
  BY DEF TimersOK, Accounts, StoppedAfter, TimesReported, getRealTime
<1> QED
  BY <1>1, TimersAlways, PTL

-----------------------------------------------------------------------------
(* The times of the snapshots.                                             *)

(* The time that solve has reached after i intervals.                      *)
TimeAt(p, i) == Min({p.initial + i * p.period, p.final})

(* One more interval leads to the next time, and no interval is negative.  *)
LEMMA NextTime ==
  ASSUME NEW p \in Parameters, p.initial < p.final, NEW i \in Nat
  PROVE  /\ TimeAt(p, i) \in Int
         /\ TimeAt(p, i) <= p.final
         /\ Min({p.period, p.final - TimeAt(p, i)}) \in Nat
         /\ TimeAt(p, i) + Min({p.period, p.final - TimeAt(p, i)})
              = TimeAt(p, i + 1)
<1>1. p.initial \in Int /\ p.final \in Int /\ p.period \in Nat \ {0}
  BY PDEAssumption
<1> DEFINE d == i * p.period
           reached == TimeAt(p, i)
<1>2. d \in Nat /\ (i + 1) * p.period = d + p.period
  BY <1>1
<1> HIDE DEF d
<1>3. reached = IF p.initial + d <= p.final THEN p.initial + d ELSE p.final
  BY <1>1, <1>2, MinOfTwo DEF TimeAt, d
<1>4. TimeAt(p, i + 1) = IF p.initial + (d + p.period) <= p.final
                         THEN p.initial + (d + p.period) ELSE p.final
  BY <1>1, <1>2, MinOfTwo DEF TimeAt
<1> HIDE DEF reached
<1>5. reached \in Int /\ reached <= p.final
  BY <1>1, <1>2, <1>3
<1>6. Min({p.period, p.final - reached})
        = IF p.period <= p.final - reached THEN p.period ELSE p.final - reached
  BY <1>1, <1>5, MinOfTwo
<1>7. /\ Min({p.period, p.final - reached}) \in Nat
      /\ reached + Min({p.period, p.final - reached}) = TimeAt(p, i + 1)
  BY <1>1, <1>2, <1>3, <1>4, <1>5, <1>6
<1> QED
  BY <1>5, <1>7 DEF reached

(* The number of steps suffices for the final time, however it is rounded. *)
LEMMA StepsSuffice ==
  ASSUME NEW p \in Parameters, NEW rounding \in Roundings
  PROVE  /\ StepsOf(p, rounding) \in Int
         /\ p.initial < p.final =>
              \A i \in Nat : i >= StepsOf(p, rounding) => TimeAt(p, i) = p.final
         /\ p.final <= p.initial => StepsOf(p, rounding) <= 0
<1>1. /\ p.initial \in Int /\ p.final \in Int /\ p.period \in Nat \ {0}
      /\ rounding \in {0, 1}
  BY PDEAssumption
<1> DEFINE length == p.final - p.initial
           q == (length + p.period - 1) \div p.period
           extra == IF length > 0 /\ length % p.period = 0 THEN rounding ELSE 0
<1>2. q \in Int /\ p.period * q <= length + p.period - 1
      /\ length + p.period - 1 < p.period * q + p.period
  BY <1>1
<1>3. extra \in {0, 1} /\ StepsOf(p, rounding) = q + extra
  BY <1>1 DEF StepsOf
<1>4. length \in Int
  BY <1>1
<1>5. length <= 0 => extra = 0
  BY <1>4
<1> HIDE DEF q, extra
<1>6. ASSUME p.initial < p.final, NEW i \in Nat, i >= StepsOf(p, rounding)
      PROVE  TimeAt(p, i) = p.final
  <2>1. i >= q
    BY <1>2, <1>3, <1>6
  <2>2. p.period * i >= p.period * q
    BY <1>1, <1>2, <2>1
  <2>3. i * p.period = p.period * i /\ i * p.period \in Int
    BY <1>1
  <2>4. p.period * q \in Int
    BY <1>1, <1>2
  <2>5. p.initial + i * p.period >= p.final
    BY <1>1, <1>2, <2>2, <2>3, <2>4
  <2> QED
    BY <1>1, <2>3, <2>5, MinOfTwo DEF TimeAt
<1>7. ASSUME p.final <= p.initial
      PROVE  StepsOf(p, rounding) <= 0
  <2>1. p.period * q < p.period
    BY <1>1, <1>2, <1>7
  <2>2. q <= 0
    BY <1>1, <1>2, <2>1
  <2> QED
    BY <1>1, <1>3, <1>5, <1>7, <2>2, <1>2
<1>8. StepsOf(p, rounding) \in Int
  BY <1>2, <1>3
<1> QED
  BY <1>6, <1>7, <1>8

-----------------------------------------------------------------------------
(* The time that the solver reaches.                                       *)

(* Euler with a Courant number enlarges a step that it has just shortened. *)
Overshoots == method.name = "euler" /\ method.adaptive

SolverTypes ==
  /\ method \in Methods
  /\ time \in Int /\ stopTime \in Int /\ tau \in Int
  /\ maxTau \in Nat \ {0} /\ currentTau \in Int

(* A step does not lead beyond the stop time, and the solver succeeds only *)
(* there or in a steady state.                                             *)
SolverOK ==
  /\ ~Overshoots => time <= stopTime
  /\ ~Overshoots /\ solver = Running => time + currentTau <= stopTime
  /\ solver = "succeeded" => residue = "converged" \/ time >= stopTime

LEMMA MethodType ==
  ASSUME method \in Methods
  PROVE  method.name \in {"euler", "merson"} /\ method.adaptive \in BOOLEAN
  BY ODEAssumption

LEMMA UpToStopType ==
  ASSUME NEW from \in Int, NEW length \in Int, NEW to \in Int
  PROVE  /\ UpToStop(from, length, to) \in Int
         /\ from + UpToStop(from, length, to) <= to
  BY DEF UpToStop

LEMMA MersonNextStepOK ==
  ASSUME NEW reached \in Int, NEW res, NEW length \in Int,
         SolverTypes, UNCHANGED <<method, stopTime, maxTau>>,
         time' = reached, ~Overshoots => reached <= stopTime,
         residue' = res, MersonNextStep(reached, res, length)
  PROVE  SolverTypes' /\ SolverOK'
<1>1. /\ currentTau' = UpToStop(reached, length, stopTime)
      /\ tau' = IF reached + length > stopTime THEN tau ELSE length
      /\ solver' = IF reached >= stopTime \/ res = "converged"
                   THEN "succeeded" ELSE Running
  BY DEF MersonNextStep
<1>2. currentTau' \in Int /\ reached + currentTau' <= stopTime
  BY <1>1, UpToStopType DEF SolverTypes
<1>3. tau' \in Int
  BY <1>1 DEF SolverTypes
<1>4. SolverTypes'
  BY <1>2, <1>3 DEF SolverTypes
<1>5. Overshoots' = Overshoots
  BY DEF Overshoots
<1> QED
  BY <1>1, <1>2, <1>4, <1>5 DEF SolverOK, Running

LEMMA ODEStepOK ==
  ASSUME SolverTypes, SolverOK, ODEStep
  PROVE  SolverTypes' /\ SolverOK'
<1>0. /\ method \in Methods
      /\ method.name \in {"euler", "merson"} /\ method.adaptive \in BOOLEAN
      /\ time \in Int /\ stopTime \in Int /\ tau \in Int
      /\ maxTau \in Nat \ {0} /\ currentTau \in Int
  BY MethodType DEF SolverTypes
<1>1. CASE EulerReduceStep
  <2>1. /\ solver = Running
        /\ currentTau' = Reduced(currentTau)
        /\ UNCHANGED <<method, time, stopTime, tau, maxTau, residue, solver>>
        /\ Overshoots
    BY <1>1 DEF EulerReduceStep, Rejected, Overshoots
  <2>2. Reduced(currentTau) \in Int
    BY <1>0, MaxOfTwo DEF Reduced
  <2>3. Overshoots'
    BY <2>1 DEF Overshoots
  <2> QED
    BY <1>0, <2>1, <2>2, <2>3 DEF SolverTypes, SolverOK, Running
<1>2. CASE EulerStep
  <2> DEFINE reached == time + currentTau
             short == UpToStop(reached, currentTau, stopTime)
             next == IF method.adaptive THEN Enlarged(short) ELSE short
  <2>1. PICK stable \in StableSteps, r \in Evaluations :
          LET res == NewResidue(reached, r) IN
          /\ solver = Running
          /\ method.name = "euler"
          /\ time' = reached
          /\ residue' = res
          /\ IF ~checkNextIteration(iteration, res)
             THEN /\ solver' = Returned(checkConvergence(iteration + 1, res))
                  /\ UNCHANGED <<tau, currentTau>>
             ELSE /\ tau' = IF reached + currentTau > stopTime THEN tau
                            ELSE currentTau
                  /\ IF reached >= stopTime \/ res = "converged"
                     THEN solver' = "succeeded" /\ currentTau' = short
                     ELSE solver' = Running /\ currentTau' = next
          /\ UNCHANGED <<method, stopTime, maxTau>>
    BY <1>2 DEF EulerStep
  <2> DEFINE res == NewResidue(reached, r)
  <2>2. reached \in Int /\ time' = reached
    BY <1>0, <2>1
  <2>3. short \in Int /\ reached + short <= stopTime
    BY <1>0, <2>2, UpToStopType
  <2>4. Overshoots' = Overshoots /\ (~Overshoots => ~method.adaptive)
    BY <2>1 DEF Overshoots
  <2>5. ~Overshoots => reached <= stopTime
    BY <2>1 DEF SolverOK
  <2> HIDE DEF short
  <2>6. next \in Int
    BY <1>0, <2>3, MinOfTwo DEF Enlarged
  <2>7. ~Overshoots => reached + next <= stopTime
    BY <2>3, <2>4
  <2> HIDE DEF next, reached, res
  <2>8. CASE ~checkNextIteration(iteration, res)
    <3>1. /\ solver' = Returned(checkConvergence(iteration + 1, res))
          /\ UNCHANGED <<tau, currentTau, method, stopTime, maxTau>>
          /\ residue' = res
      BY <2>1, <2>8 DEF res
    <3>2. solver' = "succeeded" => res = "converged"
      BY <3>1 DEF Returned, checkConvergence
    <3>3. solver' # Running
      BY <3>1 DEF Returned, Running
    <3> QED
      BY <1>0, <2>2, <2>4, <2>5, <3>1, <3>2, <3>3 DEF SolverTypes, SolverOK
  <2>9. CASE checkNextIteration(iteration, res)
    <3>1. /\ tau' = IF reached + currentTau > stopTime THEN tau
                    ELSE currentTau
          /\ IF reached >= stopTime \/ res = "converged"
             THEN solver' = "succeeded" /\ currentTau' = short
             ELSE solver' = Running /\ currentTau' = next
          /\ UNCHANGED <<method, stopTime, maxTau>>
          /\ residue' = res
      BY <2>1, <2>9 DEF res, short, next
    <3>2. tau' \in Int /\ currentTau' \in Int
      BY <1>0, <2>3, <2>6, <3>1
    <3>3. SolverTypes'
      BY <1>0, <2>2, <3>1, <3>2 DEF SolverTypes
    <3> QED
      BY <2>2, <2>3, <2>4, <2>5, <2>7, <3>1, <3>3 DEF SolverOK, Running
  <2> QED
    BY <2>8, <2>9
<1>3. CASE MersonRejectStep
  <2>1. PICK length \in 1 .. (currentTau - 1) :
          MersonNextStep(time, residue, Min({length, maxTau}))
    BY <1>3 DEF MersonRejectStep
  <2>2. Min({length, maxTau}) \in Int
    BY <1>0, MinOfTwo
  <2>3. UNCHANGED <<method, time, stopTime, maxTau, residue>>
    BY <1>3 DEF MersonRejectStep
  <2> QED
    BY <1>0, <2>1, <2>2, <2>3, MersonNextStepOK DEF SolverOK
<1>4. CASE MersonStep
  <2> DEFINE reached == time + currentTau
  <2>1. PICK stable \in StableSteps, r \in Evaluations :
          LET res == NewResidue(reached, r) IN
          /\ solver = Running
          /\ method.name = "merson"
          /\ time' = reached
          /\ residue' = res
          /\ IF ~checkNextIteration(iteration, res)
             THEN solver' = "failed" /\ UNCHANGED <<tau, currentTau>>
             ELSE \E length \in (IF method.adaptive THEN 1 .. maxTau
                                 ELSE {currentTau}) :
                    MersonNextStep(reached, res, length)
          /\ UNCHANGED <<method, stopTime, maxTau>>
    BY <1>4 DEF MersonStep
  <2> DEFINE res == NewResidue(reached, r)
  <2>2. reached \in Int /\ time' = reached /\ residue' = res
        /\ UNCHANGED <<method, stopTime, maxTau>>
    BY <1>0, <2>1
  <2>3. ~Overshoots => reached <= stopTime
    BY <2>1 DEF SolverOK
  <2> HIDE DEF reached, res
  <2>4. CASE ~checkNextIteration(iteration, res)
    <3>1. solver' = "failed" /\ UNCHANGED <<tau, currentTau>>
      BY <2>1, <2>4 DEF res
    <3>2. Overshoots' = Overshoots
      BY <2>2 DEF Overshoots
    <3> QED
      BY <1>0, <2>2, <2>3, <3>1, <3>2 DEF SolverTypes, SolverOK, Running
  <2>5. CASE checkNextIteration(iteration, res)
    <3>1. PICK length \in (IF method.adaptive THEN 1 .. maxTau
                           ELSE {currentTau}) :
            MersonNextStep(reached, res, length)
      BY <2>1, <2>5 DEF res
    <3>2. length \in Int
      BY <1>0
    <3> QED
      BY <2>2, <2>3, <3>1, <3>2, MersonNextStepOK
  <2> QED
    BY <2>4, <2>5
<1>5. CASE MersonGiveUp
  <2>1. /\ solver' = Returned(checkConvergence(iteration, residue))
        /\ UNCHANGED <<method, time, stopTime, tau, maxTau, currentTau,
                       residue>>
    BY <1>5 DEF MersonGiveUp
  <2>2. solver' = "succeeded" => residue = "converged"
    BY <2>1 DEF Returned, checkConvergence
  <2>3. solver' # Running
    BY <2>1 DEF Returned, Running
  <2>4. Overshoots' = Overshoots
    BY <2>1 DEF Overshoots
  <2> QED
    BY <2>1, <2>2, <2>3, <2>4 DEF SolverTypes, SolverOK
<1> QED
  BY <1>1, <1>2, <1>3, <1>4, <1>5 DEF ODEStep

(* A call of the stepper for a period that is not negative.                *)
LEMMA SolveOK ==
  ASSUME NEW from \in Int, NEW to \in Int, from <= to,
         NEW timeStep \in Nat \ {0},
         SolverTypes, Solve(from, to, timeStep)
  PROVE  SolverTypes' /\ SolverOK' /\ stopTime' = to
<1> DEFINE limit == IF MinIterations = 0 THEN maxTau
                    ELSE Max({1, (to - from) \div MinIterations})
           length == Min({timeStep, limit})
           first == UpToStop(from, length, to)
<1>1. /\ tau' = timeStep /\ time' = from /\ stopTime' = to
      /\ maxTau' = limit /\ currentTau' = first
      /\ IF first = 0 THEN solver' = "succeeded" ELSE solver' = Running
      /\ UNCHANGED method
  BY DEF Solve
<1>2. limit \in Nat \ {0}
  <2>1. CASE MinIterations = 0
    BY <2>1 DEF SolverTypes
  <2>2. CASE MinIterations # 0
    <3>1. (to - from) \div MinIterations \in Int
      BY <2>2, IterationsAssumption
    <3> QED
      BY <2>2, <3>1, MaxOfTwo
  <2> QED
    BY <2>1, <2>2
<1> HIDE DEF limit
<1>3. length \in Nat \ {0}
  <2>1. limit \in Int /\ timeStep \in Int
    BY <1>2
  <2>2. length = IF timeStep <= limit THEN timeStep ELSE limit
    BY <2>1, MinOfTwo
  <2> QED
    BY <1>2, <2>2
<1> HIDE DEF length
<1>4. first \in Int /\ from + first <= to
  <2>1. length \in Int
    BY <1>3
  <2> QED
    BY <2>1, UpToStopType
<1>5. first = 0 => from >= to
  BY <1>3 DEF UpToStop
<1> HIDE DEF first
<1>6. SolverTypes'
  BY <1>1, <1>2, <1>4 DEF SolverTypes
<1> QED
  BY <1>1, <1>4, <1>5, <1>6 DEF SolverOK, Running

-----------------------------------------------------------------------------
(* The time loop.                                                          *)

Snapshots == [time : Int, step : Nat, reached : Int, steady : BOOLEAN]

(* An interval ends at the next scheduled time, and the last one at the    *)
(* final time; if the final time is not behind the initial time there is   *)
(* no interval.                                                            *)
LoopOK ==
  /\ phase \in {"io", "loop", "computing"} =>
       IF ValidTimes
       THEN /\ t = TimeAt(parameters, step)
            /\ \A i \in Nat : i >= allSteps =>
                 TimeAt(parameters, i) = parameters.final
       ELSE phase # "computing" /\ step = 0 /\ allSteps <= 0
  /\ phase \notin {"epilog", "done"} => returnCode = "none"
  /\ phase = "setup" => snapshots = <<>>
  /\ phase = "io" => Len(snapshots) = step
  /\ phase \in {"loop", "computing"} => Len(snapshots) = step + 1

(* What the solver has reached when a snapshot is due.                     *)
ReachedOK ==
  /\ phase = "computing" => SolverOK /\ stopTime = t + Interval(t)
  /\ phase = "io" =>
       /\ residue = "converged" \/ time >= t
       /\ Overshoots \/ time <= t

(* Only a steady state stops the solver before the time of a snapshot.     *)
ReachedOrSteady ==
  \A i \in DOMAIN snapshots :
    LET s == snapshots[i] IN
    /\ s.steady \/ s.reached >= s.time
    /\ Overshoots \/ s.reached <= s.time

LoopTypes ==
  /\ SolverTypes
  /\ parameters \in Parameters
  /\ phase \in {"setup", "io", "loop", "computing", "epilog", "done"}
  /\ t \in Int /\ step \in Nat /\ allSteps \in Int
  /\ snapshots \in Seq(Snapshots)

ScheduleInv ==
  LoopTypes /\ LoopOK /\ ReachedOK /\ SnapshotsOnSchedule /\ ReachedOrSteady

LEMMA ParametersType ==
  ASSUME parameters \in Parameters
  PROVE  /\ parameters.initial \in Int /\ parameters.final \in Int
         /\ parameters.period \in Nat \ {0}
         /\ parameters.timeStep \in Nat \ {0}
  BY PDEAssumption, ODEAssumption

LEMMA ScheduleInit == Init => ScheduleInv
<1> SUFFICES ASSUME Init PROVE ScheduleInv
  OBVIOUS
<1>1. SolverTypes
  BY ODEAssumption DEF Init, ODEInit, SolverTypes
<1>2. LoopTypes
  BY <1>1 DEF Init, LoopTypes
<1>3. snapshots = <<>> /\ phase = "setup" /\ returnCode = "none"
  BY DEF Init
<1> QED
  BY <1>2, <1>3 DEF ScheduleInv, LoopOK, ReachedOK, SnapshotsOnSchedule,
                    ReachedOrSteady

(* Steps into the epilog or the end that report no success.                *)
LEMMA EndsUnsuccessfully ==
  ASSUME ScheduleInv, phase' \in {"epilog", "done"}, returnCode' # "true",
         UNCHANGED <<odeVars, parameters, t, step, allSteps, snapshots>>
  PROVE  ScheduleInv'
<1>1. LoopTypes'
  BY DEF ScheduleInv, LoopTypes, SolverTypes, odeVars
<1>2. LoopOK' /\ ReachedOK'
  BY DEF LoopOK, ReachedOK
<1>3. SnapshotsOnSchedule'
  BY DEF ScheduleInv, SnapshotsOnSchedule, ValidTimes
<1>4. ReachedOrSteady'
  BY DEF ScheduleInv, ReachedOrSteady, Overshoots, odeVars
<1> QED
  BY <1>1, <1>2, <1>3, <1>4 DEF ScheduleInv

(* The end of the epilog, the passing of time, and stuttering.             *)
LEMMA KeepsSchedule ==
  ASSUME ScheduleInv, phase' = phase \/ phase' = "done",
         UNCHANGED <<odeVars, parameters, t, step, allSteps, snapshots,
                     returnCode>>
  PROVE  ScheduleInv'
<1>1. LoopTypes'
  BY DEF ScheduleInv, LoopTypes, SolverTypes, odeVars
<1>2. LoopOK'
  BY DEF ScheduleInv, LoopOK, ValidTimes
<1>3. ReachedOK'
  BY DEF ScheduleInv, ReachedOK, SolverOK, Overshoots, Interval, odeVars
<1>4. SnapshotsOnSchedule'
  BY DEF ScheduleInv, SnapshotsOnSchedule, ValidTimes
<1>5. ReachedOrSteady'
  BY DEF ScheduleInv, ReachedOrSteady, Overshoots, odeVars
<1> QED
  BY <1>1, <1>2, <1>3, <1>4, <1>5 DEF ScheduleInv

LEMMA ScheduleNext == ScheduleInv /\ [Next]_vars => ScheduleInv'
<1> SUFFICES ASSUME ScheduleInv, [Next]_vars PROVE ScheduleInv'
  OBVIOUS
<1>0. /\ SolverTypes /\ parameters \in Parameters
      /\ t \in Int /\ step \in Nat /\ allSteps \in Int
      /\ snapshots \in Seq(Snapshots)
      /\ parameters.initial \in Int /\ parameters.final \in Int
      /\ parameters.period \in Nat \ {0}
      /\ parameters.timeStep \in Nat \ {0}
      /\ time \in Int
  BY ParametersType DEF ScheduleInv, LoopTypes, SolverTypes
<1>1. CASE SetupFails
  BY <1>1, EndsUnsuccessfully DEF SetupFails
<1>2. CASE Setup
  <2>1. /\ phase = "setup" /\ phase' = "io"
        /\ t' = parameters.initial /\ time' = parameters.initial /\ step' = 0
        /\ UNCHANGED <<method, stopTime, tau, maxTau, currentTau, parameters,
                       snapshots, returnCode>>
    BY <1>2 DEF Setup
  <2>2. PICK rounding \in Roundings : allSteps' = StepsOf(parameters, rounding)
    BY <1>2 DEF Setup
  <2>3. /\ allSteps' \in Int
        /\ ValidTimes => \A i \in Nat : i >= allSteps' =>
                           TimeAt(parameters, i) = parameters.final
        /\ ~ValidTimes => allSteps' <= 0
    BY <1>0, <2>2, StepsSuffice DEF ValidTimes
  <2>4. ValidTimes => TimeAt(parameters, 0) = parameters.initial
    BY <1>0, MinOfTwo DEF TimeAt, ValidTimes
  <2>5. snapshots = <<>> /\ returnCode = "none"
    BY <2>1 DEF ScheduleInv, LoopOK
  <2>6. LoopTypes'
    BY <1>0, <2>1, <2>3 DEF LoopTypes, SolverTypes
  <2>7. LoopOK'
    BY <2>1, <2>3, <2>4, <2>5 DEF LoopOK, ValidTimes
  <2>8. ReachedOK'
    BY <1>0, <2>1 DEF ReachedOK
  <2>9. SnapshotsOnSchedule' /\ ReachedOrSteady'
    BY <2>1, <2>5 DEF SnapshotsOnSchedule, ReachedOrSteady
  <2> QED
    BY <2>6, <2>7, <2>8, <2>9 DEF ScheduleInv
<1>3. CASE MakeSnapshot
  <2> DEFINE s == [time |-> t, step |-> step, reached |-> time,
                   steady |-> residue = "converged"]
  <2>1. /\ phase = "io" /\ phase' = "loop"
        /\ snapshots' = Append(snapshots, s)
        /\ UNCHANGED <<method, time, stopTime, tau, maxTau, currentTau,
                       parameters, t, step, allSteps, returnCode>>
    BY <1>3 DEF MakeSnapshot, odeVars
  <2>2. s \in Snapshots
    BY <1>0 DEF Snapshots
  <2>3. /\ snapshots' \in Seq(Snapshots)
        /\ Len(snapshots) = step /\ Len(snapshots') = step + 1
        /\ \A i \in 1 .. step : snapshots'[i] = snapshots[i]
        /\ snapshots'[step + 1] = s
        /\ DOMAIN snapshots = 1 .. step /\ DOMAIN snapshots' = 1 .. (step + 1)
    <3>1. Len(snapshots) = step
      BY <2>1 DEF ScheduleInv, LoopOK
    <3> HIDE DEF s
    <3> QED
      BY <1>0, <2>1, <2>2, <3>1
  <2>4. /\ s.time = t /\ s.step = step /\ s.reached = time
        /\ s.steady <=> residue = "converged"
    OBVIOUS
  <2> HIDE DEF s
  <2>5. LoopTypes'
    BY <1>0, <2>1, <2>3 DEF LoopTypes, SolverTypes
  <2>6. LoopOK'
    BY <2>1, <2>3 DEF ScheduleInv, LoopOK, ValidTimes
  <2>7. ReachedOK'
    BY <2>1 DEF ReachedOK
  <2>8. SnapshotsOnSchedule'
    <3> SUFFICES ASSUME ValidTimes, NEW i \in 1 .. (step + 1)
                 PROVE  /\ snapshots'[i].step = i - 1
                        /\ snapshots'[i].time = TimeAt(parameters, i - 1)
      <4>1. returnCode = "none"
        BY <2>1 DEF ScheduleInv, LoopOK
      <4> QED
        BY <2>1, <2>3, <4>1 DEF SnapshotsOnSchedule, TimeAt, ValidTimes
    <3>1. CASE i \in 1 .. step
      BY <2>3, <3>1 DEF ScheduleInv, SnapshotsOnSchedule, TimeAt
    <3>2. CASE i = step + 1
      <4>1. t = TimeAt(parameters, step)
        BY <2>1 DEF ScheduleInv, LoopOK
      <4>2. i - 1 = step
        BY <1>0, <3>2
      <4> QED
        BY <2>3, <2>4, <3>2, <4>1, <4>2
    <3> QED
      BY <1>0, <3>1, <3>2
  <2>9. ReachedOrSteady'
    <3> SUFFICES ASSUME NEW i \in 1 .. (step + 1)
                 PROVE  /\ \/ snapshots'[i].steady
                           \/ snapshots'[i].reached >= snapshots'[i].time
                        /\ \/ Overshoots
                           \/ snapshots'[i].reached <= snapshots'[i].time
      BY <2>1, <2>3 DEF ReachedOrSteady, Overshoots
    <3>1. CASE i \in 1 .. step
      BY <2>3, <3>1 DEF ScheduleInv, ReachedOrSteady, Overshoots
    <3>2. CASE i = step + 1
      BY <2>1, <2>3, <2>4, <3>2 DEF ScheduleInv, ReachedOK
    <3> QED
      BY <1>0, <3>1, <3>2
  <2> QED
    BY <2>5, <2>6, <2>7, <2>8, <2>9 DEF ScheduleInv
<1>4. CASE SnapshotFails
  BY <1>4, EndsUnsuccessfully DEF SnapshotFails
<1>5. CASE BeginInterval
  <2>1. /\ phase = "loop" /\ phase' = "computing" /\ step < allSteps
        /\ Solve(t, t + Interval(t), parameters.timeStep)
        /\ UNCHANGED <<parameters, t, step, allSteps, snapshots, returnCode>>
    BY <1>5 DEF BeginInterval
  <2>2. ValidTimes /\ t = TimeAt(parameters, step)
    BY <1>0, <2>1 DEF ScheduleInv, LoopOK
  <2>3. Interval(t) \in Nat
    BY <1>0, <2>2, NextTime DEF ValidTimes, Interval
  <2>4. t + Interval(t) \in Int /\ t <= t + Interval(t)
    BY <1>0, <2>3
  <2>5. SolverTypes' /\ SolverOK' /\ stopTime' = t + Interval(t)
    BY <1>0, <2>1, <2>4, SolveOK
  <2>6. LoopTypes'
    BY <1>0, <2>1, <2>5 DEF LoopTypes
  <2>7. LoopOK'
    BY <2>1, <2>2 DEF ScheduleInv, LoopOK, ValidTimes
  <2>8. Interval(t)' = Interval(t)
    BY <2>1 DEF Interval
  <2>9. ReachedOK'
    BY <2>1, <2>5, <2>8 DEF ReachedOK
  <2>10. SnapshotsOnSchedule'
    BY <2>1 DEF ScheduleInv, SnapshotsOnSchedule, ValidTimes
  <2>11. method' = method
    BY <2>1 DEF Solve
  <2>12. ReachedOrSteady'
    BY <2>1, <2>11 DEF ScheduleInv, ReachedOrSteady, Overshoots
  <2> QED
    BY <2>6, <2>7, <2>9, <2>10, <2>12 DEF ScheduleInv
<1>6. CASE Compute
  <2>1. /\ phase = "computing" /\ ODEStep
        /\ UNCHANGED <<parameters, phase, t, step, allSteps, snapshots,
                       returnCode>>
    BY <1>6 DEF Compute, pdeVars
  <2>2. SolverOK /\ stopTime = t + Interval(t)
    BY <2>1 DEF ScheduleInv, ReachedOK
  <2>3. SolverTypes' /\ SolverOK'
    BY <1>0, <2>1, <2>2, ODEStepOK
  <2>4. UNCHANGED <<method, stopTime>>
    BY <2>1 DEF ODEStep, EulerReduceStep, EulerStep, MersonRejectStep,
                MersonStep, MersonGiveUp
  <2>5. Interval(t)' = Interval(t)
    BY <2>1 DEF Interval
  <2>6. LoopTypes'
    BY <1>0, <2>1, <2>3 DEF ScheduleInv, LoopTypes
  <2>7. LoopOK'
    BY <2>1 DEF ScheduleInv, LoopOK, ValidTimes
  <2>8. ReachedOK'
    BY <2>1, <2>2, <2>3, <2>4, <2>5 DEF ReachedOK
  <2>9. SnapshotsOnSchedule'
    BY <2>1 DEF ScheduleInv, SnapshotsOnSchedule, ValidTimes
  <2>10. ReachedOrSteady'
    BY <2>1, <2>4 DEF ScheduleInv, ReachedOrSteady, Overshoots
  <2> QED
    BY <2>6, <2>7, <2>8, <2>9, <2>10 DEF ScheduleInv
<1>7. CASE EndInterval
  <2>1. /\ phase = "computing" /\ phase' = "io" /\ solver = "succeeded"
        /\ step' = step + 1 /\ t' = t + Interval(t)
        /\ UNCHANGED <<method, time, stopTime, tau, maxTau, currentTau,
                       residue, parameters, allSteps, snapshots, returnCode>>
    BY <1>7 DEF EndInterval, odeVars
  <2>2. SolverOK /\ stopTime = t + Interval(t)
    BY <2>1 DEF ScheduleInv, ReachedOK
  <2>3. ValidTimes /\ t = TimeAt(parameters, step)
    BY <1>0, <2>1 DEF ScheduleInv, LoopOK
  <2>4. t' = TimeAt(parameters, step + 1) /\ t' \in Int
    BY <1>0, <2>1, <2>3, NextTime DEF ValidTimes, Interval
  <2>5. LoopTypes'
    BY <1>0, <2>1, <2>4 DEF LoopTypes, SolverTypes
  <2>6. LoopOK'
    BY <2>1, <2>3, <2>4 DEF ScheduleInv, LoopOK, ValidTimes
  <2>7. ReachedOK'
    BY <2>1, <2>2 DEF ReachedOK, SolverOK, Overshoots
  <2>8. SnapshotsOnSchedule'
    BY <2>1 DEF ScheduleInv, SnapshotsOnSchedule, ValidTimes
  <2>9. ReachedOrSteady'
    BY <2>1 DEF ScheduleInv, ReachedOrSteady, Overshoots
  <2> QED
    BY <2>5, <2>6, <2>7, <2>8, <2>9 DEF ScheduleInv
<1>8. CASE IntervalFails
  BY <1>8, EndsUnsuccessfully DEF IntervalFails
<1>9. CASE FinishSolve
  <2>1. /\ phase = "loop" /\ phase' = "epilog" /\ step >= allSteps
        /\ UNCHANGED <<odeVars, parameters, t, step, allSteps, snapshots>>
    BY <1>9 DEF FinishSolve
  <2>2. LoopTypes'
    BY <1>0, <2>1 DEF LoopTypes, SolverTypes, odeVars
  <2>3. LoopOK' /\ ReachedOK'
    BY <2>1 DEF LoopOK, ReachedOK
  <2>4. ValidTimes => Last(snapshots).time = parameters.final
    <3> SUFFICES ASSUME ValidTimes PROVE Last(snapshots).time = parameters.final
      OBVIOUS
    <3>1. Len(snapshots) = step + 1 /\ step + 1 \in DOMAIN snapshots
      BY <1>0, <2>1 DEF ScheduleInv, LoopOK
    <3>2. TimeAt(parameters, step) = parameters.final
      BY <1>0, <2>1 DEF ScheduleInv, LoopOK
    <3>3. (step + 1) - 1 = step
      BY <1>0
    <3>4. snapshots[step + 1].time
            = TimeAt(parameters, (step + 1) - 1)
      BY <3>1 DEF ScheduleInv, SnapshotsOnSchedule, TimeAt
    <3> QED
      BY <3>1, <3>2, <3>3, <3>4 DEF Last
  <2>5. SnapshotsOnSchedule'
    BY <2>1, <2>4 DEF ScheduleInv, SnapshotsOnSchedule, ValidTimes
  <2>6. ReachedOrSteady'
    BY <2>1 DEF ScheduleInv, ReachedOrSteady, Overshoots, odeVars
  <2> QED
    BY <2>2, <2>3, <2>5, <2>6 DEF ScheduleInv
<1>10. CASE WriteEpilog
  BY <1>10, KeepsSchedule DEF WriteEpilog
<1>11. CASE Throw
  BY <1>11, EndsUnsuccessfully DEF Throw
<1>12. CASE Tick
  BY <1>12, KeepsSchedule DEF Tick
<1>13. CASE UNCHANGED vars
  BY <1>13, KeepsSchedule DEF vars, pdeVars
<1> QED
  BY <1>1, <1>2, <1>3, <1>4, <1>5, <1>6, <1>7, <1>8, <1>9, <1>10, <1>11,
     <1>12, <1>13 DEF Next, MainThread, Terminated

LEMMA ScheduleAlways == Spec => []ScheduleInv
  BY ScheduleInit, ScheduleNext, PTL DEF Spec

(* The i-th snapshot is for the i-th multiple of the period, the last one  *)
(* of a successful run for the final time, however the number of steps is  *)
(* rounded.                                                                *)
THEOREM SnapshotsScheduled == Spec => []SnapshotsOnSchedule
<1>1. ScheduleInv => SnapshotsOnSchedule
  BY DEF ScheduleInv
<1> QED
  BY <1>1, ScheduleAlways, PTL

-----------------------------------------------------------------------------
(* Steady states.                                                          *)

(* A solver without a convergence residue finds no steady state.           *)
SteadyOK ==
  /\ residue = "converged" => method.convergenceResidue
  /\ \A i \in DOMAIN snapshots :
       snapshots[i].steady => method.convergenceResidue

LEMMA SteadyInit == Init => SteadyOK
  BY DEF Init, ODEInit, SteadyOK

(* The residue after a step is the one before or that of an evaluation.    *)
LEMMA ResidueNext ==
  ASSUME residue = "converged" => method.convergenceResidue, ODEStep
  PROVE  /\ residue' = "converged" => method.convergenceResidue
         /\ UNCHANGED method
<1>1. CASE EulerStep \/ MersonStep
  <2>1. PICK r \in Evaluations : /\ residue' = NewResidue(time + currentTau, r)
                                /\ UNCHANGED method
    BY <1>1 DEF EulerStep, MersonStep
  <2> QED
    BY <2>1 DEF Evaluations, NewResidue
<1>2. CASE EulerReduceStep \/ MersonRejectStep \/ MersonGiveUp
  BY <1>2 DEF EulerReduceStep, MersonRejectStep, MersonGiveUp
<1> QED
  BY <1>1, <1>2 DEF ODEStep

LEMMA SteadyNext == ScheduleInv /\ SteadyOK /\ [Next]_vars => SteadyOK'
<1> SUFFICES ASSUME ScheduleInv, SteadyOK, [Next]_vars PROVE SteadyOK'
  OBVIOUS
<1>1. CASE MakeSnapshot
  <2> DEFINE s == [time |-> t, step |-> step, reached |-> time,
                   steady |-> residue = "converged"]
  <2>1. snapshots' = Append(snapshots, s) /\ UNCHANGED <<method, residue>>
    BY <1>1 DEF MakeSnapshot, odeVars
  <2>2. snapshots \in Seq(Snapshots)
    BY DEF ScheduleInv, LoopTypes
  <2>3. s.steady <=> residue = "converged"
    OBVIOUS
  <2> HIDE DEF s
  <2>4. \A i \in DOMAIN snapshots' :
          IF i = Len(snapshots) + 1 THEN snapshots'[i] = s
          ELSE i \in DOMAIN snapshots /\ snapshots'[i] = snapshots[i]
    BY <2>1, <2>2
  <2> QED
    BY <2>1, <2>3, <2>4 DEF SteadyOK
<1>2. CASE BeginInterval
  <2>1. /\ residue' = residue \/ residue' = "between"
        /\ UNCHANGED <<method, snapshots>>
    BY <1>2 DEF BeginInterval, Solve
  <2> QED
    BY <2>1 DEF SteadyOK
<1>3. CASE Compute
  <2>1. ODEStep /\ UNCHANGED snapshots
    BY <1>3 DEF Compute, pdeVars
  <2> QED
    BY <2>1, ResidueNext DEF SteadyOK
<1>4. CASE UNCHANGED <<method, residue, snapshots>>
  BY <1>4 DEF SteadyOK
<1> QED
  BY <1>1, <1>2, <1>3, <1>4
     DEF Next, MainThread, SetupFails, Setup, SnapshotFails, EndInterval,
         IntervalFails, FinishSolve, WriteEpilog, Throw, Tick, Terminated,
         vars, pdeVars, odeVars

(* If a convergence residue is given only where stops at steady state are  *)
(* asked for, no snapshot holds an earlier state than the one of its time  *)
(* but for such a stop; and only Euler with a Courant number goes beyond,  *)
(* whatever the convergence residue.                                       *)
THEOREM SnapshotsTimely == Spec => []SnapshotsOfTheirTime
<1>1. ScheduleInv /\ SteadyOK => SnapshotsOfTheirTime
  BY DEF ScheduleInv, ReachedOrSteady, SteadyOK, SteadyStopsAsked,
         SnapshotsReached, SnapshotsOfTheirTime, Overshoots
<1>2. Spec => []SteadyOK
  BY SteadyInit, SteadyNext, ScheduleAlways, PTL DEF Spec
<1> QED
  BY <1>1, <1>2, ScheduleAlways, PTL
=============================================================================
