\* What the comments of SolverMonitor.h say and the code fails, lost updates and
\* repeated lines, and stages nobody has saved (tlc -continue).
SPECIFICATION MonitorSpec
CONSTANTS
  RefreshRates = {0, 10}
  MaxSessions = 2
  MaxStops = 1
  Verbosities = {1}
  MaxUpdates = 2
INVARIANTS
  InitialStateRestored
  IsStoppedReports
  IntervalIsRefreshRate
  SavedStageShown
PROPERTIES
  UpdatesKept
  NoLineRepeated
