\* Two sessions, one explicit stop in each, changing refresh rates, two updates.
SPECIFICATION MonitorFairSpec
CONSTANTS
  RefreshRates = {10}
  MaxSessions = 2
  MaxStops = 1
  Verbosities = {1, 2}
  MaxUpdates = 2
INVARIANTS
  MonitorTypeOK
  StopHonoured
  EndsOnlyWhenStopped
  RefreshesApart
  LinesFollowUpdates
PROPERTIES
  JoinReturns
  LatestShown
