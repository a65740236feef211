\* Euler passes the stop time, stops in steady states nobody asked for, times of failed runs, reversed times
\* (tlc -continue).
SPECIFICATION FairSpec
CONSTANTS
  MinIterations = 0
  MaxIterations = 9
  Methods <- AllMethods
  StableSteps = {2}
  RHSResidues = {"between", "converged", "nan"}
  MaxStep = 4
  Parameters <- AllConfigurations
  Roundings = {0}
  MaxTime = 4
INVARIANTS
  StopsAtStopTime
  SnapshotsReached
  FailureTimesReported
  SetupChecksTimes
