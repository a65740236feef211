\* All solvers, with and without adaptive steps, up to the iteration limit.
SPECIFICATION FairSpec
CONSTANTS
  MinIterations = 2
  MaxIterations = 3
  Methods <- AllMethods
  StableSteps = {1, 2}
  RHSResidues = {"converged", "diverged", "between", "nan"}
  MaxStep = 4
  Parameters <- Configurations
  Roundings = {0, 1}
  MaxTime = 3
INVARIANTS
  SnapshotsOnSchedule
  SnapshotsOfTheirTime
  StoppedTimeExact
  TimesReported
PROPERTY SolveEnds
