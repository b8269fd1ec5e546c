CONSTANTS
  Threads = {t1}
  Cities = {c1}
  Instances <- OneEffect
  MaxYields = 1
  PercentUnit = 2
  MaxAmount = 3
  MinValue <- Lowest
  MaxValue = 15
  MaxBumps = 2
  MaxBirths = 2
  MaxMissed = 1
  Nil = Nil
SPECIFICATION Spec
INVARIANT SnapshotOfThisCity
CHECK_DEADLOCK FALSE
