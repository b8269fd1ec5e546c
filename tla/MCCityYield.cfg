CONSTANTS
  Threads = {t1, t2}
  Cities = {c1}
  Instances <- TwoEffects
  MaxYields = 2
  PercentUnit = 2
  MaxAmount = 3
  MinValue <- Lowest
  MaxValue = 15
  MaxBumps = 3
  MaxBirths = 2
  MaxMissed = 1
  Nil = Nil
SPECIFICATION Spec
SYMMETRY Symmetry
INVARIANTS TypeOK SnapshotCurrent PersistedMirrors LengthCovers NoDrift
PROPERTIES ImplementsLedger
CHECK_DEADLOCK FALSE
