CONSTANTS
  Threads = {t1, t2}
  Players = {p1}
  Counts = {0, 1}
  TTL = 2
  MaxTime = 2
  Nil = Nil
  Modifiers <- Pairs
  Populations <- Sizes
  MaxPopulation = 13
  Bases <- Values
  Unit = 4
  MinInt <- Lowest
  MaxInt = 15
SPECIFICATION ReadSpec
SYMMETRY Symmetry
INVARIANTS TypeOK StaleAtMostTtl AnswerExact DirectNeverWraps
