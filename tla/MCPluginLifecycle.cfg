CONSTANTS
  Effects <- MCEffects
  Hooked = {"population", "strength"}
  MaxGames = 2
  MaxLoads = 2
  Nil = Nil
SPECIFICATION FairHookSpec
CHECK_DEADLOCK FALSE
INVARIANTS TypeOK TrampolineWhileEnabled FlagsTellTheTruth NothingLeftBehind
  FailedLoadSubscribesNothing NoResidue LosslessUnlessRefused
PROPERTIES GivenBack AnswersLoader
