SPECIFICATION MCFairSpec
CONSTANTS
  Task = {t1, t2}
  InitialTask = t1
  RTC = TRUE
  Trained = TRUE
  UseCompile = FALSE
  WarmupRequired = 1
  Interactive = FALSE
  ChunkLen = 2
  Threshold = 1
  HistoryLen = 0
  MaxErrors = 2
  MaxDiscards = 2
  MaxStarts = 1
  MaxEpoch = 3
  MaxDelay = 0
PROPERTIES RestartMovesAgain FailureEndsRun TaskLands
