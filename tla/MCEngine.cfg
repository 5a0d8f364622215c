SPECIFICATION MCSpec
CONSTANTS
  Task = {t1, t2}
  InitialTask = t1
  RTC = TRUE
  Trained = FALSE
  UseCompile = FALSE
  WarmupRequired = 1
  Interactive = FALSE
  ChunkLen = 2
  Threshold = 1
  HistoryLen = 2
  MaxErrors = 2
  MaxDiscards = 2
  MaxStarts = 2
  MaxEpoch = 3
  MaxDelay = 1
INVARIANTS TypeOK FreshQueue LabelsSinceReset OneWorker RestartExclusive
PROPERTY NoStartAfterFailure
