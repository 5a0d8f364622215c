SPECIFICATION Spec
CONSTANTS
  Relative = TRUE
  ChunkLen = 6
  Horizon = 3
  TrainingMax = 3
  Threshold = 4
  MaxDiscards = 5
  Warmup = 0
  MaxElapsed = 6
INVARIANTS HardPrefixBacked
