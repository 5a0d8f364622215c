SPECIFICATION Spec
CONSTANTS
  Relative = FALSE
  ChunkLen = 6
  Horizon = 3
  TrainingMax = 3
  Threshold = 4
  MaxDiscards = 5
  Warmup = 2
  MaxElapsed = 6
INVARIANTS HardPrefixBacked RobotInsidePrefix NoRepeat
PROPERTIES DiscardTeaches
