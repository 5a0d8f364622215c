SPECIFICATION MCFairSpec
CONSTANTS
  ChunkLen = 3
  Threshold = 1
  Similar = {TRUE, FALSE}
  Handler = {1, 2}
  LastStep = 2
  MaxFaults = 1
  None = None
PROPERTIES NoSkip BackOnlyAcrossRebuild Unstarved
