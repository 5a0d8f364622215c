SPECIFICATION Spec
CONSTANTS
  Windows <- MCWindows
  HistorySizes = {2, 3, 5, 8}
  ImageFrames = {2, 3, 5, 6}
  Bins = 3
  MaxFrames = 12
  MaxEpisodes = 2
INVARIANTS LiveMatchesTraining SnapshotSurvives FallbackMatchesTraining ProgressBalanced
