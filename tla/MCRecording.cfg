SPECIFICATION AnySpec
CONSTANTS
  MaxFrames = 5
  MaxTakes = 3
  MaxQueued = 1
  UploadEvery = 2
  NumEpisodes = 2
  Stride = 2
  RingFrames = 2
  RingBytes = 3
  FrameBytes = 1
  None = None
INVARIANTS FramesKept TakesApart CorrectionWhole Stretches TailSaved HubCurrent
PROPERTY PoisonHolds
