SPECIFICATION Spec
CONSTANTS
  MaxFrames = 4
  MaxTakes = 2
  MaxQueued = 1
  UploadEvery = 2
  None = None
INVARIANT HubReadable
