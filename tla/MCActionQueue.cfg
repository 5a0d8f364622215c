SPECIFICATION Spec
CONSTANTS
  Task = {t1, t2}
  ChunkLen = 3
  MaxChunks = 4
  MaxDelay = 4
INVARIANTS Lockstep
PROPERTIES ImplementsStream NeverBackwards
