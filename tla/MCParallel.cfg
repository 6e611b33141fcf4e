\* Two workers, one-block chunks of 2 bytes, up to two parallel updates.
CONSTANTS
  BlockLen = 2
  ChunkLen = 2
  MaxDepth = 4
  NumThreads = 2
  Threshold = 8
  OutLen = 1
  NoKey = NoKey
  Keys = {k1}
  InputsAt <- NumberedInputs
  Pieces = {3, 8}
  OutLens = {1, 2}
  InitialCap = 1
  MaxLen = 19
  None = None
SPECIFICATION FairPSpec
INVARIANTS
  TypeOK
  MemoryOutlivesWorkers
  NoLostWakeup
PROPERTIES
  ImplementsBatch
  CallsReturn
