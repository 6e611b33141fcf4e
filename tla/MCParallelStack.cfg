\* Two workers and an input of four chunks and a byte: the second worker
\* takes its two chunks and the byte.
CONSTANTS
  BlockLen = 2
  ChunkLen = 2
  MaxDepth = 4
  NumThreads = 2
  Threshold = 8
  OutLen = 1
  NoKey = NoKey
  Keys = {}
  InputsAt <- NumberedInputs
  Pieces = {9}
  OutLens = {1}
  InitialCap = 2
  MaxLen = 9
  None = None
SPECIFICATION PSpec
INVARIANT WorkersKeepStack
