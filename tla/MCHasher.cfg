\* Numbered bytes, 2-byte blocks, 2 blocks per chunk, up to 6 chunks.
CONSTANTS
  BlockLen = 2
  ChunkLen = 4
  MaxDepth = 3
  MaxLen = 21
  Keys = {k1}
  Contexts <- BothContexts
  InputsAt <- NumberedInputs
  Pieces = {0, 1, 4, 9}
  SaveAt = {6, 17}
  Seeks = {0, 3}
  OutLens = {1, 5}
  ResetRefused = FALSE
  Others <- OtherStructs
  Overruns <- TwoOverruns
  OtherLen = 6
  None = None
SPECIFICATION Spec
CONSTRAINT OtherBound
INVARIANTS
  TypeOK
  StackInBounds
  StackMatchesCounter
  BytesAccounted
  SavesRestore
PROPERTIES
  ImplementsHashSpec
