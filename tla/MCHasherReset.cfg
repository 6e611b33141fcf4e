\* Callers that reset a hasher after a restore into it was refused.
CONSTANTS
  BlockLen = 2
  ChunkLen = 2
  MaxDepth = 2
  MaxLen = 5
  SaveAt = {0, 3}
  Keys = {k1}
  Contexts <- PlainContexts
  InputsAt <- NumberedInputs
  Pieces = {1, 3}
  Seeks = {0}
  OutLens = {1}
  ResetRefused = TRUE
  Others <- NoStructs
  Overruns <- TwoOverruns
  OtherLen = 5
  None = None
SPECIFICATION Spec
INVARIANTS
  KeepsMode
