\* Every message over {0, 1} up to 3 chunks, compared with every saved one.
CONSTANTS
  BlockLen = 2
  ChunkLen = 2
  MaxDepth = 2
  MaxLen = 5
  SaveAt = {0, 1, 2, 3, 4, 5}
  Keys = {k1}
  Contexts <- OneContext
  InputsAt <- BinaryInputs
  Pieces = {1, 2}
  Seeks = {0}
  OutLens = {1}
  ResetRefused = FALSE
  Others <- NoStructs
  Overruns <- TwoOverruns
  OtherLen = 5
  None = None
SPECIFICATION Spec
INVARIANTS
  DigestSeparates
