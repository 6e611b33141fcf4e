\* Two workers, two messages that go to them, and no key but NoKey.
CONSTANTS
  BlockLen = 2
  ChunkLen = 2
  MaxDepth = 4
  NumThreads = 2
  Threshold = 8
  OutLen = 1
  NoKey = NoKey
  Keys = {}
  InputsAt <- RepeatedInputs
  OutLens = {1}
  InitialCap = 2
  MaxLen = 8
  None = None
SPECIFICATION RecordedSpec
INVARIANT DigestBindsMessage
