\* Two editions of up to five chunks of two bytes.
CONSTANTS
  ChunkLen = 2
  Editions = {1, 2}
  MaxLen = 10
  Pieces = {3, 5}
  InitialCap = 4
  Ranges <- FewRanges
  Rooms = {1, 3}
  FedPieces = {1, 4}
  OutRooms = {3, 4, 5}
  NoDecoder = NoDecoder
  NoEncoder = NoEncoder
  NoProof = NoProof
SPECIFICATION Spec
INVARIANTS
  TypeOK
  TreeIsLeftFull
  ProofFitsBuffer
  SliceVerdict
  FileAgreesWithSlices
  DecoderDelivers
