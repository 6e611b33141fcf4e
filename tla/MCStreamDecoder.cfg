\* Does a decoder that reports OK have verified what it delivered?
CONSTANTS
  ChunkLen = 2
  Editions = {1, 2}
  MaxLen = 10
  Pieces = {3, 5}
  InitialCap = 4
  Ranges <- FewRanges
  Rooms = {1, 3}
  FedPieces = {1, 4}
  OutRooms = {4, 5}
  NoDecoder = NoDecoder
  NoEncoder = NoEncoder
  NoProof = NoProof
SPECIFICATION Spec
INVARIANTS
  DecoderOKMeansVerified
