\* 64-bit words in the compressions; every combination of CPUID bits
\* and saved registers; 4-bit words in the utilities, all pairs;
\* 8-byte blocks and values, 4-byte addresses in the hashes, every two calls.
\* Three threads, all free to hash and to force; x86-64 build, AVX2 CPU.
CONSTANTS
  Threads = {t1, t2, t3}
  Setter = t1
  Selections = {"AVX2", "AUTO"}
  Supported = {"SSE41", "AVX", "AVX2"}
  Linked <- LinkedX86
  NULL = NULL
  BlockLen = 8
  ChunkLen = 16
  MaxDepth = 3
  OutLen = 8
  AddrLen = 4
  CallKeys = {k1}
  CallOutLens = {8, 11}
  MaxBlocks = 2
  MaxCallLen = 33
  CallContexts <- MCContexts
  CallInputs <- MCInputs
  Values <- MCValues
  Addresses <- MCAddresses
  Messages <- MCMessages
  NoCall = NoCall
  Bits = 4
  ByteValues = {0, 1, 128, 255}
  MaxBytes = 2
  None = None
  Plus <- Plus64
  Xor <- Xor64
  Or <- Or64
  Shr <- Shr64
  Shl <- Shl64
  SwapHalves <- SwapHalves64
  IVWords <- IV64
  Inputs <- KernelInputs
SPECIFICATION CallsSpec
SYMMETRY ThreadSymmetry
INVARIANTS
  TypeOK
  FeaturesComplete
  OnlyUsable
  UsedWasChosen
  DetectionExact
  CtAgrees
  CallsHashTheirInput
  SeparatedButForHMsg
PROPERTIES
  ComputesPortable
\* Detection, the utilities and the two hash calls of a behaviour come to an end.
CHECK_DEADLOCK FALSE
