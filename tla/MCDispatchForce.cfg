\* One thread forces, another hashes.
CONSTANTS
  Threads = {t1, t2}
  Setter = t1
  Selections = {"PORTABLE", "AVX2", "AVX512_ASM", "AUTO"}
  Supported = {"SSE41", "AVX", "AVX2"}
  Linked <- LinkedX86
  NULL = NULL
SPECIFICATION OneSetterSpec
INVARIANT
  ForcedStays
