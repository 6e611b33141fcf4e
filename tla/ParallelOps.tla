---------------------------- MODULE ParallelOps ----------------------------
(***************************************************************************)
(* The computations of blake4_parallel_hasher (src/blake4_parallel.c) that *)
(* one thread makes on its own: how an input is cut into work units, what  *)
(* a worker computes from its unit, how the collected CVs are merged.      *)
(*                                                                         *)
(* A CV leaves a worker as bytes: the i-th byte of the CV written cv is    *)
(* <<cv, i>>, as it is in OutputRootBytes.                                 *)
(***************************************************************************)
EXTENDS HasherOps

CONSTANTS
  NumThreads,   \* num_threads, after blake4_parallel_hasher_new clamped it
  Threshold,    \* PARALLEL_THRESHOLD, 1 MB in the code
  OutLen,       \* BLAKE4_OUT_LEN: the 64 bytes of a CV
  NoKey         \* has_key = 0

ASSUME ParallelAssumption ==
  /\ NumThreads \in Nat \ {0}
  /\ Threshold \in Nat \ {0}
  /\ OutLen \in 1..BlockLen

Workers == 1..NumThreads

SerialInit(key) == IF key = NoKey THEN InitPlain ELSE InitKeyed(key)
CVBytes(cv) == [i \in 1..OutLen |-> <<cv, i - 1>>]

GoesParallel(in) == Len(in) >= Threshold /\ NumThreads > 1

(* Work distribution: equal runs of whole chunks, the last worker taking   *)
(* what is left.                                                           *)
BytesPerThread(in) ==
  ChunkLen * Max({1, (Len(in) \div ChunkLen) \div NumThreads})

Unit(in, total_chunks, i) ==
  LET offset == (i - 1) * BytesPerThread(in)
      end    == IF i = NumThreads THEN Len(in)
                ELSE Min({offset + BytesPerThread(in), Len(in)})
  IN  [data |-> SubSeq(in, offset + 1, end),
       chunk_start |-> total_chunks + (offset \div ChunkLen)]

Units(in, total_chunks) ==
  LET active == {i \in Workers : (i - 1) * BytesPerThread(in) < Len(in)}
  IN  [i \in active |-> Unit(in, total_chunks, i)]

(* process_chunks: a hasher of its own whose chunk counter is moved to the *)
(* unit's first chunk.                                                     *)
WorkerHasher(unit, key) ==
  [SerialInit(key) EXCEPT !.chunk_counter = unit.chunk_start]

(* Does every push of an update with data find on the stack the CVs that   *)
(* it pops?                                                                *)
PopsWhatWasPushed(h, data) ==
  \A full \in 1..((Len(data) - 1) \div ChunkLen) :
    LET before == HasherUpdate(h, SubSeq(data, 1, full * ChunkLen))
    IN  TrailingZeros(before.chunk_counter + 1) <= before.cv_stack_len

ProcessChunks(unit, key) ==
  [cv_out |-> CVBytes(HasherUpdate(WorkerHasher(unit, key), unit.data).cv),
   chunks_processed |->
     Max({1, (Len(unit.data) + ChunkLen - 1) \div ChunkLen})]

(* The capacity of the CV array, of which len places are used, after the   *)
(* next kept CVs are stored: it doubles when the array is full.            *)
CapForLate(cap, len, kept) ==     \* faulty variant: grows one CV too late
  LET grown[k \in 0..kept] ==
        IF k = 0 THEN cap
        ELSE IF len + k - 1 > grown[k - 1] THEN 2 * grown[k - 1] ELSE grown[k - 1]
  IN  grown[kept]

CapFor(cap, len, kept) ==
  LET grown[k \in 0..kept] ==
        IF k = 0 THEN cap
        ELSE IF len + k - 1 >= grown[k - 1] THEN 2 * grown[k - 1] ELSE grown[k - 1]
  IN  grown[kept]

(* When realloc fails the remaining CVs are dropped: of n CVs the first    *)
(* kept are stored, and if they are not all, the array was full then.      *)
MayStopAt(kept, n, len, cap) ==
  kept < n => len + kept >= CapFor(cap, len, kept)

(* merge_cvs: passes over the array that hash neighbours in pairs.         *)
HashPair(left, right, key) ==
  FinalizeSeek(HasherUpdate(HasherUpdate(SerialInit(key), left), right),
               0, OutLen)

MergePass(cvs, key) ==
  [i \in 1..((Len(cvs) + 1) \div 2) |->
     IF 2 * i <= Len(cvs) THEN HashPair(cvs[2 * i - 1], cvs[2 * i], key)
     ELSE cvs[2 * i - 1]]

MergeCVs(cvs, key) == FoldLeft(LAMBDA s, i : MergePass(s, key), cvs, cvs)

(* The digest of the merged CV: its own bytes, or the hash of them when    *)
(* more are wanted.                                                        *)
ExtendCV(bytes, key, out_len) ==
  IF out_len <= OutLen THEN SubSeq(bytes, 1, out_len)
  ELSE FinalizeSeek(HasherUpdate(SerialInit(key), bytes), 0, out_len)
=============================================================================
