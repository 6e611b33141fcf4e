----------------------------- MODULE HasherOps -----------------------------
(***************************************************************************)
(* The operations of blake4_hasher (src/blake4.c) as functions of the      *)
(* struct, a record with the fields of include/blake4.h.                   *)
(*                                                                         *)
(* Abstractions.  chunk_buf is the sequence of its first chunk_buf_len     *)
(* bytes.  The fields buf and buf_len are left out: init zeroes them and   *)
(* nothing but the serializer touches them.  cv_stack is the whole array,  *)
(* stale slots included, and cv_stack_len wraps like the uint8_t it is.    *)
(***************************************************************************)
EXTENDS Compression, SequencesExt

CONSTANT
  MaxDepth    \* BLAKE4_MAX_DEPTH, 54 in the code: slots of the CV stack

ASSUME DepthAssumption == MaxDepth \in 1..254

Slots == 0..(MaxDepth - 1)
OutOfBounds == <<"out of bounds">>  \* what a read outside cv_stack returns

-----------------------------------------------------------------------------
(* Chunks: chunk_state_t.                                                  *)

ChunkStateInit(key, chunk_counter, flags) ==
  [cv |-> key, chunk_counter |-> chunk_counter, buf |-> <<>>,
   blocks_compressed |-> 0, flags |-> flags]

(* Faulty variant: every block of a chunk is marked as its first.          *)
StartFlagAlways(s) == {"CHUNK_START"}

StartFlag(s) == IF s.blocks_compressed = 0 THEN {"CHUNK_START"} ELSE {}

(* A full block is compressed only once a further byte arrives, so that    *)
(* the last block of a chunk is always left for ChunkStateOutput.          *)
ChunkStateAbsorb(s, byte) ==
  IF Len(s.buf) = BlockLen
  THEN [s EXCEPT !.cv = Compress(s.cv, s.buf, BlockLen, s.chunk_counter,
                                 s.flags \cup StartFlag(s)),
                 !.blocks_compressed = @ + 1,
                 !.buf = <<byte>>]
  ELSE [s EXCEPT !.buf = Append(@, byte)]

ChunkStateUpdate(s, bytes) == FoldLeft(ChunkStateAbsorb, s, bytes)

(* Faulty variant: the length of the last block is not compressed.         *)
ChunkStateOutputNoLen(s) ==
  Node(s.cv, ZeroPad(s.buf), BlockLen, s.chunk_counter,
       s.flags \cup StartFlag(s) \cup {"CHUNK_END"})

ChunkStateOutput(s) ==
  Node(s.cv, ZeroPad(s.buf), Len(s.buf), s.chunk_counter,
       s.flags \cup StartFlag(s) \cup {"CHUNK_END"})

-----------------------------------------------------------------------------
(* Parents.                                                                *)

ParentOutput(left, right, key, flags) ==
  Node(key, <<left, right>>, BlockLen, 0, flags \cup {"PARENT"})

ParentCV(left, right, key, flags) ==
  ChainingValue(ParentOutput(left, right, key, flags))

-----------------------------------------------------------------------------
(* The hasher.                                                             *)

InitHasher(key_words, flags) ==
  [ cv            |-> key_words,
    key_words     |-> key_words,
    chunk_counter |-> 0,
    chunk_buf     |-> <<>>,
    cv_stack      |-> [i \in Slots |-> ZeroCV],
    cv_stack_len  |-> 0,
    flags         |-> flags ]

(* The node of the chunk being buffered.                                   *)
ChunkOutput(h) ==
  ChunkStateOutput(ChunkStateUpdate(
    ChunkStateInit(h.key_words, h.chunk_counter, h.flags), h.chunk_buf))

StackSlot(h, i) == IF i \in Slots THEN h.cv_stack[i] ELSE OutOfBounds

(* hasher_push_cv is a loop around PopTop, closed by PushTop.  PopTop is   *)
(* one turn: the index is decremented first, and 0 wraps to 255.           *)
PopLen(h) == (h.cv_stack_len + 255) % 256

(* Faulty variant: both children are popped.                               *)
PopTopTwice(h) == [h EXCEPT !.cv_stack_len = @ - 2]

PopTop(h) == [h EXCEPT !.cv_stack_len = PopLen(h)]
MergedCV(h, cv) ==
  ParentCV(StackSlot(h, PopLen(h)), cv, h.key_words, h.flags)

PushTop(h, cv) ==
  [h EXCEPT !.cv_stack = [@ EXCEPT ![h.cv_stack_len] = cv],
            !.cv_stack_len = (@ + 1) % 256]

NextChunk(h, total_chunks) ==
  [h EXCEPT !.chunk_counter = total_chunks, !.chunk_buf = <<>>]

(* The next bytes of the input that fit in the chunk buffer.               *)
Take(h, input) == Min({ChunkLen - Len(h.chunk_buf), Len(input)})
Buffer(h, bytes) == [h EXCEPT !.chunk_buf = @ \o bytes]

-----------------------------------------------------------------------------
(* Whole calls, for the callers that make them on a hasher of their own.   *)

(* hasher_push_cv: turns of its loop are made while total is even, which   *)
(* it stops being before as many turns are made as there are chunks.       *)
PushTurn(p) ==
  IF p.total % 2 = 1 THEN p
  ELSE [hasher |-> PopTop(p.hasher), cv |-> MergedCV(p.hasher, p.cv),
        total |-> p.total \div 2]

HasherPushCV(h, new_cv, total_chunks) ==
  LET turn[i \in 0..total_chunks] ==
        IF i = 0 THEN [hasher |-> h, cv |-> new_cv, total |-> total_chunks]
        ELSE PushTurn(turn[i - 1])
  IN  PushTop(turn[total_chunks].hasher, turn[total_chunks].cv)

(* The number of CVs the push for chunk n pops: trailing zero bits of n.   *)
TrailingZeros(n) ==
  CHOOSE z \in 0..n : n % 2^z = 0 /\ (n \div 2^z) % 2 = 1

(* blake4_hasher_update, byte by byte: a full chunk is flushed only when a *)
(* byte follows it.                                                        *)
AbsorbByte(h, byte) ==
  LET total == h.chunk_counter + 1
      flushed == IF Len(h.chunk_buf) < ChunkLen THEN h
                 ELSE NextChunk(HasherPushCV(h, ChainingValue(ChunkOutput(h)),
                                             total), total)
  IN  Buffer(flushed, <<byte>>)

HasherUpdate(h, input) == FoldLeft(AbsorbByte, h, input)

(* blake4_hasher_finalize_seek: the root node, and the requested window of *)
(* its output.                                                             *)
RootNode(h) ==
  LET merged[i \in 0..h.cv_stack_len] ==     \* after merging slots >= i
        IF i = h.cv_stack_len THEN ChunkOutput(h)
        ELSE ParentOutput(StackSlot(h, i), ChainingValue(merged[i + 1]),
                          h.key_words, h.flags)
  IN  merged[0]

(* output_root_bytes: a turn of its loop reads what is wanted of block k,   *)
(* from the offset on, which is not 0 for the first block only.            *)
OutputTurn(o, p) ==
  LET take == Min({BlockLen - p.offset, p.left})
  IN  IF p.left = 0 THEN p
      ELSE [out |-> p.out \o [i \in 1..take |->
                               <<RootBlock(o, p.k), p.offset + i - 1>>],
            left |-> p.left - take, k |-> p.k + 1, offset |-> 0]

OutputRootBytes(o, seek, out_len) ==
  LET turn[i \in 0..out_len] ==
        IF i = 0 THEN [out |-> <<>>, left |-> out_len,
                       k |-> seek \div BlockLen, offset |-> seek % BlockLen]
        ELSE OutputTurn(o, turn[i - 1])
  IN  turn[out_len].out

FinalizeSeek(h, seek, out_len) == OutputRootBytes(RootNode(h), seek, out_len)

(* blake4_hasher_init, _init_keyed and _init_derive_key_raw.  The derived  *)
(* key is read back from the 64 default bytes of the hash of the context.  *)
InitPlain      == InitHasher(IV, {})
InitKeyed(key) == InitHasher(Key(key), {"KEYED_HASH"})
InitDeriveKey(context) ==
  LET ctx == HasherUpdate(InitHasher(IV, {"DERIVE_KEY_CONTEXT"}), context)
  IN  InitHasher(RootBlock(RootNode(ctx), 0), {"DERIVE_KEY_MATERIAL"})

(* Faulty variant: reset leaves the CV stack in place.                     *)
ResetHasherKeepStack(h) == [h EXCEPT !.chunk_counter = 0, !.chunk_buf = <<>>]

ResetHasher(h) == InitHasher(h.key_words, h.flags)
=============================================================================
