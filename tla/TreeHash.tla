------------------------------ MODULE TreeHash ------------------------------
(***************************************************************************)
(* What BLAKE4 promises to compute: the hash of a complete message,        *)
(* defined top-down on the binary tree of its chunks, with no buffering,   *)
(* no stack and no notion of an incremental call.                          *)
(*                                                                         *)
(*  - the message is cut in chunks of ChunkLen bytes (one empty chunk for  *)
(*    the empty message);                                                  *)
(*  - a tree of n > 1 chunks has as its left subtree the largest power of  *)
(*    two of chunks that is strictly below n;                              *)
(*  - only the root is compressed with the ROOT flag, once per block of    *)
(*    output.                                                              *)
(*                                                                         *)
(* A mode is a pair of the 8 key words and the mode flags.                 *)
(***************************************************************************)
EXTENDS Compression, BitCount

NumChunks(m) == IF m = <<>> THEN 1 ELSE CeilDiv(Len(m), ChunkLen)

(* Bytes i*size+1 .. (i+1)*size of s, fewer at its end.                    *)
Piece(s, i, size) == SubSeq(s, i * size + 1, Min({(i + 1) * size, Len(s)}))

(* The blocks of a chunk, their flags, and ChunkChain(...)[b]: the chaining *)
(* value after the first b of them.                                        *)
BlockCount(bytes) == IF bytes = <<>> THEN 1 ELSE CeilDiv(Len(bytes), BlockLen)
BlockAt(bytes, b) == Piece(bytes, b, BlockLen)
BlockFlags(mode, bytes, b) ==
  mode.flags \cup (IF b = 0 THEN {"CHUNK_START"} ELSE {})
             \cup (IF b = BlockCount(bytes) - 1 THEN {"CHUNK_END"} ELSE {})

ChunkChain(mode, bytes, index) ==
  LET cv[b \in 0..BlockCount(bytes)] ==
        IF b = 0 THEN mode.key
        ELSE Compress(cv[b - 1], ZeroPad(BlockAt(bytes, b - 1)),
                      Len(BlockAt(bytes, b - 1)), index,
                      BlockFlags(mode, bytes, b - 1))
  IN  cv

ChunkNode(mode, bytes, index) ==
  LET last == BlockCount(bytes) - 1
  IN  Node(ChunkChain(mode, bytes, index)[last], ZeroPad(BlockAt(bytes, last)),
           Len(BlockAt(bytes, last)), index, BlockFlags(mode, bytes, last))

ParentNode(mode, left, right) ==
  Node(mode.key, <<left, right>>, BlockLen, 0, mode.flags \cup {"PARENT"})

(* Subtree(mode, m)[n][first]: the node over chunks first .. first+n-1.    *)
Subtree(mode, m) ==
  LET node[n \in Nat \ {0}] ==
        [first \in Nat |->
           IF n = 1 THEN ChunkNode(mode, Piece(m, first, ChunkLen), first)
           ELSE LET l == LeftSize(n)
                IN  ParentNode(mode, ChainingValue(node[l][first]),
                                     ChainingValue(node[n - l][first + l]))]
  IN  node

Root(mode, m) == Subtree(mode, m)[NumChunks(m)][0]

(* Byte i of the unbounded output stream, and the window that starts at    *)
(* seek and holds len bytes.                                               *)
OutputByte(root, i) == <<RootBlock(root, i \div BlockLen), i % BlockLen>>
OutputWindow(root, seek, len) ==
  [i \in 1..len |-> OutputByte(root, seek + i - 1)]

XOF(mode, m, seek, len) == OutputWindow(Root(mode, m), seek, len)

(* The three kinds of mode.  A derived key is the default-length hash of   *)
(* the context, under a flag of its own.                                   *)
PlainMode        == [key |-> IV, flags |-> {}]
KeyedMode(k)     == [key |-> Key(k), flags |-> {"KEYED_HASH"}]
ContextMode      == [key |-> IV, flags |-> {"DERIVE_KEY_CONTEXT"}]
DeriveMode(ctx)  == [key |-> RootBlock(Root(ContextMode, ctx), 0),
                     flags |-> {"DERIVE_KEY_MATERIAL"}]
=============================================================================
