------------------------------ MODULE StreamOps ------------------------------
(***************************************************************************)
(* BLAKE4-STREAM (src/blake4_stream.c): the Merkle tree over the chunks of *)
(* a file, the authentication path of a chunk, and the functions that make *)
(* and check proofs without changing any state.                            *)
(*                                                                         *)
(* A byte of data is a number's record; a hash is the term of what was     *)
(* hashed and stands for its 64 bytes.  hash_chunk and hash_parent both    *)
(* are plain BLAKE4 hashes: their arguments chunk_index and is_root are    *)
(* not used by the code.                                                   *)
(***************************************************************************)
EXTENDS Integers, SequencesExt, BitCount

CONSTANT ChunkLen   \* BLAKE4_STREAM_CHUNK_LEN, 2048

ASSUME StreamAssumption == ChunkLen \in Nat \ {0}

Byte(n)  == [of |-> <<>>, tag |-> n]    \* n > 0
ZeroHash == [of |-> <<>>, tag |-> -1]   \* 64 zero bytes
Hash(s)  == [of |-> s, tag |-> 0]

HashParent(left, right) == Hash(<<left, right>>)

NumChunks(len) == IF len = 0 THEN 1 ELSE CeilDiv(len, ChunkLen)

(* Bytes start .. end-1 of s, and the end of the chunk.                    *)
Bytes(s, start, end) == SubSeq(s, start + 1, end)
ChunkEnd(len, i)     == Min({(i + 1) * ChunkLen, len})

ChunkHashes(data) ==
  [i \in 1..NumChunks(Len(data)) |->
     Hash(Bytes(data, (i - 1) * ChunkLen, ChunkEnd(Len(data), i - 1)))]

(* The number of times n can be halved before it is 0.                     *)
Halvings[n \in Nat] == IF n = 0 THEN 0 ELSE 1 + Halvings[n \div 2]
(* Variant: chunks is not decremented first.                               *)
TreeDepthOffByOne(chunks) == IF chunks <= 1 THEN 0 ELSE Halvings[chunks]
TreeDepth(chunks) == IF chunks <= 1 THEN 0 ELSE Halvings[chunks - 1]

-----------------------------------------------------------------------------
(* One pass of the loop of build_tree: neighbours are hashed in pairs, and *)
(* these parents are the nodes that are stored; an odd last node moves up  *)
(* as it is.                                                               *)
Parents(level) ==
  [i \in 1..(Len(level) \div 2) |->
     HashParent(level[2 * i - 1], level[2 * i])]
(* Variant: an odd last node is hashed with itself.                        *)
PromotedTwice(level) ==
  IF Len(level) % 2 = 1 THEN <<HashParent(Last(level), Last(level))>> ELSE <<>>
Promoted(level)  == IF Len(level) % 2 = 1 THEN <<Last(level)>> ELSE <<>>
NextLevel(level) == Parents(level) \o Promoted(level)

(* All levels, from the chunk hashes to the single node at the top.        *)
Levels(data) ==
  LET n == NumChunks(Len(data))
      level[k \in 0..n] ==
        IF k = 0 THEN ChunkHashes(data)
        ELSE LET below == level[k - 1]
             IN  IF Len(below) > 1 THEN NextLevel(below) ELSE <<>>
      height == Max({k \in 0..n : level[k] # <<>>})
  IN  [k \in 0..height |-> level[k]]

Height(levels) == Max(DOMAIN levels)

(* What build_tree returns when its allocations succeed.  The parents fill *)
(* the NumChunks - 1 places of tree_data, so its bound check never bites   *)
(* (TreeIsLeftFull in module Stream).                                            *)
BuildTree(data) ==
  LET levels == Levels(data)
      top == Height(levels)
  IN  [root  |-> levels[top][1],
       nodes |-> FlattenSeq([k \in 1..top |-> Parents(levels[k - 1])])]

-----------------------------------------------------------------------------
(* extract_merkle_path: the sibling at every level, zeros where there is   *)
(* none.  Both indices count from 0.                                       *)
SiblingIndex(node) == IF node % 2 = 0 THEN node + 1 ELSE node - 1
MerklePath(data, chunk) ==
  LET levels == Levels(data)
  IN  [i \in 1..Height(levels) |->
         LET s == SiblingIndex(chunk \div Pow2[i - 1])
         IN  IF s < Len(levels[i - 1]) THEN levels[i - 1][s + 1]
             ELSE ZeroHash]

(* Variant: the index is not shifted on the way up.                        *)
PathRootNoShift(hash, chunk, siblings) ==
  LET up[i \in 0..Len(siblings)] ==
        IF i = 0 THEN hash
        ELSE IF siblings[i] = ZeroHash THEN up[i - 1]
        ELSE IF chunk % 2 = 1 THEN HashParent(siblings[i], up[i - 1])
        ELSE HashParent(up[i - 1], siblings[i])
  IN  up[Len(siblings)]

(* verify_merkle_path: bit i of the chunk's index tells left from right,   *)
(* a zero sibling means that the node was promoted.                        *)
PathRoot(hash, chunk, siblings) ==
  LET up[i \in 0..Len(siblings)] ==
        IF i = 0 THEN hash
        ELSE LET current == up[i - 1]
                 sibling == siblings[i]
             IN  IF sibling = ZeroHash THEN current
                 ELSE IF (chunk \div Pow2[i - 1]) % 2 = 1
                      THEN HashParent(sibling, current)
                      ELSE HashParent(current, sibling)
  IN  up[Len(siblings)]

-----------------------------------------------------------------------------
(* A tree file as a caller passes it.  format says what the first bytes    *)
(* show: a tree, a tree of another version, another file, or fewer bytes   *)
(* than a header has (a NULL pointer counts as such, where the code gives  *)
(* both the same treatment).                                               *)
TreeFile(len, tree) ==
  [format |-> "tree", len |-> len, root |-> tree.root, nodes |-> tree.nodes]

(* Sizes of proofs, in hashes behind the fixed part; -1 is a buffer that   *)
(* cannot hold that part.                                                  *)
ProofSlots(len) == TreeDepth(NumChunks(len))

(* blake4_stream_extract_slice: the status and, if OK, the proof.  room is *)
(* the caller's proof_len.                                                 *)
ExtractStatus(tree, data, start, end, room) ==
  CASE start >= end \/ end > Len(data)         -> "RANGE"
    [] tree.format \in {"short", "foreign"}    -> "FORMAT"
    [] tree.len # Len(data)                    -> "VERIFY"
    [] room < ProofSlots(Len(data))            -> "BUFFER"
    [] OTHER                                   -> "OK"

ExtractedProof(tree, data, start, end) ==
  LET chunk == start \div ChunkLen
      siblings == MerklePath(data, chunk)
  IN  [format |-> "proof", root |-> tree.root, len |-> Len(data),
       start |-> start, end |-> end, chunk |-> chunk,
       depth |-> Len(siblings), siblings |-> siblings]

(* blake4_stream_verify_slice.  The slice is hashed only if it is all of   *)
(* one chunk: any other slice passes on its header.                        *)
WholeChunk(start, end, len) ==
  LET chunk == start \div ChunkLen
  IN  start = chunk * ChunkLen /\ end = ChunkEnd(len, chunk)

SliceStatus(expected, start, end, slice, proof) ==
  CASE proof.format \in {"short", "foreign"}           -> "FORMAT"
    [] proof.format = "version"                        -> "VERSION"
    [] proof.root # expected                           -> "VERIFY"
    [] proof.start # start \/ proof.end # end          -> "RANGE"
    [] Len(slice) # end - start                        -> "VERIFY"
    [] Len(proof.siblings) < proof.depth               -> "FORMAT"
    [] proof.chunk # start \div ChunkLen               -> "VERIFY"
    [] /\ WholeChunk(start, end, proof.len)
       /\ PathRoot(Hash(slice), proof.chunk,
                   SubSeq(proof.siblings, 1, proof.depth)) # expected
                                                       -> "VERIFY"
    [] OTHER                                           -> "OK"

(* Variant: the root in the header is not compared.                        *)
FileStatusNoRoot(expected, tree, data, computed) ==
  CASE computed # expected         -> "VERIFY"
    [] tree.format = "short"       -> "OK"
    [] tree.format = "foreign"     -> "FORMAT"
    [] tree.format = "version"     -> "VERSION"
    [] tree.len # Len(data)        -> "VERIFY"
    [] OTHER                       -> "OK"

(* blake4_stream_verify, computed being the root of data (or what lies in  *)
(* an uninitialised variable when build_tree is out of memory).            *)
FileStatus(expected, tree, data, computed) ==
  CASE computed # expected                             -> "VERIFY"
    [] tree.format = "short"                           -> "OK"
    [] tree.format = "foreign"                         -> "FORMAT"
    [] tree.format = "version"                         -> "VERSION"
    [] tree.len # Len(data) \/ tree.root # expected    -> "VERIFY"
    [] OTHER                                           -> "OK"
=============================================================================
