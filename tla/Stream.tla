------------------------------- MODULE Stream -------------------------------
(***************************************************************************)
(* A caller of BLAKE4-STREAM.  It encodes editions of a file with an       *)
(* encoder (or in one shot), keeps the latest tree and the latest root,    *)
(* extracts a proof for a slice, goes on encoding while it holds the       *)
(* proof, and passes files through a decoder.  Verification changes no     *)
(* state: the properties put every question a caller could ask to          *)
(* SliceStatus and FileStatus in every state.                              *)
(*                                                                         *)
(* An allocation may fail wherever the code makes one.  A call that fails  *)
(* and leaves everything as it was is a stuttering step.                   *)
(***************************************************************************)
EXTENDS StreamDecoder

CONSTANTS
  Editions,    \* 1..n, the files being encoded
  MaxLen,      \* bound: bytes of an edition
  Pieces,      \* lengths passed to encoder_update
  InitialCap,  \* 4096, the first capacity of an encoder's buffer
  Ranges,      \* slices that are asked for
  Rooms,       \* sizes of proof buffers, in hashes
  FedPieces,   \* lengths passed to decoder_update
  OutRooms,    \* sizes of output buffers
  NoEncoder, NoProof

ASSUME CallerAssumption ==
  /\ MaxLen \in Nat /\ InitialCap \in Nat \ {0}
  /\ Pieces \subseteq Nat /\ FedPieces \subseteq Nat /\ OutRooms \subseteq Nat
  /\ Ranges \subseteq Nat \X Nat

VARIABLES
  enc,    \* the encoder: buffered data and its capacity; which edition it
          \* is fed, and how much of it was passed to update
  root,   \* the caller's root_hash variable
  tree,   \* the tree file last returned
  proof,  \* the proof last extracted
  origin  \* the data it was extracted from

encoderVars == <<enc, root, tree>>
proofVars == <<proof, origin>>
vars == <<enc, root, tree, proof, origin, dec, din, dout, ample, apart>>

(* Bytes from .. to-1 of an edition.  Two editions differ in their first   *)
(* chunk only, so a proof may fit an edition it was not made for.          *)
EditionByte(e, i) ==
  IF i <= ChunkLen THEN Byte((e - 1) * ChunkLen + i)
  ELSE Byte(Max(Editions) * ChunkLen + i)
Part(e, from, to) == [i \in 1..(to - from) |-> EditionByte(e, from + i)]
Edition(e, len) == Part(e, 0, len)

(* Files a caller may hold: an edition, cut anywhere the pieces end.       *)
Lengths == {0} \cup Pieces
             \cup {l \in {p + q : p, q \in Pieces} : l <= MaxLen}
Files == {Edition(e, l) : e \in Editions, l \in Lengths}

NoTree == [format |-> "short", len |-> 0, root |-> ZeroHash, nodes |-> <<>>]

Init ==
  /\ enc = NoEncoder
  /\ root = ZeroHash
  /\ tree = NoTree
  /\ proof = NoProof /\ origin = <<>>
  /\ DecoderInit

-----------------------------------------------------------------------------
(* Bounds.  At most one of an encoder, a held proof and a decoder is in    *)
(* use (they share nothing).  An encoder is made before the first tree,    *)
(* and while a proof is held files are hashed (which changes the root) but *)
(* not encoded.  Proofs are extracted from trees that have their nodes;    *)
(* decoders are made when root and tree match (with its tree a decoder is  *)
(* refused otherwise).                                                     *)
NewEncoder(e) ==
  /\ enc = NoEncoder /\ proof = NoProof /\ dec = NoDecoder
  /\ tree = NoTree
  /\ enc' = [edition |-> e, fed |-> 0, data |-> <<>>, cap |-> 0]
  /\ UNCHANGED <<root, tree, proofVars, decoderVars>>

(* Variant: doubled once.                                                  *)
GrownOnce(cap, need) == IF cap = 0 THEN InitialCap ELSE cap * 2

(* Capacity after growing: doubled until the need is met.                  *)
Grown(cap, need) ==
  LET base == IF cap = 0 THEN InitialCap ELSE cap * 2
  IN  Min({c \in {base * Pow2[k] : k \in 0..need} : c >= need})

(* encoder_update: if the buffer cannot grow, the piece is dropped and the *)
(* caller is not told.                                                     *)
EncoderUpdate(n) ==
  LET need == Len(enc.data) + n
      grow == need > enc.cap
      stored == [enc EXCEPT
        !.data = @ \o Part(enc.edition, enc.fed, enc.fed + n),
        !.cap = IF grow THEN Grown(@, need) ELSE @]
  IN  /\ enc # NoEncoder
      /\ enc.fed + n <= MaxLen
      /\ \/ enc' = [stored EXCEPT !.fed = @ + n]
         \/ grow /\ enc' = [enc EXCEPT !.fed = @ + n]
      /\ UNCHANGED <<root, tree, proofVars, decoderVars>>

(* encoder_finalize on data.  build_tree needs memory only for more than   *)
(* one chunk; without it neither the root nor the size of the tree is set. *)
(* That size is then whatever the stack holds: if 0, a header with the     *)
(* caller's old root is returned as OK; else the call fails, or crashes    *)
(* copying from NULL (and the behaviour ends).                             *)
Built(data) ==
  LET t == BuildTree(data)
  IN  /\ root' = t.root
      /\ \/ tree' = TreeFile(Len(data), t)
         \/ tree' = tree             \* no memory for the output: INVALID
OutOfMemory(data) ==
  /\ NumChunks(Len(data)) > 1
  /\ root' = root
  /\ tree' = TreeFile(Len(data), [root |-> root, nodes |-> <<>>])

FinalizeData(data) == Built(data) \/ OutOfMemory(data)

EncoderFinalize ==
  /\ enc # NoEncoder
  /\ FinalizeData(enc.data)
  /\ UNCHANGED <<enc, proofVars, decoderVars>>

(* encoder_root_hash and blake4_stream_hash.                               *)
EncoderRootHash ==
  /\ enc # NoEncoder
  /\ root' = BuildTree(enc.data).root
  /\ UNCHANGED <<enc, tree, proofVars, decoderVars>>

EncoderFree ==
  /\ enc # NoEncoder
  /\ enc' = NoEncoder
  /\ UNCHANGED <<root, tree, proofVars, decoderVars>>

(* blake4_stream_encode: new, update, finalize, free.  If update finds no  *)
(* memory it is the empty file that is encoded.                            *)
Encode(data) ==
  /\ enc = NoEncoder /\ proof = NoProof /\ dec = NoDecoder
  /\ \E kept \in {data, <<>>} : FinalizeData(kept)
  /\ UNCHANGED <<enc, proofVars, decoderVars>>

StreamHash(data) ==
  /\ enc = NoEncoder /\ dec = NoDecoder
  /\ root' = BuildTree(data).root
  /\ UNCHANGED <<enc, tree, proofVars, decoderVars>>

(* blake4_stream_extract_slice, when it returns OK.                        *)
HasNodes(t) == Len(t.nodes) = NumChunks(t.len) - 1
ExtractSlice(data, start, end, room) ==
  /\ enc = NoEncoder /\ proof = NoProof /\ dec = NoDecoder
  /\ HasNodes(tree)
  /\ ExtractStatus(tree, data, start, end, room) = "OK"
  /\ proof' = ExtractedProof(tree, data, start, end)
  /\ origin' = data
  /\ UNCHANGED <<encoderVars, decoderVars>>

DiscardProof ==
  /\ proof # NoProof
  /\ proof' = NoProof /\ origin' = <<>>
  /\ UNCHANGED <<encoderVars, decoderVars>>

(* A decoder is given the caller's tree, or that tree cut off.             *)
NewDecoder(t) ==
  /\ enc = NoEncoder /\ proof = NoProof
  /\ root = tree.root
  /\ DecoderNew(root, t)
  /\ UNCHANGED <<encoderVars, proofVars>>

(* It is fed the next n bytes of an edition, in place or from a buffer     *)
(* apart ("verified_out: ... can be same as data", blake4_stream.h:162).   *)
Feed(e, n, room, in_place) ==
  /\ Len(din) + n <= MaxLen
  /\ din = Edition(e, Len(din))
  /\ DecoderUpdate(Part(e, Len(din), Len(din) + n), room, in_place)
  /\ UNCHANGED <<encoderVars, proofVars>>

FinalizeDecoder == DecoderFinalize /\ UNCHANGED <<encoderVars, proofVars>>
FreeDecoder == DecoderFree /\ UNCHANGED <<encoderVars, proofVars>>

Next ==
  \/ \E e \in Editions : NewEncoder(e)
  \/ \E n \in Pieces : EncoderUpdate(n)
  \/ EncoderFinalize \/ EncoderRootHash \/ EncoderFree
  \/ \E d \in Files : Encode(d) \/ StreamHash(d)
  \/ \E d \in Files, r \in Ranges, room \in Rooms :
       ExtractSlice(d, r[1], r[2], room)
  \/ DiscardProof
  \/ \E t \in {tree, NoTree} : NewDecoder(t)
  \/ \E e \in Editions, n \in FedPieces, room \in OutRooms, in_place \in BOOLEAN :
       Feed(e, n, room, in_place)
  \/ FinalizeDecoder \/ FreeDecoder

Spec == Init /\ [][Next]_vars

-----------------------------------------------------------------------------
(* What the tree should be, defined from the top: the left subtree holds   *)
(* the largest power of two of chunks that is below their number.          *)
(* RefNode(data)[size][first]: the node over chunks first..first+size-1.   *)
Leaf(data, i) == Hash(Bytes(data, i * ChunkLen, ChunkEnd(Len(data), i)))
RefNode(data) ==
  LET node[size \in Nat \ {0}] ==
        [first \in Nat |->
           IF size = 1 THEN Leaf(data, first)
           ELSE LET l == LeftSize(size)
                IN  HashParent(node[l][first], node[size - l][first + l])]
  IN  node
RefRoot(data) == RefNode(data)[NumChunks(Len(data))][0]

(* Type invariant.  The encoder's buffer holds its data (memcpy at         *)
(* blake4_stream.c:240), the decoder's less than one chunk between calls.  *)
TypeOK ==
  /\ enc # NoEncoder => /\ Len(enc.data) <= enc.cap
                        /\ Len(enc.data) <= enc.fed /\ enc.fed <= MaxLen
  /\ tree.format \in {"tree", "short"}
  /\ proof # NoProof => Len(proof.siblings) = proof.depth
  /\ dec # NoDecoder => /\ Len(dec.buf) < ChunkLen
                        /\ dec.result \in {"open", "OK", "VERIFY"}

(* build_tree, which merges level by level and promotes odd nodes, makes   *)
(* the left-full tree over the chunks of whatever the encoder buffered,    *)
(* and its parents fill tree_data exactly.                                 *)
TreeIsLeftFull ==
  enc # NoEncoder =>
    LET t == BuildTree(enc.data)
    IN  /\ t.root = RefRoot(enc.data)
        /\ Len(t.nodes) = NumChunks(Len(enc.data)) - 1
        /\ t.nodes # <<>> => Last(t.nodes) = t.root

(* proof_size, computed from the number of chunks alone, is what           *)
(* extract_slice writes: the walk up the levels collects exactly TreeDepth *)
(* siblings, whichever nodes are promoted on the way.                      *)
ProofFitsBuffer ==
  proof # NoProof => proof.depth = ProofSlots(proof.len)

(* The file a proof of a whole chunk vouches for is the one it was made    *)
(* from, with that chunk replaced by the slice presented.  verify_slice    *)
(* accepts the slice exactly if that file has the root expected now and    *)
(* the proof names it: also when other files were encoded since the proof  *)
(* was made, and when its tree was of other data of the same length.       *)
SliceVerdict ==
  proof # NoProof /\ WholeChunk(proof.start, proof.end, proof.len) =>
    \A slice \in {Bytes(f, proof.start, proof.end) :
                    f \in {g \in Files : Len(g) = proof.len}} :
      SliceStatus(root, proof.start, proof.end, slice, proof) = "OK" <=>
        /\ proof.root = root
        /\ RefRoot(Patched(origin, proof.start, slice)) = root

(* The two ways to check a file agree: blake4_stream_verify accepts a      *)
(* non-empty file with its tree exactly if a proof can be extracted for    *)
(* each of its chunks from that tree and every chunk passes with its own.  *)
EveryChunkVerifies(file) ==
  \A c \in 0..NumChunks(Len(file)) - 1 :
    LET start == c * ChunkLen
        end == ChunkEnd(Len(file), c)
    IN  /\ ExtractStatus(tree, file, start, end, ProofSlots(Len(file))) = "OK"
        /\ SliceStatus(root, start, end, Bytes(file, start, end),
                       ExtractedProof(tree, file, start, end)) = "OK"

FileAgreesWithSlices ==
  proof = NoProof /\ dec = NoDecoder /\ enc = NoEncoder /\ tree.format = "tree" =>
    \A file \in Files \ {<<>>} :
      FileStatus(root, tree, file, BuildTree(file).root) = "OK"
        <=> EveryChunkVerifies(file)

(* A decoder whose output buffers were large enough writes a prefix of     *)
(* what it was fed.  Until it is finalized it holds back less than a       *)
(* chunk, and nothing once the length in the tree's header is reached; so  *)
(* with a tree, finalize reports OK exactly if it delivered all of an      *)
(* input of that length.  A buffer that was too small loses bytes without  *)
(* an error, but not without a trace: a caller who feeds the announced     *)
(* length and adds up what update returned has either lost nothing, or too *)
(* small a sum, or no OK.  Input and output may be one buffer only in      *)
(* calls that begin with no partial chunk held (see InPlaceDelivers).      *)
DecoderDelivers ==
  dec # NoDecoder /\ apart =>
    /\ ample =>
         /\ IsPrefix(dout, din)
         /\ Len(din) - Len(dout) =
              IF dec.total > 0 /\ Len(din) >= dec.total THEN 0
              ELSE Len(din) % ChunkLen
         /\ dec.total > 0 /\ dec.result # "open" =>
              (dec.result = "OK" <=> dout = din /\ Len(dout) = dec.total)
    /\ dec.total > 0 /\ dec.result = "OK" /\ Len(din) = dec.total =>
         (Len(dout) = dec.total => dout = din)

(* "verified_out: Buffer to receive verified data (can be same as data)"   *)
(* (blake4_stream.h:162): also in place, an ample decoder delivers a       *)
(* prefix of what it was fed.  It does not when it holds a partial chunk:  *)
(* a chunk completed with the first bytes of data is longer than they are, *)
(* and goes over bytes of data that were not read yet.                     *)
InPlaceDelivers ==
  dec # NoDecoder /\ ample => IsPrefix(dout, din)

(* blake4_stream.h:174: finalize "Returns BLAKE4_STREAM_OK if all data     *)
(* verified successfully", so what a decoder that was given a tree has     *)
(* delivered, in buffers apart, has the root it was made with.  The code   *)
(* never hashes it.                                                        *)
DecoderOKMeansVerified ==
  dec # NoDecoder /\ apart /\ dec.total > 0 /\ dec.result = "OK" =>
    RefRoot(dout) = dec.expected
=============================================================================
