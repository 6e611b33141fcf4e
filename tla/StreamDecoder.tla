---------------------------- MODULE StreamDecoder ----------------------------
(***************************************************************************)
(* blake4_stream_decoder: a caller feeds it a file in pieces and receives  *)
(* the chunks it lets through.                                             *)
(*                                                                         *)
(* Despite the names in the code nothing is verified on the way: the root  *)
(* is compared with the header of the tree when the decoder is made, the   *)
(* length when it is finalized, and the nodes of the tree are stored but   *)
(* never read (and so are left out here).                                  *)
(***************************************************************************)
EXTENDS StreamOps

CONSTANT NoDecoder

VARIABLES
  dec,    \* the decoder: the root it expects, the length in the tree's
          \* header (0: not known), verified_len, chunk_buf, and the result
          \* of finalize
  din,    \* every byte passed to update since the decoder was made
  dout,   \* every byte written to the callers' output buffers
  ample,  \* no output buffer was too small for what update had to write
  apart   \* no update that began with a partial chunk in chunk_buf was given
          \* its input as output buffer

decoderVars == <<dec, din, dout, ample, apart>>

DecoderInit ==
  /\ dec = NoDecoder /\ din = <<>> /\ dout = <<>>
  /\ ample = TRUE /\ apart = TRUE

(* decoder_new; a tree of another file, version or root is refused (NULL). *)
Acceptable(tree, expected) ==
  \/ tree.format = "short"
  \/ tree.format = "tree" /\ tree.root = expected

DecoderNew(expected, tree) ==
  /\ dec = NoDecoder
  /\ Acceptable(tree, expected)
  /\ dec' = [expected |-> expected,
             total |-> IF tree.format = "short" THEN 0 ELSE tree.len,
             verified |-> 0, buf |-> <<>>, result |-> "open"]
  /\ din' = <<>> /\ dout' = <<>> /\ ample' = TRUE /\ apart' = TRUE

(* Data with the bytes behind the first start replaced by piece.           *)
Patched(data, start, piece) ==
  [i \in 1..Len(data) |->
     IF i > start /\ i <= start + Len(piece) THEN piece[i - start] ELSE data[i]]

(* One turn of the loop of decoder_update, which has consumed pos bytes of *)
(* the input, t.data, and written out.  In place verified_out is data: a   *)
(* chunk that is put out goes over the input.                              *)
ToCopy(t) == Min({ChunkLen - Len(t.buf), Len(t.data) - t.pos})
(* Variant: the final chunk is judged by its own length.                   *)
FlushedByChunk(d, buf) ==
  Len(buf) = ChunkLen \/ (d.total > 0 /\ Len(buf) >= d.total)
Flushed(d, buf) ==
  \/ Len(buf) = ChunkLen
  \/ d.total > 0 /\ d.verified + Len(buf) >= d.total

Turn(d, t, room, in_place) ==
  LET copied == ToCopy(t)
      buf == t.buf \o Bytes(t.data, t.pos, t.pos + copied)
      output == Bytes(buf, 0, Min({Len(buf), room - Len(t.out)}))
  IN  IF Flushed([d EXCEPT !.verified = t.verified], buf)
      THEN [buf |-> <<>>, verified |-> t.verified + Len(buf),
            pos |-> t.pos + copied, out |-> t.out \o output,
            data |-> IF in_place THEN Patched(t.data, Len(t.out), output)
                     ELSE t.data]
      ELSE [t EXCEPT !.buf = buf, !.pos = @ + copied]

(* Every turn consumes a byte: after Len(data) turns the loop has ended.   *)
UpdateLoop(d, data, room, in_place) ==
  LET start == [buf |-> d.buf, verified |-> d.verified, pos |-> 0,
                out |-> <<>>, data |-> data]
      turn[k \in 0..Len(data)] ==
        IF k = 0 THEN start
        ELSE LET t == turn[k - 1]
             IN  IF t.pos < Len(data) /\ Len(t.out) < room
                 THEN Turn(d, t, room, in_place) ELSE t
  IN  turn[Len(data)]

(* The caller learns only how much was written: input that was not         *)
(* consumed when the output was full is gone, and so is the rest of a      *)
(* chunk that did not fit.                                                 *)
DecoderUpdate(data, room, in_place) ==
  /\ dec # NoDecoder /\ dec.result = "open"
  /\ LET t == UpdateLoop(dec, data, room, in_place)
     IN  /\ dec' = [dec EXCEPT !.buf = t.buf, !.verified = t.verified]
         /\ dout' = dout \o t.out
         /\ ample' = (ample /\ room >= Len(dec.buf) + Len(data))
         /\ apart' = (apart /\ (in_place => dec.buf = <<>>))
  /\ din' = din \o data

DecoderFinalize ==
  /\ dec # NoDecoder /\ dec.result = "open"
  /\ LET verified == dec.verified + Len(dec.buf)
     IN  dec' = [dec EXCEPT !.verified = verified, !.buf = <<>>,
                   !.result = IF dec.total > 0 /\ verified # dec.total
                              THEN "VERIFY" ELSE "OK"]
  /\ UNCHANGED <<din, dout, ample, apart>>

DecoderFree ==
  /\ dec # NoDecoder
  /\ dec' = NoDecoder /\ din' = <<>> /\ dout' = <<>>
  /\ ample' = TRUE /\ apart' = TRUE
=============================================================================
