------------------------------ MODULE MCStream ------------------------------
(***************************************************************************)
(* Instances of Stream for TLC.                                            *)
(***************************************************************************)
EXTENDS Stream

(* Every chunk of a file of up to five chunks, slices inside a chunk, and  *)
(* one over two chunks.                                                    *)
FewRanges ==
  {<<c * ChunkLen, (c + 1) * ChunkLen>> : c \in 0..(MaxLen \div ChunkLen) - 1}
    \cup {<<8, 9>>, <<1, 2>>, <<0, 4>>}
=============================================================================
