----------------------------- MODULE MCParallel -----------------------------
(***************************************************************************)
(* Instances of ParallelHasher for TLC.                                    *)
(***************************************************************************)
EXTENDS ParallelHasher

CONSTANT Pieces   \* lengths of the inputs passed to update

(* Bytes are written as terms, since the bytes of CVs are hashed too.      *)
Byte(n) == <<<<"data", n, n>>, 0>>
NumberedInputs(n) ==
  {[i \in 1..k |-> Byte(n + i)] : k \in {p \in Pieces : n + p <= MaxLen}}
=============================================================================
