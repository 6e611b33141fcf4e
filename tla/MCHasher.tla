------------------------------ MODULE MCHasher ------------------------------
(***************************************************************************)
(* Instances of Hasher for TLC.                                            *)
(***************************************************************************)
EXTENDS Hasher

CONSTANTS
  Pieces,     \* lengths of the inputs passed to update
  OtherLen    \* bound: bytes hashed while a struct of Others is about

(* Every byte is its own position in the message, so that a byte lost,     *)
(* repeated or out of place changes the digest.                            *)
NumberedInputs(n) == {[i \in 1..k |-> n + i] : k \in Pieces}

(* Every byte string over {0, 1} of these lengths, 0 being also the        *)
(* padding.                                                                *)
BinaryInputs(n) == UNION {[1..k -> {0, 1}] : k \in Pieces}

(* Contexts of one and of several chunks.                                  *)
ShortContext == <<7>>
LongContext  == [i \in 1..(2 * ChunkLen + 1) |-> 7]
BothContexts == {ShortContext, LongContext}
OneContext   == {ShortContext}
PlainContexts == {}

(* Structs that deserialize accepts and no hasher has: a stack too short   *)
(* for the next push, one already full, and one that only looks right.     *)
Other(counter, len, buffered) ==
  [InitPlain EXCEPT !.chunk_counter = counter, !.cv_stack_len = len,
                    !.chunk_buf = [i \in 1..buffered |-> i],
                    !.cv_stack = [i \in Slots |-> <<"other", i>>]]
TooShort == Other(1, 0, ChunkLen)
TooFull  == Other(2, MaxDepth, ChunkLen)
Fitting  == Other(2, 1, 1)
OtherStructs == {TooShort, TooFull, Fitting}
NoStructs == {}

(* Bound: how far hashers are followed while a state of other origin is in  *)
(* the hasher or in the saved buffer.                                      *)
OtherBound ==
  mode = None \/ (savedAs # None /\ savedAs.mode = None) => Len(message) <= OtherLen

(* Bytes 0 and 1 of a CV where cv_stack_len and flags were.                *)
TwoOverruns == {[cv_stack_len |-> 1, flags |-> {}],
                [cv_stack_len |-> 9, flags |-> {"KEYED_HASH"}]}
=============================================================================
