---------------------------- MODULE Compression ----------------------------
(***************************************************************************)
(* The compression function of BLAKE4 and the node that feeds it           *)
(* (src/blake4.c, output_t).                                               *)
(*                                                                         *)
(* Compress is idealised: its 16 output words are the term that names its  *)
(* five inputs, so two outputs are equal exactly when the inputs are.  The *)
(* mixing itself is the subject of another module.  A chaining value is    *)
(* the first half of such an output, or a key, or the IV; since a half     *)
(* determines the term in this ideal world, it is written as the term.     *)
(***************************************************************************)
EXTENDS Naturals, Sequences

CONSTANTS
  BlockLen,   \* BLAKE4_BLOCK_LEN, 128 in the code
  ChunkLen    \* BLAKE4_CHUNK_LEN, 2048 in the code

ASSUME LengthAssumption ==
  /\ BlockLen \in Nat \ {0}
  /\ ChunkLen \in Nat \ {0}

IV      == <<"IV">>
ZeroCV  == <<"zero">>         \* a CV slot after memset
Key(k)  == <<"key", k>>       \* the words of a caller's 64-byte key

(* The tuple starts with the flags and the counter so that terms of        *)
(* different kinds already differ there.                                   *)
Compress(cv, block, block_len, counter, flags) ==
  <<flags, counter, cv, block_len, block>>

Node(cv, block, block_len, counter, flags) ==
  [ input_cv  |-> cv,      block |-> block, block_len |-> block_len,
    counter   |-> counter, flags |-> flags ]

ChainingValue(o) ==
  Compress(o.input_cv, o.block, o.block_len, o.counter, o.flags)

(* One 128-byte block of root output: the counter is replaced by the       *)
(* number of the output block.                                             *)
RootBlock(o, k) ==
  Compress(o.input_cv, o.block, o.block_len, k, o.flags \cup {"ROOT"})

(* The bytes of a block buffer, zero from its length on.                   *)
ZeroPad(bytes) ==
  [i \in 1..BlockLen |-> IF i <= Len(bytes) THEN bytes[i] ELSE 0]
=============================================================================
