----------------------------- MODULE MixingOps -----------------------------
(***************************************************************************)
(* The words of the BLAKE4 compression function (src/blake4_dispatch.c):   *)
(* the quarter round G, the message schedule, the two halves of a round    *)
(* and the state before and after the rounds.                              *)
(*                                                                         *)
(* A word is whatever the operators below work on; TLC is given 64-bit     *)
(* words (module Words), the proofs use none of their laws.  Arrays are    *)
(* functions from 0, as in C.  The 16 message words are given as words:    *)
(* every form of the function loads them as little-endian.                 *)
(***************************************************************************)
EXTENDS Integers

CONSTANTS
  Plus(_, _), Xor(_, _), Or(_, _),   \* +, ^ and | on uint64_t
  Shr(_, _), Shl(_, _),              \* >> and << by a number of bits
  SwapHalves(_),                     \* exchange of the two 32-bit halves
  IVWords                            \* the eight constants

(* Every row is a permutation of 0..15.                                    *)
SIGMA == <<
  << 0,  1,  2,  3,  4,  5,  6,  7,  8,  9, 10, 11, 12, 13, 14, 15>>,
  <<14, 10,  4,  8,  9, 15, 13,  6,  1, 12,  0,  2, 11,  7,  5,  3>>,
  <<11,  8, 12,  0,  5,  2, 15, 13, 10, 14,  3,  6,  7,  1,  9,  4>>,
  << 7,  9,  3,  1, 13, 12, 11, 14,  2,  6,  5, 10,  4,  0, 15,  8>>,
  << 9,  0,  5,  7,  2,  4, 10, 15, 14,  1, 11, 12,  6,  8,  3, 13>>,
  << 2, 12,  6, 10,  0, 11,  8,  3,  4, 13,  7,  5, 15, 14,  1,  9>>,
  <<12,  5,  1, 15, 14, 13,  4, 10,  0,  7,  6,  3,  9,  2,  8, 11>>,
  <<13, 11,  7, 14, 12,  1,  3,  9,  5,  0, 15,  4,  8,  6,  2, 10>>,
  << 6, 15, 14,  9, 11,  3,  0,  8, 12,  2, 13,  7,  1,  4, 10,  5>>,
  <<10,  2,  8,  4,  7,  6,  1,  5, 15, 11,  9, 14,  3, 12, 13,  0>> >>

(* The words of message m in the order round r uses them.                  *)
Schedule(m, r) == [i \in 0..15 |-> m[SIGMA[r + 1][i + 1]]]

RotR(x, n) == Or(Shr(x, n), Shl(x, 64 - n))

(* G on four words.  Vector units rotate by 32 by exchanging halves.       *)
MixLane(swap, a, b, c, d, mx, my) ==
  LET ror32(x) == IF swap THEN SwapHalves(x) ELSE RotR(x, 32)
      a1 == Plus(Plus(a, b), mx)
      d1 == ror32(Xor(d, a1))
      c1 == Plus(c, d1)
      b1 == RotR(Xor(b, c1), 24)
      a2 == Plus(Plus(a1, b1), my)
      d2 == RotR(Xor(d1, a2), 16)
      c2 == Plus(c1, d2)
  IN  <<a2, RotR(Xor(b1, c2), 63), c2, d2>>

(* G on four words of the state, in place.                                 *)
G(v, a, b, c, d, mx, my) ==
  LET w == MixLane(FALSE, v[a], v[b], v[c], v[d], mx, my)
  IN  [v EXCEPT ![a] = w[1], ![b] = w[2], ![c] = w[3], ![d] = w[4]]

(* s are the scheduled message words of the round.                         *)
ColumnStep(v, s) ==
  LET v1 == G(v,  0, 4,  8, 12, s[0], s[1])
      v2 == G(v1, 1, 5,  9, 13, s[2], s[3])
      v3 == G(v2, 2, 6, 10, 14, s[4], s[5])
  IN  G(v3, 3, 7, 11, 15, s[6], s[7])

DiagonalStep(v, s) ==
  LET v1 == G(v,  0, 5, 10, 15, s[8],  s[9])
      v2 == G(v1, 1, 6, 11, 12, s[10], s[11])
      v3 == G(v2, 2, 7,  8, 13, s[12], s[13])
  IN  G(v3, 3, 4,  9, 14, s[14], s[15])

(* in: the arguments [cv, m, block_len, counter, flags] of a compression.  *)
InitialState(in) ==
  [i \in 0..15 |->
     IF i < 8 THEN in.cv[i]
     ELSE CASE i = 12 -> Xor(IVWords[4], in.counter)
            [] i = 14 -> Xor(IVWords[6], in.block_len)
            [] i = 15 -> Xor(IVWords[7], in.flags)
            [] OTHER  -> IVWords[i - 8]]

Output(v, in) ==
  [i \in 0..15 |-> IF i < 8 THEN Xor(v[i], v[i + 8])
                            ELSE Xor(v[i], in.cv[i - 8])]
=============================================================================
