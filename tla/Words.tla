------------------------------- MODULE Words -------------------------------
(***************************************************************************)
(* 64-bit words for TLC, whose integers are too small for them: four limbs *)
(* of 16 bits, the lowest first.                                           *)
(***************************************************************************)
EXTENDS Integers
LOCAL INSTANCE Bitwise

Word(l3, l2, l1, l0) == <<l0, l1, l2, l3>>

Limbs(f) == <<f[1], f[2], f[3], f[4]>>

(* Addition modulo 2^64, with the carry into each limb.                    *)
Plus64(x, y) ==
  LET s0 == x[1] + y[1]
      s1 == x[2] + y[2] + s0 \div 65536
      s2 == x[3] + y[3] + s1 \div 65536
      s3 == x[4] + y[4] + s2 \div 65536
  IN  <<s0 % 65536, s1 % 65536, s2 % 65536, s3 % 65536>>

Xor64(x, y) == Limbs([i \in 1..4 |-> x[i] ^^ y[i]])
Or64(x, y)  == Limbs([i \in 1..4 |-> x[i] | y[i]])

LimbOf(x, i) == IF i \in 1..4 THEN x[i] ELSE 0

(* Limb i of x moved down by n \div 16 limbs and n % 16 bits, and up.      *)
Shr64(x, n) ==
  LET bits == n % 16
  IN  Limbs([i \in 1..4 |->
        LimbOf(x, i + n \div 16) \div 2^bits
        + (LimbOf(x, i + n \div 16 + 1) % 2^bits) * 2^(16 - bits)])

Shl64(x, n) ==
  LET bits == n % 16
  IN  Limbs([i \in 1..4 |->
        (LimbOf(x, i - n \div 16) % 2^(16 - bits)) * 2^bits
        + LimbOf(x, i - n \div 16 - 1) \div 2^(16 - bits)])

(* _mm256_shuffle_epi32(x, _MM_SHUFFLE(2, 3, 0, 1)) and vrev64q_u32.       *)
SwapHalves64(x) == <<x[3], x[4], x[1], x[2]>>

IV64 == [i \in 0..7 |-> CASE
     i = 0 -> Word(\h6A09, \hE667, \hF3BC, \hC908)
  [] i = 1 -> Word(\hBB67, \hAE85, \h84CA, \hA73B)
  [] i = 2 -> Word(\h3C6E, \hF372, \hFE94, \hF82B)
  [] i = 3 -> Word(\hA54F, \hF53A, \h5F1D, \h36F1)
  [] i = 4 -> Word(\h510E, \h527F, \hADE6, \h82D1)
  [] i = 5 -> Word(\h9B05, \h688C, \h2B3E, \h6C1F)
  [] i = 6 -> Word(\h1F83, \hD9AB, \hFB41, \hBD6B)
  [] i = 7 -> Word(\h5BE0, \hCD19, \h137E, \h2179)]
=============================================================================
