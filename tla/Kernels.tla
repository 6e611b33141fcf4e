------------------------------ MODULE Kernels ------------------------------
(***************************************************************************)
(* The vector forms of the compression function: intrinsics                *)
(* (src/blake4_avx2.c, blake4_avx512.c, blake4_neon.c), assembly           *)
(* (blake4_avx2_x86-64.S, blake4_avx512_x86-64.S, blake4_neon_arm64.S) and *)
(* the scalar programs behind vector loads of src/blake4_simd.c.           *)
(*                                                                         *)
(* All keep the state as four rows of four lanes.  The x86 forms hold a    *)
(* row in one register, the ARM forms in two, lanes 0 and 1 and lanes 2    *)
(* and 3.  They work on the four columns at once, rotate the rows so that  *)
(* the diagonals stand in columns, do the same again, and rotate back.     *)
(***************************************************************************)
EXTENDS MixingOps

CONSTANTS
  Inputs,   \* arguments callers pass: [cv, m, block_len, counter, flags]
  None

VARIABLES
  impl,     \* the form called
  input,    \* its arguments
  row,      \* row[r][l]: lane l of row r
  stage,    \* "column", "shuffle", "diagonal", "unshuffle" or "returned"
  round,    \* rounds completed
  out       \* the 16 words returned, or None

compressVars == <<impl, input, row, stage, round, out>>

X86    == {"avx2", "avx512", "avx2_asm", "avx512_asm"}
Arm    == {"neon", "neon_asm"}
Lane   == 0..3
Builds == {"avx512", "avx2", "neon"}  \* of blake4_simd.c, BLAKE4_AVX512 etc.

(* blake4_get_compress_impl: what blake4_simd.c gives in each build.       *)
SimdImpl(build) ==
  CASE build = "avx512" -> "simd_avx512"
    [] build = "avx2"   -> "simd_avx2"
    [] build = "neon"   -> "simd_neon"

Scalar == {SimdImpl(b) : b \in Builds}
Forms  == X86 \cup Arm \cup Scalar

-----------------------------------------------------------------------------
(* Loading.  _mm256_set_epi64x names the highest lane first.               *)
SetEpi64(e3, e2, e1, e0) ==
  [l \in Lane |-> CASE l = 0 -> e0 [] l = 1 -> e1 [] l = 2 -> e2 [] l = 3 -> e3]

Rows(r0, r1, r2, r3) ==
  [r \in 0..3 |-> CASE r = 0 -> r0 [] r = 1 -> r1 [] r = 2 -> r2 [] r = 3 -> r3]

LoadFrom(words, i) == [l \in Lane |-> words[i + l]]

(* Row 3 as the intrinsics for x86 put it together ...                     *)
Row3Set(in) ==
  SetEpi64(Xor(IVWords[7], in.flags), Xor(IVWords[6], in.block_len),
           IVWords[5], Xor(IVWords[4], in.counter))

(* ... from an array, in blake4_neon.c and the AVX2 form of blake4_simd.c  *)
Row3Array(in) ==
  LET row3_vals == <<Xor(IVWords[4], in.counter), IVWords[5],
                     Xor(IVWords[6], in.block_len), Xor(IVWords[7], in.flags)>>
  IN  [l \in Lane |-> row3_vals[l + 1]]

(* ... and by changing lanes of the loaded IV, in the others.              *)
Row3Tweaked(in) ==
  [LoadFrom(IVWords, 4) EXCEPT ![0] = Xor(@, in.counter),
                               ![2] = Xor(@, in.block_len), ![3] = Xor(@, in.flags)]

Row3(i, in) ==
  CASE i \in {"avx2", "avx512"}    -> Row3Set(in)
    [] i \in {"neon", "simd_avx2"} -> Row3Array(in)
    [] OTHER                       -> Row3Tweaked(in)

Load(i, in) ==
  Rows(LoadFrom(in.cv, 0), LoadFrom(in.cv, 4), LoadFrom(IVWords, 0),
       Row3(i, in))

-----------------------------------------------------------------------------
(* G on the columns that stand in these lanes.                             *)
LaneWise(swap, lanes, rows, mx, my) ==
  LET g(l) == MixLane(swap, rows[0][l], rows[1][l], rows[2][l], rows[3][l],
                      mx[l], my[l])
      mixed == <<g(0), g(1), g(2), g(3)>>
  IN  [r \in 0..3 |-> [l \in Lane |-> IF l \in lanes THEN mixed[l + 1][r + 1]
                                                     ELSE rows[r][l]]]

G_AVX2(rows, mx, my)        == LaneWise(TRUE, Lane, rows, mx, my)
G_AVX512(rows, mx, my)      == LaneWise(FALSE, Lane, rows, mx, my)
G_NEON(rows, pair, mx, my)  == LaneWise(TRUE, pair, rows, mx, my)
G_NEONAsm(rows, pair, mx, my) == LaneWise(FALSE, pair, rows, mx, my)

(* The message words of a half round that uses s[k], s[k+1], ...           *)
MessageX(s, k) == SetEpi64(s[k + 6], s[k + 4], s[k + 2], s[k])
MessageY(s, k) == SetEpi64(s[k + 7], s[k + 5], s[k + 3], s[k + 1])

Low  == {0, 1}
High == {2, 3}

VectorG(i, rows, s, k) ==
  LET mx == MessageX(s, k)
      my == MessageY(s, k)
  IN  CASE i \in {"avx2", "avx2_asm"} -> G_AVX2(rows, mx, my)
        [] i \in {"avx512", "avx512_asm"} -> G_AVX512(rows, mx, my)
        [] i = "neon" -> G_NEON(G_NEON(rows, Low, mx, my), High, mx, my)
        [] i = "neon_asm" ->
             G_NEONAsm(G_NEONAsm(rows, Low, mx, my), High, mx, my)

-----------------------------------------------------------------------------
(* The rotations of rows 1, 2 and 3.  A selector holds two bits per lane,  *)
(* lane 0 in the lowest, and names the lane to take; _MM_SHUFFLE lists the *)
(* lanes from the highest.                                                 *)
MM_SHUFFLE(z, y, x, w) == 64 * z + 16 * y + 4 * x + w

Avx2Selectors ==
  [shuffle   |-> <<MM_SHUFFLE(0, 3, 2, 1), MM_SHUFFLE(1, 0, 3, 2),
                   MM_SHUFFLE(2, 1, 0, 3)>>,
   unshuffle |-> <<MM_SHUFFLE(2, 1, 0, 3), MM_SHUFFLE(1, 0, 3, 2),
                   MM_SHUFFLE(0, 3, 2, 1)>>]

(* Faulty variant: the rows are not rotated back but once more the same    *)
(* way.                                                                    *)
Avx512SelectorsOneWay ==
  [shuffle   |-> <<MM_SHUFFLE(0, 3, 2, 1), MM_SHUFFLE(1, 0, 3, 2),
                   MM_SHUFFLE(2, 1, 0, 3)>>,
   unshuffle |-> <<MM_SHUFFLE(0, 3, 2, 1), MM_SHUFFLE(1, 0, 3, 2),
                   MM_SHUFFLE(2, 1, 0, 3)>>]

Avx512Selectors ==
  [shuffle   |-> <<MM_SHUFFLE(0, 3, 2, 1), MM_SHUFFLE(1, 0, 3, 2),
                   MM_SHUFFLE(2, 1, 0, 3)>>,
   unshuffle |-> <<MM_SHUFFLE(2, 1, 0, 3), MM_SHUFFLE(1, 0, 3, 2),
                   MM_SHUFFLE(0, 3, 2, 1)>>]

Avx2AsmSelectors   == [shuffle   |-> <<\h39, \h4E, \h93>>,
                       unshuffle |-> <<\h93, \h4E, \h39>>]
Avx512AsmSelectors == [shuffle   |-> <<\h39, \h4E, \h93>>,
                       unshuffle |-> <<\h93, \h4E, \h39>>]

Selectors(i) ==
  CASE i = "avx2"       -> Avx2Selectors
    [] i = "avx512"     -> Avx512Selectors
    [] i = "avx2_asm"   -> Avx2AsmSelectors
    [] i = "avx512_asm" -> Avx512AsmSelectors

Permute4x64(x, selector) ==
  [l \in Lane |-> x[CASE l = 0 -> selector % 4
                      [] l = 1 -> (selector \div 4) % 4
                      [] l = 2 -> (selector \div 16) % 4
                      [] l = 3 -> (selector \div 64) % 4]]

PermuteRows(rows, selector) ==
  Rows(rows[0], Permute4x64(rows[1], selector[1]),
       Permute4x64(rows[2], selector[2]), Permute4x64(rows[3], selector[3]))

(* The ARM forms move lanes one by one between the halves of a row.        *)
Halves(lo0, lo1, hi0, hi1) == SetEpi64(hi1, hi0, lo1, lo0)

NeonShuffle(rows) ==
  Rows(rows[0],
       Halves(rows[1][1], rows[1][2], rows[1][3], rows[1][0]),
       Halves(rows[2][2], rows[2][3], rows[2][0], rows[2][1]),
       Halves(rows[3][3], rows[3][0], rows[3][1], rows[3][2]))

NeonUnshuffle(rows) ==
  Rows(rows[0],
       Halves(rows[1][3], rows[1][0], rows[1][1], rows[1][2]),
       Halves(rows[2][2], rows[2][3], rows[2][0], rows[2][1]),
       Halves(rows[3][1], rows[3][2], rows[3][3], rows[3][0]))

-----------------------------------------------------------------------------
(* blake4_simd.c stores the rows to an array and continues with scalars.   *)
Flat(rows)  == [i \in 0..15 |-> rows[i \div 4][i % 4]]
Unflat(v)   == [r \in 0..3 |-> [l \in Lane |-> v[4 * r + l]]]
SimdColumns(rows, s)   == Unflat(ColumnStep(Flat(rows), s))
SimdDiagonals(rows, s) == Unflat(DiagonalStep(Flat(rows), s))

-----------------------------------------------------------------------------
Start(i, in) ==
  /\ impl' = i
  /\ input' = in
  /\ row' = Load(i, in)
  /\ stage' = "column"
  /\ round' = 0
  /\ out' = None

CompressInit ==
  \E i \in Forms, in \in Inputs :
    /\ impl = i /\ input = in
    /\ row = Load(i, in)
    /\ stage = "column" /\ round = 0
    /\ out = None

Call(i) ==
  /\ stage = "returned"
  /\ \E in \in Inputs : Start(i, in)

Columns ==
  /\ stage = "column" /\ round < 10
  /\ LET s == Schedule(input.m, round)
     IN  row' = IF impl \in Scalar THEN SimdColumns(row, s)
                                   ELSE VectorG(impl, row, s, 0)
  /\ stage' = IF impl \in Scalar THEN "diagonal" ELSE "shuffle"
  /\ UNCHANGED <<impl, input, round, out>>

Shuffle ==
  /\ stage = "shuffle"
  /\ row' = IF impl \in Arm THEN NeonShuffle(row)
                            ELSE PermuteRows(row, Selectors(impl).shuffle)
  /\ stage' = "diagonal"
  /\ UNCHANGED <<impl, input, round, out>>

SimdDiagonal ==
  /\ stage = "diagonal" /\ impl \in Scalar
  /\ row' = SimdDiagonals(row, Schedule(input.m, round))
  /\ stage' = "column"
  /\ round' = round + 1
  /\ UNCHANGED <<impl, input, out>>

Diagonal ==
  /\ stage = "diagonal" /\ impl \notin Scalar
  /\ row' = VectorG(impl, row, Schedule(input.m, round), 8)
  /\ stage' = "unshuffle"
  /\ UNCHANGED <<impl, input, round, out>>

Unshuffle ==
  /\ stage = "unshuffle"
  /\ row' = IF impl \in Arm THEN NeonUnshuffle(row)
                            ELSE PermuteRows(row, Selectors(impl).unshuffle)
  /\ stage' = "column"
  /\ round' = round + 1
  /\ UNCHANGED <<impl, input, out>>

(* The four output vectors, or the four pairs.                             *)
XorRows(x, y) == [l \in Lane |-> Xor(x[l], y[l])]

CompressReturn ==
  /\ stage = "column" /\ round = 10
  /\ out' = Flat(Rows(XorRows(row[0], row[2]), XorRows(row[1], row[3]),
                      XorRows(row[2], LoadFrom(input.cv, 0)),
                      XorRows(row[3], LoadFrom(input.cv, 4))))
  /\ stage' = "returned"
  /\ UNCHANGED <<impl, input, row, round>>

CompressNext ==
  \/ \E i \in Forms : Call(i)
  \/ Columns
  \/ Shuffle
  \/ SimdDiagonal
  \/ Diagonal
  \/ Unshuffle
  \/ CompressReturn

CompressSpec == CompressInit /\ [][CompressNext]_compressVars

-----------------------------------------------------------------------------
(* The state the portable form would have: between a shuffle and the next  *)
(* unshuffle row r stands rotated left by r lanes.                         *)
InOrder ==
  IF impl \notin Scalar /\ stage \in {"diagonal", "unshuffle"}
  THEN [r \in 0..3 |-> [l \in Lane |-> row[r][(l + 4 - r) % 4]]]
  ELSE row

HalvesDone ==
  CASE stage = "column"                  -> 2 * round
    [] stage \in {"shuffle", "diagonal"} -> 2 * round + 1
    [] stage = "unshuffle"               -> 2 * round + 2
    [] stage = "returned"                -> 21

(* Every form of the compression function computes the portable one: its   *)
(* rotated rows, lane order of the message words, emulated rotations and   *)
(* the way it builds row 3 add up to the same rounds and the same 16       *)
(* words.  A hash must not depend on the processor it runs on.             *)
(* (Portable!Spec, with the stutter named first: TLC then computes no      *)
(* round for steps that are not of a compression.)                         *)
Portable == INSTANCE Mixing WITH v <- Flat(InOrder), half <- HalvesDone
ComputesPortable ==
  Portable!Init /\ [][UNCHANGED compressVars \/ Portable!Next]_(Portable!vars)
=============================================================================
