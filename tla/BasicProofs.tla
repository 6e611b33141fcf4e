---------------------------- MODULE BasicProofs ----------------------------
(***************************************************************************)
(* What the other proofs rest on: numbers and their multiples, powers of   *)
(* two, the number of one bits, windows of a sequence, and joins.  The     *)
(* recursive functions exist by StrongRecursion of module Recursion.       *)
(***************************************************************************)
EXTENDS BitCount, SequencesExt, SequenceTheorems, TLAPS

-----------------------------------------------------------------------------
(* Numbers.                                                                *)
LEMMA MinOfTwo ==
  ASSUME NEW a \in Int, NEW b \in Int
  PROVE  Min({a, b}) = IF a <= b THEN a ELSE b
<1> DEFINE m == IF a <= b THEN a ELSE b
<1>1. m \in {a, b} /\ \A y \in {a, b} : m =< y
  OBVIOUS
<1>2. Min({a, b}) \in {a, b} /\ \A y \in {a, b} : Min({a, b}) =< y
  <2> HIDE DEF m
  <2> QED BY <1>1 DEF Min
<1>3. Min({a, b}) \in Int
  BY <1>2
<1>4. QED
  BY <1>2, <1>3

LEMMA MaxOfTwo ==
  ASSUME NEW a \in Int, NEW b \in Int
  PROVE  Max({a, b}) = IF a >= b THEN a ELSE b
<1> DEFINE m == IF a >= b THEN a ELSE b
<1>1. m \in {a, b} /\ \A y \in {a, b} : m >= y
  OBVIOUS
<1>2. Max({a, b}) \in {a, b} /\ \A y \in {a, b} : Max({a, b}) >= y
  <2> HIDE DEF m
  <2> QED BY <1>1 DEF Max
<1>3. Max({a, b}) \in Int
  BY <1>2
<1>4. QED
  BY <1>2, <1>3

LEMMA Multiples ==
  ASSUME NEW a \in Nat, NEW b \in Nat, NEW k \in Nat \ {0}
  PROVE  /\ a * k \in Nat
         /\ (a + 1) * k = a * k + k
         /\ (a + b) * k = a * k + b * k
         /\ a <= b => a * k <= b * k
         /\ a < b => a * k + k <= b * k
<1>1. a * k \in Nat /\ b * k \in Nat /\ (a + 1) * k = a * k + k
      /\ (a + b) * k = a * k + b * k
  OBVIOUS
<1>2. ASSUME a <= b PROVE a * k <= b * k
  <2>1. PICK d \in Nat : b = a + d
    BY <1>2
  <2>2. (a + d) * k = a * k + d * k /\ d * k \in Nat
    OBVIOUS
  <2>3. QED
    BY <1>1, <2>1, <2>2
<1>3. ASSUME a < b PROVE a * k + k <= b * k
  <2>1. PICK d \in Nat : b = a + 1 + d
    BY <1>3
  <2>2. (a + 1 + d) * k = a * k + k + d * k /\ d * k \in Nat
    OBVIOUS
  <2>3. QED
    BY <1>1, <2>1, <2>2
<1>4. QED
  BY <1>1, <1>2, <1>3

LEMMA Division ==
  ASSUME NEW j \in Nat, NEW k \in Nat \ {0}
  PROVE  /\ j \div k \in Nat /\ j % k \in 0..(k - 1)
         /\ j = (j \div k) * k + (j % k)
<1>1. j \div k \in Nat
  OBVIOUS
<1>2. j % k \in 0..(k - 1)
  OBVIOUS
<1>3. j = k * (j \div k) + (j % k)
  OBVIOUS
<1>4. k * (j \div k) = (j \div k) * k
  BY <1>1
<1>5. QED
  BY <1>1, <1>2, <1>3, <1>4

LEMMA DivisionIs ==
  ASSUME NEW k \in Nat, NEW n \in Nat \ {0}, NEW r \in 0..(n - 1)
  PROVE  (k * n + r) \div n = k /\ (k * n + r) % n = r
<1> DEFINE x == k * n + r
           d == x \div n
           e == x % n
<1>1. k * n \in Nat
  OBVIOUS
<1>2. x \in Nat /\ x = k * n + r
  BY <1>1
<1> HIDE DEF x
<1>3. d \in Nat /\ e \in 0..(n - 1) /\ x = d * n + e
  BY <1>2
<1> HIDE DEF d, e
<1>4. d * n \in Nat
  BY <1>3
<1>5. ~(d < k)
  <2> SUFFICES ASSUME d < k PROVE FALSE
    OBVIOUS
  <2>1. d * n + n <= k * n
    BY <1>3, Multiples
  <2>2. QED
    BY <1>1, <1>2, <1>3, <1>4, <2>1
<1>6. ~(k < d)
  <2> SUFFICES ASSUME k < d PROVE FALSE
    OBVIOUS
  <2>1. k * n + n <= d * n
    BY <1>3, Multiples
  <2>2. QED
    BY <1>1, <1>2, <1>3, <1>4, <2>1
<1>7. d = k
  BY <1>3, <1>5, <1>6
<1>8. e = r
  BY <1>1, <1>2, <1>3, <1>7
<1>9. QED
  BY <1>7, <1>8 DEF d, e, x

(* Rounding up.                                                            *)
LEMMA CeilDivCovers ==
  ASSUME NEW a \in Nat, NEW k \in Nat \ {0}
  PROVE  /\ CeilDiv(a, k) \in Nat
         /\ a <= CeilDiv(a, k) * k
         /\ CeilDiv(a, k) * k <= a + k - 1
<1> DEFINE d == CeilDiv(a, k)
           r == (a + k - 1) % k
<1>1. d \in Nat /\ r \in 0..(k - 1) /\ a + k - 1 = d * k + r
  <2>1. a + k - 1 \in Nat
    OBVIOUS
  <2>2. QED
    BY <2>1 DEF CeilDiv
<1> HIDE DEF d, r
<1>2. d * k \in Nat
  BY <1>1, Multiples
<1>3. QED
  BY <1>1, <1>2 DEF d

LEMMA CeilDivIs ==
  ASSUME NEW a \in Nat, NEW k \in Nat \ {0}, NEW q \in Nat,
         q * k < a, a <= (q + 1) * k
  PROVE  CeilDiv(a, k) = q + 1
<1> DEFINE d == CeilDiv(a, k)
<1>1. d \in Nat /\ a <= d * k /\ d * k <= a + k - 1
  BY CeilDivCovers
<1> HIDE DEF d
<1>2. q * k \in Nat /\ (q + 1) * k = q * k + k
  BY Multiples
<1>3. ~(d < q + 1)
  <2> SUFFICES ASSUME d < q + 1 PROVE FALSE
    OBVIOUS
  <2>1. d * k \in Nat /\ d * k <= q * k
    BY <1>1, Multiples
  <2>2. QED
    BY <1>1, <1>2, <2>1
<1>4. ~(q + 1 < d)
  <2> SUFFICES ASSUME q + 1 < d PROVE FALSE
    OBVIOUS
  <2>1. d * k \in Nat /\ (q + 1) * k + k <= d * k
    BY <1>1, Multiples
  <2>2. QED
    BY <1>1, <1>2, <2>1
<1>5. QED
  BY <1>1, <1>3, <1>4 DEF d

-----------------------------------------------------------------------------
(* Powers of two.                                                          *)
PowStep(p, g, k) == IF k = 0 THEN 1 ELSE 2 * g[k - 1]
Powers == INSTANCE Recursion WITH Step <- PowStep

(* A set that holds 0 and the successor of each of its numbers holds all   *)
(* numbers; so does one that holds each number whose smaller ones it holds. *)
LEMMA SetInduction ==
  ASSUME NEW T, 0 \in T, \A n \in Nat : n \in T => n + 1 \in T
  PROVE  Nat \subseteq T
BY Powers!SetInduction

LEMMA StrongSetInduction ==
  ASSUME NEW T, \A n \in Nat : (0..(n - 1)) \subseteq T => n \in T
  PROVE  Nat \subseteq T
BY Powers!StrongSetInduction

LEMMA Pow2Equation ==
  Pow2[0] = 1 /\ \A k \in Nat : Pow2[k + 1] = 2 * Pow2[k]
<1>1. Powers!LooksBelow(0, Nat)
  <2> SUFFICES ASSUME NEW n \in Nat, NEW g, NEW h,
                      \A i \in Nat : i < n => g[i] = h[i]
               PROVE  PowStep(0, g, n) = PowStep(0, h, n)
    BY DEF Powers!LooksBelow
  <2>1. n # 0 => n - 1 \in Nat /\ n - 1 < n
    OBVIOUS
  <2>2. QED
    BY <2>1 DEF PowStep
<1>2. Powers!IsStrongRecursion(Pow2, 0, Nat)
  BY DEF Powers!IsStrongRecursion, Pow2, PowStep
<1>3. Pow2 = [n \in Nat |-> PowStep(0, Pow2, n)]
  BY <1>1, <1>2, Powers!StrongRecursion
<1>4. \A n \in Nat : Pow2[n] = PowStep(0, Pow2, n)
  BY <1>3
<1>5. \A k \in Nat : k + 1 \in Nat /\ k + 1 # 0 /\ (k + 1) - 1 = k
  OBVIOUS
<1>6. QED
  BY <1>4, <1>5 DEF PowStep

LEMMA Pow2Facts ==
  ASSUME NEW k \in Nat
  PROVE  /\ Pow2[k] \in Nat /\ Pow2[k] > 0
         /\ k < Pow2[k]
         /\ Pow2[0] = 1
         /\ Pow2[k + 1] = 2 * Pow2[k]
<1> DEFINE T == {n \in Nat : Pow2[n] \in Nat /\ n < Pow2[n]}
<1>1. 0 \in T
  BY Pow2Equation
<1>2. \A n \in Nat : n \in T => n + 1 \in T
  BY Pow2Equation
<1>3. Nat \subseteq T
  <2> HIDE DEF T
  <2> QED BY <1>1, <1>2, SetInduction
<1>4. QED
  BY <1>3, Pow2Equation

LEMMA Pow2Increases ==
  ASSUME NEW j \in Nat, NEW k \in Nat, j < k
  PROVE  2 * Pow2[j] <= Pow2[k]
<1> DEFINE T == {n \in Nat : 2 * Pow2[j] <= Pow2[j + 1 + n]}
<1>1. 0 \in T
  BY Pow2Facts
<1>2. ASSUME NEW n \in Nat, n \in T PROVE n + 1 \in T
  <2>1. Pow2[j + 1 + n + 1] = 2 * Pow2[j + 1 + n] /\ Pow2[j + 1 + n] \in Nat
        /\ Pow2[j] \in Nat
    BY Pow2Facts
  <2>2. j + 1 + (n + 1) = j + 1 + n + 1
    OBVIOUS
  <2>3. QED
    BY <1>2, <2>1, <2>2
<1>3. Nat \subseteq T
  <2> HIDE DEF T
  <2> QED BY <1>1, <1>2, SetInduction
<1>4. k - j - 1 \in Nat /\ j + 1 + (k - j - 1) = k
  OBVIOUS
<1>5. QED
  BY <1>3, <1>4

(* The left subtree of 2^j + r chunks, 0 < r <= 2^j, has 2^j.              *)
LEMMA LeftSizeIsPower ==
  ASSUME NEW j \in Nat, NEW n \in Nat, Pow2[j] < n, n <= 2 * Pow2[j]
  PROVE  LeftSize(n) = Pow2[j]
<1> DEFINE S == {Pow2[k] : k \in {i \in 0..n : Pow2[i] < n}}
           w == Pow2[j]
<1>1. w \in S
  <2>1. j \in 0..n
    BY Pow2Facts
  <2>2. QED
    BY <2>1
<1>2. \A x \in S : x \in Nat /\ x <= w
  <2> SUFFICES ASSUME NEW k \in 0..n, Pow2[k] < n
               PROVE  Pow2[k] \in Nat /\ Pow2[k] <= w
    OBVIOUS
  <2>1. Pow2[k] \in Nat /\ Pow2[j] \in Nat
    BY Pow2Facts
  <2>2. CASE j < k
    <3>1. 2 * Pow2[j] <= Pow2[k]
      BY <2>2, Pow2Increases
    <3>2. QED
      BY <2>1, <3>1
  <2>3. CASE k < j
    <3>1. 2 * Pow2[k] <= Pow2[j]
      BY <2>3, Pow2Increases
    <3>2. QED
      BY <2>1, <3>1
  <2>4. QED
    BY <2>1, <2>2, <2>3
<1>3. w \in Nat
  BY Pow2Facts
<1> HIDE DEF S, w
<1>4. \E x \in S : \A y \in S : x >= y
  BY <1>1, <1>2, <1>3
<1>5. Max(S) \in S /\ \A y \in S : Max(S) >= y
  BY <1>4 DEF Max
<1>6. Max(S) = w
  <2>1. Max(S) >= w /\ Max(S) <= w /\ Max(S) \in Nat
    BY <1>1, <1>2, <1>5
  <2>2. QED
    BY <1>3, <2>1
<1>7. QED
  BY <1>6 DEF LeftSize, S, w

(* A tree of more than one chunk has two subtrees that are smaller.        *)
LEMMA LeftSizeIsSmaller ==
  ASSUME NEW n \in Nat, n > 1
  PROVE  LeftSize(n) \in 1..(n - 1)
<1> DEFINE S == {Pow2[k] : k \in {i \in 0..n : Pow2[i] < n}}
<1>1. \A x \in S : x \in 1..(n - 1)
  BY Pow2Facts
<1>2. 1 \in S
  BY Pow2Facts
<1>3. \E x \in S : \A y \in S : x >= y
  <2> SUFFICES ASSUME ~\E x \in S : \A y \in S : x >= y PROVE FALSE
    OBVIOUS
  <2>0. \A x \in S : \E y \in S : y > x
    <3> HIDE DEF S
    <3>1. \A x, y \in S : x >= y \/ y > x
      BY <1>1
    <3>2. QED
      BY <3>1
  <2> DEFINE T == {i \in Nat : \E y \in S : y > i}
  <2>1. 0 \in T
    BY <1>2
  <2>2. \A i \in Nat : i \in T => i + 1 \in T
    <3> SUFFICES ASSUME NEW i \in Nat, NEW y \in S, y > i PROVE i + 1 \in T
      OBVIOUS
    <3>1. PICK z \in S : z > y
      BY <2>0
    <3> HIDE DEF S
    <3>2. z > i + 1
      BY <1>1, <3>1
    <3>3. QED
      BY <3>2
  <2>3. Nat \subseteq T
    <3> HIDE DEF T
    <3> QED BY <2>1, <2>2, SetInduction
  <2>4. n \in T
    BY <2>3
  <2>5. QED
    <3> HIDE DEF S
    <3> QED BY <1>1, <2>4
<1> HIDE DEF S
<1>4. Max(S) \in S
  BY <1>3 DEF Max
<1>5. QED
  BY <1>1, <1>4 DEF LeftSize, S

(* A set of numbers that is not empty has a least one.                     *)
LEMMA MinOfNats ==
  ASSUME NEW S \in SUBSET Nat, S # {}
  PROVE  Min(S) \in S /\ \A y \in S : Min(S) <= y
<1>1. \E x \in S : \A y \in S : x <= y
  <2> SUFFICES ASSUME ~\E x \in S : \A y \in S : x <= y PROVE FALSE
    OBVIOUS
  <2> DEFINE T == {n \in Nat : n \notin S}
  <2>1. ASSUME NEW n \in Nat, (0..(n - 1)) \subseteq T PROVE n \in T
    <3>1. \A y \in S : n <= y
      <4> SUFFICES ASSUME NEW y \in S, y < n PROVE FALSE
        OBVIOUS
      <4>1. y \in 0..(n - 1)
        OBVIOUS
      <4>2. QED
        BY <2>1, <4>1
    <3>2. QED
      BY <3>1
  <2>2. Nat \subseteq T
    <3> HIDE DEF T
    <3> QED BY <2>1, StrongSetInduction
  <2>3. QED
    BY <2>2
<1>2. QED
  BY <1>1 DEF Min

-----------------------------------------------------------------------------
(* The number of one bits.                                                 *)
(* Every natural is twice its half, and its last bit.                      *)
LEMMA HalfFacts ==
  ASSUME NEW n \in Nat
  PROVE  /\ n \div 2 \in Nat /\ n % 2 \in 0..1
         /\ n = 2 * (n \div 2) + (n % 2)
         /\ n # 0 => n \div 2 < n
OBVIOUS

OnesStep(p, g, n) == IF n = 0 THEN 0 ELSE (n % 2) + g[n \div 2]
OneBits == INSTANCE Recursion WITH Step <- OnesStep

LEMMA OnesEquation ==
  /\ \A n \in Nat : Ones[n] = OnesStep(0, Ones, n)
  /\ \A n \in Nat : Ones[n] \in Nat
<1>1. OneBits!LooksBelow(0, Nat)
  <2> SUFFICES ASSUME NEW n \in Nat, NEW g, NEW h,
                      \A i \in Nat : i < n => g[i] = h[i]
               PROVE  OnesStep(0, g, n) = OnesStep(0, h, n)
    BY DEF OneBits!LooksBelow
  <2>1. n # 0 => n \div 2 \in Nat /\ n \div 2 < n
    BY HalfFacts
  <2>2. QED
    BY <2>1 DEF OnesStep
<1>2. OneBits!IsStrongRecursion(Ones, 0, Nat)
  BY DEF OneBits!IsStrongRecursion, Ones, OnesStep
<1>3. Ones = [n \in Nat |-> OnesStep(0, Ones, n)]
  BY <1>1, <1>2, OneBits!StrongRecursion
<1>5. \A n \in Nat : Ones[n] = OnesStep(0, Ones, n)
  BY <1>3
<1> DEFINE T == {n \in Nat : Ones[n] \in Nat}
<1>6. ASSUME NEW n \in Nat, (0..(n - 1)) \subseteq T
      PROVE  n \in T
  <2>1. CASE n = 0
    BY <1>5, <2>1 DEF OnesStep
  <2>2. CASE n # 0
    <3>1. n \div 2 \in 0..(n - 1) /\ n % 2 \in Nat
      BY <2>2, HalfFacts
    <3>2. Ones[n \div 2] \in Nat
      BY <1>6, <3>1
    <3>3. Ones[n] = (n % 2) + Ones[n \div 2]
      BY <1>5, <2>2 DEF OnesStep
    <3>4. QED
      BY <3>1, <3>2, <3>3
  <2>3. QED
    BY <2>1, <2>2
<1>7. Nat \subseteq T
  <2> HIDE DEF T
  <2> QED BY <1>6, StrongSetInduction
<1>8. QED
  BY <1>5, <1>7

(* Doubling adds no one bit, and doubling plus one adds one.               *)
THEOREM OnesFacts ==
  /\ \A n \in Nat : Ones[n] \in Nat
  /\ Ones[0] = 0
  /\ \A n \in Nat : n > 0 /\ n % 2 = 0 => Ones[n] = Ones[n \div 2]
  /\ \A n \in Nat : n % 2 = 1 => /\ Ones[n] = Ones[n - 1] + 1
                                 /\ Ones[n] = Ones[n \div 2] + 1
<1>1. ASSUME NEW n \in Nat, n % 2 = 1
      PROVE  Ones[n] = Ones[n - 1] + 1 /\ Ones[n] = Ones[n \div 2] + 1
  <2>1. n - 1 \in Nat /\ (n - 1) % 2 = 0 /\ (n - 1) \div 2 = n \div 2
        /\ n \div 2 \in Nat /\ n # 0
    BY <1>1
  <2>2. Ones[n] = 1 + Ones[n \div 2]
    BY <1>1, <2>1, OnesEquation DEF OnesStep
  <2>3. Ones[n - 1] = Ones[n \div 2]
    <3>1. CASE n - 1 = 0
      BY <2>1, <3>1, OnesEquation DEF OnesStep
    <3>2. CASE n - 1 # 0
      <4>1. Ones[n - 1] = ((n - 1) % 2) + Ones[(n - 1) \div 2]
        BY <2>1, <3>2, OnesEquation DEF OnesStep
      <4>2. Ones[n \div 2] \in Nat
        BY <2>1, OnesEquation
      <4>3. QED
        BY <2>1, <4>1, <4>2
    <3>3. QED
      BY <3>1, <3>2
  <2>4. QED
    BY <2>1, <2>2, <2>3, OnesEquation
<1>2. ASSUME NEW n \in Nat, n > 0, n % 2 = 0
      PROVE  Ones[n] = Ones[n \div 2]
  BY <1>2, HalfFacts, OnesEquation DEF OnesStep
<1>3. QED
  BY <1>1, <1>2, OnesEquation DEF OnesStep

-----------------------------------------------------------------------------
(* Windows of a sequence.                                                  *)
LEMMA WindowFacts ==
  ASSUME NEW S, NEW s \in Seq(S), NEW a \in Nat, NEW b \in Nat,
         a >= 1, a <= b + 1, b <= Len(s)
  PROVE  /\ SubSeq(s, a, b) \in Seq(S)
         /\ Len(SubSeq(s, a, b)) = b - a + 1
         /\ \A i \in 1..(b - a + 1) : SubSeq(s, a, b)[i] = s[a + i - 1]
<1>1. \A i \in a..b : s[i] \in S
  <2>1. Len(s) \in Nat
    BY LenProperties
  <2>2. QED
    BY <2>1, ElementOfSeq
<1>2. (IF a <= b THEN b - a + 1 ELSE 0) = b - a + 1
  OBVIOUS
<1>3. a \in Int /\ b \in Int
  OBVIOUS
<1>4. QED
  BY <1>1, <1>2, <1>3, SubSeqProperties

LEMMA WindowGrows ==
  ASSUME NEW S, NEW s \in Seq(S), NEW a \in Nat, NEW b \in Nat,
         a >= 1, a <= b + 1, b < Len(s)
  PROVE  Append(SubSeq(s, a, b), s[b + 1]) = SubSeq(s, a, b + 1)
<1> DEFINE u == SubSeq(s, a, b)
           v == SubSeq(s, a, b + 1)
           w == Append(u, s[b + 1])
           n == b - a + 1
<1>0. n \in Nat /\ Len(s) \in Nat
  BY LenProperties
<1>1. s[b + 1] \in S
  BY <1>0, ElementOfSeq
<1>2. /\ u \in Seq(S) /\ Len(u) = n
      /\ \A i \in 1..n : u[i] = s[a + i - 1]
  BY <1>0, WindowFacts
<1>3. /\ v \in Seq(S) /\ Len(v) = n + 1
      /\ \A i \in 1..(n + 1) : v[i] = s[a + i - 1]
  <2>1. b + 1 \in Nat /\ a <= (b + 1) + 1 /\ b + 1 <= Len(s)
        /\ (b + 1) - a + 1 = n + 1
    BY <1>0
  <2> HIDE DEF n
  <2>2. QED
    BY <2>1, WindowFacts
<1> HIDE DEF u, v
<1>4. /\ w \in Seq(S) /\ Len(w) = n + 1
      /\ \A i \in 1..n : w[i] = u[i]
      /\ w[n + 1] = s[b + 1]
  <2> HIDE DEF n
  <2> QED BY <1>1, <1>2, AppendProperties
<1>5. ASSUME NEW i \in 1..(n + 1) PROVE w[i] = v[i]
  <2>1. CASE i = n + 1
    <3>1. a + i - 1 = b + 1
      BY <2>1
    <3> HIDE DEF n, w
    <3>2. v[i] = s[b + 1]
      BY <1>3, <3>1
    <3>3. QED
      BY <1>4, <2>1, <3>2
  <2>2. CASE i \in 1..n
    <3> HIDE DEF n, w
    <3>1. QED
      BY <1>2, <1>3, <1>4, <2>2
  <2>3. i = n + 1 \/ i \in 1..n
    BY <1>0
  <2> HIDE DEF n, w
  <2>4. QED
    BY <2>1, <2>2, <2>3
<1> HIDE DEF w, n
<1>6. w = v
  BY <1>3, <1>4, <1>5, SeqEqual
<1>7. QED
  BY <1>6 DEF u, v, w

LEMMA WholeWindow ==
  ASSUME NEW S, NEW s \in Seq(S)
  PROVE  SubSeq(s, 1, Len(s)) = s
<1> DEFINE n == Len(s)
           u == SubSeq(s, 1, n)
<1>1. n \in Nat
  BY LenProperties
<1>2. /\ u \in Seq(S) /\ Len(u) = n - 1 + 1
      /\ \A i \in 1..(n - 1 + 1) : u[i] = s[1 + i - 1]
  <2>1. 1 <= n + 1 /\ n <= Len(s) /\ 1 \in Nat
    BY <1>1
  <2> HIDE DEF n
  <2>2. QED
    BY <1>1, <2>1, WindowFacts
<1>3. n - 1 + 1 = n /\ \A i \in 1..n : 1 + i - 1 = i
  BY <1>1
<1> HIDE DEF u
<1>4. u = s
  BY <1>2, <1>3, SeqEqual
<1>5. QED
  BY <1>4 DEF u

(* Windows that hold the same.                                             *)
LEMMA SubSeqSame ==
  ASSUME NEW S, NEW s, NEW t, NEW a \in Int, NEW b \in Int,
         NEW c \in Int, NEW a2 \in Int, NEW b2 \in Int,
         a2 = c + a, b2 = c + b,
         \A i \in a..b : s[i] \in S /\ t[c + i] = s[i]
  PROVE  SubSeq(t, a2, b2) = SubSeq(s, a, b)
<1> DEFINE u == SubSeq(s, a, b)
           v == SubSeq(t, a2, b2)
           n == IF a <= b THEN b - a + 1 ELSE 0
<1>1. /\ u \in Seq(S) /\ Len(u) = n
      /\ \A i \in 1..n : u[i] = s[a + i - 1]
  BY SubSeqProperties
<1>2. \A j \in a2..b2 : t[j] \in S
  <2> SUFFICES ASSUME NEW j \in a2..b2 PROVE t[j] \in S
    OBVIOUS
  <2>1. j - c \in a..b /\ c + (j - c) = j
    OBVIOUS
  <2>2. QED
    BY <2>1
<1>3. /\ v \in Seq(S) /\ Len(v) = n
      /\ \A i \in 1..n : v[i] = t[a2 + i - 1]
  <2>1. n = IF a2 <= b2 THEN b2 - a2 + 1 ELSE 0
    OBVIOUS
  <2>2. QED
    BY <1>2, <2>1, SubSeqProperties
<1>4. ASSUME NEW i \in 1..n PROVE u[i] = v[i]
  <2>1. a + i - 1 \in a..b /\ c + (a + i - 1) = a2 + i - 1
    OBVIOUS
  <2> HIDE DEF u, v, n
  <2>2. QED
    BY <1>1, <1>3, <2>1
<1> HIDE DEF u, v, n
<1>5. u = v
  BY <1>1, <1>3, <1>4, SeqEqual
<1>6. QED
  BY <1>5 DEF u, v

-----------------------------------------------------------------------------
(* Sequences joined.                                                       *)

(* Where the lengths say where the joint is, both parts can be told.       *)
LEMMA ConcatSplit ==
  ASSUME NEW S, NEW a \in Seq(S), NEW b \in Seq(S),
         NEW c \in Seq(S), NEW d \in Seq(S),
         Len(a) = Len(c), a \o b = c \o d
  PROVE  a = c /\ b = d
<1> DEFINE n == Len(a)
           u == Len(b)
           v == Len(d)
           x == a \o b
           y == c \o d
<1>1. n \in Nat /\ u \in Nat /\ v \in Nat
  BY LenProperties
<1>2. /\ x \in Seq(S) /\ Len(x) = n + u
      /\ \A i \in 1..(n + u) : x[i] = IF i <= n THEN a[i] ELSE b[i - n]
  BY ConcatProperties
<1>3. /\ y \in Seq(S) /\ Len(y) = n + v
      /\ \A i \in 1..(n + v) : y[i] = IF i <= n THEN c[i] ELSE d[i - n]
  BY ConcatProperties
<1>4. x = y
  OBVIOUS
<1>5. Len(a) = n /\ Len(c) = n /\ Len(b) = u /\ Len(d) = v
  OBVIOUS
<1> HIDE DEF n, u, v, x, y
<1>6. u = v
  BY <1>1, <1>2, <1>3, <1>4
<1>7. \A i \in 1..n : a[i] = c[i]
  <2> TAKE i \in 1..n
  <2>1. i \in 1..(n + u) /\ i \in 1..(n + v) /\ i <= n
    BY <1>1
  <2>2. QED
    BY <1>2, <1>3, <1>4, <2>1
<1>8. \A i \in 1..u : b[i] = d[i]
  <2> TAKE i \in 1..u
  <2>1. n + i \in 1..(n + u) /\ ~(n + i <= n) /\ (n + i) - n = i
    BY <1>1
  <2>2. QED
    BY <1>2, <1>3, <1>4, <1>6, <2>1
<1>9. QED
  BY <1>5, <1>6, <1>7, <1>8, SeqEqual

FlattenStep(p, g, i) == IF i = 1 THEN p[i] ELSE g[i - 1] \o p[i]
Flattening == INSTANCE Recursion WITH Step <- FlattenStep

LEMMA FlattenIs ==
  ASSUME NEW seqs, NEW n \in Nat, n > 0, n = Len(seqs)
  PROVE  \E f : /\ FlattenSeq(seqs) = f[n]
                /\ f[1] = seqs[1]
                /\ \A i \in 2..n : f[i] = f[i - 1] \o seqs[i]
<1> DEFINE D == 1..n
           f == CHOOSE g : g = [i \in D |-> FlattenStep(seqs, g, i)]
<1>1. n \in Nat /\ n > 0 /\ n # 0
  OBVIOUS
<1>2. FlattenSeq(seqs) = f[n]
  BY <1>1 DEF FlattenSeq, FlattenStep
<1>3. Flattening!IsStrongRecursion(f, seqs, D)
  BY DEF Flattening!IsStrongRecursion
<1> HIDE DEF f
<1>4. D \in SUBSET Nat
  BY <1>1
<1>5. Flattening!LooksBelow(seqs, D)
  <2> SUFFICES ASSUME NEW i \in D, NEW g, NEW h,
                      \A j \in D : j < i => g[j] = h[j]
               PROVE  FlattenStep(seqs, g, i) = FlattenStep(seqs, h, i)
    BY DEF Flattening!LooksBelow
  <2>1. i # 1 => i - 1 \in D /\ i - 1 < i
    BY <1>1
  <2> HIDE DEF D
  <2>2. QED
    BY <2>1 DEF FlattenStep
<1>6. f = [i \in D |-> FlattenStep(seqs, f, i)]
  BY <1>3, <1>4, <1>5, Flattening!StrongRecursion
<1>7. \A i \in D : f[i] = FlattenStep(seqs, f, i)
  BY <1>6
<1>8. f[1] = seqs[1]
  <2>1. 1 \in D
    BY <1>1
  <2>2. QED
    BY <1>7, <2>1 DEF FlattenStep
<1>9. \A i \in 2..n : f[i] = f[i - 1] \o seqs[i]
  <2> SUFFICES ASSUME NEW i \in 2..n PROVE f[i] = f[i - 1] \o seqs[i]
    OBVIOUS
  <2>1. i \in D /\ i # 1
    BY <1>1
  <2>2. QED
    BY <1>7, <2>1 DEF FlattenStep
<1>10. QED
  BY <1>2, <1>8, <1>9

(* Blocks of one size w, joined.                                           *)
IsBlocks(blocks, S, n, w) ==
  /\ Len(blocks) = n /\ blocks \in [1..n -> Seq(S)]
  /\ \A i \in 1..n : Len(blocks[i]) = w

LEMMA FlattenNone ==
  ASSUME NEW S, NEW w, NEW blocks, IsBlocks(blocks, S, 0, w)
  PROVE  blocks = <<>> /\ FlattenSeq(blocks) = <<>>
<1>1. blocks = <<>>
  BY DEF IsBlocks
<1>2. Len(blocks) = 0
  BY DEF IsBlocks
<1>3. QED
  BY <1>1, <1>2 DEF FlattenSeq

(* The first k blocks, joined.                                             *)
Flattens(f, blocks, n) ==
  /\ FlattenSeq(blocks) = f[n]
  /\ f[1] = blocks[1]
  /\ \A i \in 2..n : f[i] = f[i - 1] \o blocks[i]

FlatSizes(f, S, n, w) ==
  \A k \in 1..n : f[k] \in Seq(S) /\ Len(f[k]) = k * w

LEMMA FlatLength ==
  ASSUME NEW S, NEW n \in Nat, NEW w \in Nat,
         NEW blocks, IsBlocks(blocks, S, n, w), NEW f, Flattens(f, blocks, n)
  PROVE  FlatSizes(f, S, n, w)
<1> DEFINE T == {k \in Nat : k + 1 <= n =>
                   f[k + 1] \in Seq(S) /\ Len(f[k + 1]) = (k + 1) * w}
<1>1. 0 \in T
  <2>1. 0 + 1 = 1 /\ 1 * w = w
    OBVIOUS
  <2>2. 1 <= n => blocks[1] \in Seq(S) /\ Len(blocks[1]) = w
    BY DEF IsBlocks
  <2>3. QED
    BY <2>1, <2>2 DEF Flattens
<1>2. ASSUME NEW j \in Nat, j \in T PROVE j + 1 \in T
  <2> DEFINE k == j + 1
  <2> SUFFICES ASSUME k + 1 <= n
               PROVE  f[k + 1] \in Seq(S) /\ Len(f[k + 1]) = (k + 1) * w
    OBVIOUS
  <2>1. k <= n /\ k + 1 \in 2..n /\ k + 1 \in 1..n /\ (k + 1) - 1 = k /\ k \in Nat
    OBVIOUS
  <2>2. f[k] \in Seq(S) /\ Len(f[k]) = k * w
    BY <1>2, <2>1
  <2> HIDE DEF k, T
  <2>3. f[k + 1] = f[k] \o blocks[k + 1]
    BY <2>1 DEF Flattens
  <2>4. blocks[k + 1] \in Seq(S) /\ Len(blocks[k + 1]) = w
    BY <2>1 DEF IsBlocks
  <2>5. /\ f[k] \o blocks[k + 1] \in Seq(S)
        /\ Len(f[k] \o blocks[k + 1]) = Len(f[k]) + Len(blocks[k + 1])
    BY <2>2, <2>4, ConcatProperties
  <2>6. (k + 1) * w = k * w + w
    BY <2>1, Multiples
  <2>7. QED
    BY <2>2, <2>3, <2>4, <2>5, <2>6
<1>3. Nat \subseteq T
  <2> HIDE DEF T
  <2> QED BY <1>1, <1>2, SetInduction
<1>4. QED
  <2> SUFFICES ASSUME NEW k \in 1..n
               PROVE  f[k] \in Seq(S) /\ Len(f[k]) = k * w
    BY DEF FlatSizes
  <2>1. k - 1 \in Nat /\ (k - 1) + 1 = k
    OBVIOUS
  <2>2. k - 1 \in T
    BY <1>3, <2>1
  <2>3. QED
    BY <2>1, <2>2

LEMMA FlattenLength ==
  ASSUME NEW S, NEW n \in Nat, NEW w \in Nat,
         NEW blocks, IsBlocks(blocks, S, n, w)
  PROVE  FlattenSeq(blocks) \in Seq(S) /\ Len(FlattenSeq(blocks)) = n * w
<1>1. CASE n = 0
  <2>1. IsBlocks(blocks, S, 0, w) /\ n * w = 0
    BY <1>1
  <2>2. QED
    BY <2>1, FlattenNone, EmptySeq
<1>2. CASE n # 0
  <2>1. n > 0 /\ n \in 1..n /\ n = Len(blocks)
    BY <1>2 DEF IsBlocks
  <2>2. PICK f : Flattens(f, blocks, n)
    BY <2>1, FlattenIs DEF Flattens
  <2>3. f[n] \in Seq(S) /\ Len(f[n]) = n * w
    <3>1. FlatSizes(f, S, n, w)
      BY <2>2, FlatLength
    <3>2. QED
      BY <2>1, <3>1 DEF FlatSizes
  <2>4. QED
    BY <2>2, <2>3 DEF Flattens
<1>3. QED
  BY <1>1, <1>2

(* Sequences of the same lengths can be told apart again.                  *)
SameShape(x, y, S, n) ==
  /\ Len(x) = n /\ Len(y) = n
  /\ x \in [1..n -> Seq(S)] /\ y \in [1..n -> Seq(S)]
  /\ \A i \in 1..n : Len(x[i]) = Len(y[i])

SameSizes(f, g, S, n) ==
  \A k \in 1..n : f[k] \in Seq(S) /\ g[k] \in Seq(S) /\ Len(f[k]) = Len(g[k])

LEMMA FlatShape ==
  ASSUME NEW S, NEW n \in Nat, NEW x, NEW y, SameShape(x, y, S, n),
         NEW f, Flattens(f, x, n), NEW g, Flattens(g, y, n)
  PROVE  SameSizes(f, g, S, n)
<1> DEFINE Same(k) == /\ f[k] \in Seq(S) /\ g[k] \in Seq(S)
                      /\ Len(f[k]) = Len(g[k])
           T == {k \in Nat : k + 1 <= n => Same(k + 1)}
<1>1. 0 \in T
  <2>1. 0 + 1 = 1 /\ (1 <= n => 1 \in 1..n)
    OBVIOUS
  <2>2. QED
    BY <2>1 DEF Flattens, SameShape
<1>2. ASSUME NEW j \in Nat, j \in T PROVE j + 1 \in T
  <2> DEFINE k == j + 1
  <2> SUFFICES ASSUME k + 1 <= n PROVE Same(k + 1)
    OBVIOUS
  <2>1. k <= n /\ k + 1 \in 2..n /\ k + 1 \in 1..n /\ (k + 1) - 1 = k /\ k \in Nat
    OBVIOUS
  <2>2. Same(k)
    BY <1>2, <2>1
  <2> HIDE DEF k, T
  <2>3. f[k + 1] = f[k] \o x[k + 1] /\ g[k + 1] = g[k] \o y[k + 1]
    BY <2>1 DEF Flattens
  <2>4. /\ x[k + 1] \in Seq(S) /\ y[k + 1] \in Seq(S)
        /\ Len(x[k + 1]) = Len(y[k + 1])
    BY <2>1 DEF SameShape
  <2>5. /\ f[k] \o x[k + 1] \in Seq(S)
        /\ Len(f[k] \o x[k + 1]) = Len(f[k]) + Len(x[k + 1])
    BY <2>2, <2>4, ConcatProperties
  <2>6. /\ g[k] \o y[k + 1] \in Seq(S)
        /\ Len(g[k] \o y[k + 1]) = Len(g[k]) + Len(y[k + 1])
    BY <2>2, <2>4, ConcatProperties
  <2>7. QED
    BY <2>2, <2>3, <2>4, <2>5, <2>6
<1>3. Nat \subseteq T
  <2> HIDE DEF T
  <2> QED BY <1>1, <1>2, SetInduction
<1>4. QED
  <2> SUFFICES ASSUME NEW k \in 1..n PROVE Same(k)
    BY DEF SameSizes
  <2>1. k - 1 \in Nat /\ (k - 1) + 1 = k
    OBVIOUS
  <2>2. k - 1 \in T
    BY <1>3, <2>1
  <2>3. QED
    BY <2>1, <2>2

LEMMA FlattenSeparates ==
  ASSUME NEW S, NEW n \in Nat, NEW x, NEW y, SameShape(x, y, S, n),
         FlattenSeq(x) = FlattenSeq(y)
  PROVE  x = y
<1>0. x \in [1..n -> Seq(S)] /\ y \in [1..n -> Seq(S)]
  BY DEF SameShape
<1>1. CASE n = 0
  BY <1>0, <1>1
<1>2. CASE n # 0
  <2>1. n > 0 /\ n = Len(x) /\ n = Len(y)
    BY <1>2 DEF SameShape
  <2>2. PICK f : Flattens(f, x, n)
    BY <2>1, FlattenIs DEF Flattens
  <2>3. PICK g : Flattens(g, y, n)
    BY <2>1, FlattenIs DEF Flattens
  <2>4. SameSizes(f, g, S, n)
    BY <2>2, <2>3, FlatShape
  <2> DEFINE Same(k) == \A i \in 1..k : x[i] = y[i]
             T == {j \in Nat : j + 1 <= n /\ f[j + 1] = g[j + 1] => Same(j + 1)}
  <2>5. 0 \in T
    <3>1. 0 + 1 = 1 /\ \A i \in 1..1 : i = 1
      OBVIOUS
    <3>2. f[1] = x[1] /\ g[1] = y[1]
      BY <2>2, <2>3 DEF Flattens
    <3>3. QED
      BY <3>1, <3>2
  <2>6. ASSUME NEW j \in Nat, j \in T PROVE j + 1 \in T
    <3> DEFINE k == j + 1
    <3> SUFFICES ASSUME k + 1 <= n, f[k + 1] = g[k + 1] PROVE Same(k + 1)
      OBVIOUS
    <3>1. /\ k <= n /\ k \in 1..n /\ k + 1 \in 2..n /\ k + 1 \in 1..n
          /\ (k + 1) - 1 = k /\ k \in Nat
      OBVIOUS
    <3>2. f[k] = g[k] => Same(k)
      BY <2>6, <3>1
    <3> HIDE DEF k, T
    <3> DEFINE a == f[k]
               b == x[k + 1]
               c == g[k]
               d == y[k + 1]
    <3>3. a \o b = c \o d
      BY <2>2, <2>3, <3>1 DEF Flattens
    <3>4. a \in Seq(S) /\ c \in Seq(S) /\ Len(a) = Len(c)
      BY <2>4, <3>1 DEF SameSizes
    <3>5. b \in Seq(S) /\ d \in Seq(S)
      BY <3>1 DEF SameShape
    <3>6. f[k] = g[k] /\ x[k + 1] = y[k + 1]
      <4> HIDE DEF a, b, c, d
      <4>1. a = c /\ b = d
        BY <3>3, <3>4, <3>5, ConcatSplit
      <4>2. QED
        BY <4>1 DEF a, b, c, d
    <3>7. \A i \in 1..(k + 1) : i \in 1..k \/ i = k + 1
      BY <3>1
    <3>8. QED
      BY <3>2, <3>6, <3>7
  <2>7. Nat \subseteq T
    <3> HIDE DEF T
    <3> QED BY <2>5, <2>6, SetInduction
  <2>8. Same(n)
    <3>1. n - 1 \in Nat /\ (n - 1) + 1 = n
      BY <2>1
    <3>2. n - 1 \in T
      BY <2>7, <3>1
    <3>3. f[n] = g[n]
      BY <2>2, <2>3 DEF Flattens
    <3>4. QED
      BY <3>1, <3>2, <3>3
  <2>9. QED
    BY <1>0, <2>8
<1>3. QED
  BY <1>1, <1>2

LEMMA FlatExists ==
  ASSUME NEW p, NEW n \in Nat, n > 0, Len(p) = n
  PROVE  \E f : Flattens(f, p, n)
BY FlattenIs DEF Flattens

(* Up to five of them.                                                     *)
JoinsTwo(a, b) == FlattenSeq(<<a, b>>) = a \o b

LEMMA FlattenTwo ==
  ASSUME NEW a, NEW b
  PROVE  JoinsTwo(a, b)
<1> DEFINE p == <<a, b>>
<1>1. Len(p) = 2 /\ p[1] = a /\ p[2] = b
  OBVIOUS
<1> HIDE DEF p
<1>2. 2 \in Nat /\ 2 > 0
      /\ 2 \in 2..2
      /\ 2 - 1 = 1
  OBVIOUS
<1>3. PICK f : Flattens(f, p, 2)
  BY <1>1, <1>2, FlatExists, Zenon
<1>4. f[2] = f[1] \o p[2]
  BY <1>2, <1>3, Zenon DEF Flattens
<1>5. QED
  BY <1>1, <1>3, <1>4, Zenon DEF Flattens, JoinsTwo, p

JoinsThree(a, b, c) == FlattenSeq(<<a, b, c>>) = a \o b \o c

LEMMA FlattenThree ==
  ASSUME NEW a, NEW b, NEW c
  PROVE  JoinsThree(a, b, c)
<1> DEFINE p == <<a, b, c>>
<1>1. Len(p) = 3 /\ p[1] = a /\ p[2] = b /\ p[3] = c
  OBVIOUS
<1> HIDE DEF p
<1>2. 3 \in Nat /\ 3 > 0
      /\ 2 \in 2..3 /\ 3 \in 2..3
      /\ 2 - 1 = 1 /\ 3 - 1 = 2
  OBVIOUS
<1>3. PICK f : Flattens(f, p, 3)
  BY <1>1, <1>2, FlatExists, Zenon
<1>4. /\ f[2] = f[1] \o p[2]
      /\ f[3] = f[2] \o p[3]
  BY <1>2, <1>3, Zenon DEF Flattens
<1>5. QED
  BY <1>1, <1>3, <1>4, Zenon DEF Flattens, JoinsThree, p

JoinsFour(a, b, c, d) == FlattenSeq(<<a, b, c, d>>) = a \o b \o c \o d

LEMMA FlattenFour ==
  ASSUME NEW a, NEW b, NEW c, NEW d
  PROVE  JoinsFour(a, b, c, d)
<1> DEFINE p == <<a, b, c, d>>
<1>1. Len(p) = 4 /\ p[1] = a /\ p[2] = b /\ p[3] = c /\ p[4] = d
  OBVIOUS
<1> HIDE DEF p
<1>2. 4 \in Nat /\ 4 > 0
      /\ 2 \in 2..4 /\ 3 \in 2..4 /\ 4 \in 2..4
      /\ 2 - 1 = 1 /\ 3 - 1 = 2 /\ 4 - 1 = 3
  OBVIOUS
<1>3. PICK f : Flattens(f, p, 4)
  BY <1>1, <1>2, FlatExists, Zenon
<1>4. /\ f[2] = f[1] \o p[2]
      /\ f[3] = f[2] \o p[3]
      /\ f[4] = f[3] \o p[4]
  BY <1>2, <1>3, Zenon DEF Flattens
<1>5. QED
  BY <1>1, <1>3, <1>4, Zenon DEF Flattens, JoinsFour, p

JoinsFive(a, b, c, d, e) == FlattenSeq(<<a, b, c, d, e>>) = a \o b \o c \o d \o e

LEMMA FlattenFive ==
  ASSUME NEW a, NEW b, NEW c, NEW d, NEW e
  PROVE  JoinsFive(a, b, c, d, e)
<1> DEFINE p == <<a, b, c, d, e>>
<1>1. Len(p) = 5 /\ p[1] = a /\ p[2] = b /\ p[3] = c /\ p[4] = d /\ p[5] = e
  OBVIOUS
<1> HIDE DEF p
<1>2. 5 \in Nat /\ 5 > 0
      /\ 2 \in 2..5 /\ 3 \in 2..5 /\ 4 \in 2..5 /\ 5 \in 2..5
      /\ 2 - 1 = 1 /\ 3 - 1 = 2 /\ 4 - 1 = 3 /\ 5 - 1 = 4
  OBVIOUS
<1>3. PICK f : Flattens(f, p, 5)
  BY <1>1, <1>2, FlatExists, Zenon
<1>4. /\ f[2] = f[1] \o p[2]
      /\ f[3] = f[2] \o p[3]
      /\ f[4] = f[3] \o p[4]
      /\ f[5] = f[4] \o p[5]
  BY <1>2, <1>3, Zenon DEF Flattens
<1>5. QED
  BY <1>1, <1>3, <1>4, Zenon DEF Flattens, JoinsFive, p

(* u is as long as said and starts with a and then b.                      *)
StartsWith(u, a, b, len) ==
  /\ u \in Seq(Nat) /\ Len(u) = len
  /\ \A i \in 1..Len(a) : u[i] = a[i]
  /\ \A i \in 1..Len(b) : u[Len(a) + i] = b[i]

LEMMA StartsJoin ==
  ASSUME NEW s \in Seq(Nat), NEW x \in Seq(Nat), NEW u, u = s \o x
  PROVE  StartsWith(u, s, x, Len(s) + Len(x))
<1> DEFINE n == Len(s)
           k == Len(x)
           z == s \o x
<1>1. n \in Nat /\ k \in Nat
  BY LenProperties
<1>2. /\ z \in Seq(Nat) /\ Len(z) = n + k
      /\ \A i \in 1..(n + k) : z[i] = IF i <= n THEN s[i] ELSE x[i - n]
  BY ConcatProperties
<1> HIDE DEF n, k, z
<1>3. \A i \in 1..n : z[i] = s[i]
  <2> TAKE i \in 1..n
  <2>1. i \in 1..(n + k) /\ i <= n
    BY <1>1
  <2>2. QED
    BY <1>2, <2>1
<1>4. \A i \in 1..k : z[n + i] = x[i]
  <2> TAKE i \in 1..k
  <2>1. n + i \in 1..(n + k) /\ ~(n + i <= n) /\ (n + i) - n = i
    BY <1>1
  <2>2. QED
    BY <1>2, <2>1
<1>5. QED
  BY <1>2, <1>3, <1>4 DEF StartsWith, n, k, z

LEMMA StartsLonger ==
  ASSUME NEW a \in Seq(Nat), NEW b \in Seq(Nat), NEW s, NEW x \in Seq(Nat),
         NEW u, u = s \o x, NEW len \in Nat, len >= Len(a) + Len(b),
         StartsWith(s, a, b, len)
  PROVE  StartsWith(u, a, b, len + Len(x))
<1> DEFINE n == Len(a)
           k == Len(b)
<1>1. n \in Nat /\ k \in Nat /\ s \in Seq(Nat) /\ Len(s) = len /\ len >= n + k
  BY LenProperties DEF StartsWith
<1>2. /\ u \in Seq(Nat) /\ Len(u) = len + Len(x)
      /\ \A i \in 1..len : u[i] = s[i]
  <2>1. StartsWith(u, s, x, len + Len(x))
    BY <1>1, StartsJoin, Zenon
  <2>2. QED
    BY <1>1, <2>1 DEF StartsWith
<1>3. (\A i \in 1..n : s[i] = a[i]) /\ (\A i \in 1..k : s[n + i] = b[i])
  BY DEF StartsWith
<1> HIDE DEF n, k
<1>4. (\A i \in 1..n : i \in 1..len) /\ (\A i \in 1..k : n + i \in 1..len)
  BY <1>1
<1>5. (\A i \in 1..n : u[i] = a[i]) /\ (\A i \in 1..k : u[n + i] = b[i])
  BY <1>2, <1>3, <1>4
<1>6. QED
  BY <1>2, <1>5, Zenon DEF StartsWith, n, k

LEMMA JoinsStart ==
  ASSUME NEW a \in Seq(Nat), NEW b \in Seq(Nat), NEW c \in Seq(Nat),
         NEW d \in Seq(Nat), NEW e \in Seq(Nat)
  PROVE  /\ StartsWith(FlattenSeq(<<a, b>>), a, b, Len(a) + Len(b))
         /\ StartsWith(FlattenSeq(<<a, b, c>>), a, b, Len(a) + Len(b) + Len(c))
         /\ StartsWith(FlattenSeq(<<a, b, c, d>>), a, b,
                       Len(a) + Len(b) + Len(c) + Len(d))
         /\ StartsWith(FlattenSeq(<<a, b, c, d, e>>), a, b,
                       Len(a) + Len(b) + Len(c) + Len(d) + Len(e))
<1> DEFINE ab == a \o b
           abc == ab \o c
           abcd == abc \o d
           abcde == abcd \o e
           n2 == Len(a) + Len(b)
           n3 == n2 + Len(c)
           n4 == n3 + Len(d)
           n5 == n4 + Len(e)
<1>1. /\ FlattenSeq(<<a, b>>) = ab /\ FlattenSeq(<<a, b, c>>) = abc
      /\ FlattenSeq(<<a, b, c, d>>) = abcd
      /\ FlattenSeq(<<a, b, c, d, e>>) = abcde
  <2>1. /\ JoinsTwo(a, b) /\ JoinsThree(a, b, c)
        /\ JoinsFour(a, b, c, d) /\ JoinsFive(a, b, c, d, e)
    BY FlattenTwo, FlattenThree, FlattenFour, FlattenFive
  <2>2. QED
    BY <2>1, Zenon DEF JoinsTwo, JoinsThree, JoinsFour, JoinsFive
<1>2. /\ Len(a) \in Nat /\ Len(b) \in Nat /\ Len(c) \in Nat /\ Len(d) \in Nat
      /\ Len(e) \in Nat
  BY LenProperties
<1>3. /\ n2 \in Nat /\ n3 \in Nat /\ n4 \in Nat
      /\ n2 >= Len(a) + Len(b) /\ n3 >= Len(a) + Len(b) /\ n4 >= Len(a) + Len(b)
      /\ n2 = Len(a) + Len(b) /\ n3 = n2 + Len(c) /\ n4 = n3 + Len(d)
      /\ n5 = n4 + Len(e)
  BY <1>2
<1>4. ab = a \o b /\ abc = ab \o c /\ abcd = abc \o d /\ abcde = abcd \o e
  OBVIOUS
<1> HIDE DEF ab, abc, abcd, abcde, n2, n3, n4, n5
<1>5. StartsWith(ab, a, b, n2)
  BY <1>3, <1>4, StartsJoin, Zenon
<1>6. StartsWith(abc, a, b, n3)
  BY <1>3, <1>4, <1>5, StartsLonger, Zenon
<1>7. StartsWith(abcd, a, b, n4)
  BY <1>3, <1>4, <1>6, StartsLonger, Zenon
<1>8. StartsWith(abcde, a, b, n5)
  <2>1. abcde = abcd \o e /\ n5 = n4 + Len(e)
    BY <1>3, <1>4
  <2>2. n4 \in Nat /\ n4 >= Len(a) + Len(b)
    BY <1>3
  <2>3. QED
    BY <2>1, <2>2, <1>7, StartsLonger, Zenon
<1>9. QED
  BY <1>1, <1>5, <1>6, <1>7, <1>8, Zenon DEF n2, n3, n4, n5
=============================================================================
