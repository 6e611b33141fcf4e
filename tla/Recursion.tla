----------------------------- MODULE Recursion -----------------------------
(***************************************************************************)
(* Induction over the naturals, and with it what a recursive function on   *)
(* 0..n and a fold over a sequence compute, for a step written as an       *)
(* operator.  A module that defines a computation in this way instantiates *)
(* Step with it and cites the theorems below.                              *)
(***************************************************************************)
EXTENDS SequencesExt, WellFoundedInduction, TLAPS

CONSTANT Step(_, _, _)   \* of a parameter, the value so far and an element

-----------------------------------------------------------------------------
(* Induction over the naturals, for a set instead of a predicate.          *)

Below == {p \in Nat \X Nat : p[1] < p[2]}

LEMMA BelowWellFounded == IsWellFoundedOn(Below, Nat)
BY NatLessThanWellFounded DEF Below, OpToRel

(* A set that holds 0 and the successor of each of its numbers holds all.  *)
LEMMA SetInduction ==
  ASSUME NEW T, 0 \in T, \A n \in Nat : n \in T => n + 1 \in T
  PROVE  Nat \subseteq T
<1> DEFINE Out == Nat \ T
<1> SUFFICES ASSUME Out # {} PROVE FALSE
  OBVIOUS
<1>1. PICK x \in Out : \A y \in Out : <<y, x>> \notin Below
  <2>1. Out \subseteq Nat
    OBVIOUS
  <2> HIDE DEF Out
  <2>2. QED
    BY <2>1, BelowWellFounded, WFMin
<1>2. x # 0 /\ x - 1 \in Nat /\ x - 1 < x
  OBVIOUS
<1>3. x - 1 \in T
  BY <1>1, <1>2 DEF Below
<1>4. QED
  BY <1>2, <1>3

(* The same, with all smaller numbers as the hypothesis.                   *)
LEMMA StrongSetInduction ==
  ASSUME NEW T, \A n \in Nat : (0..(n - 1)) \subseteq T => n \in T
  PROVE  Nat \subseteq T
<1> DEFINE U == {n \in Nat : (0..(n - 1)) \subseteq T}
<1>1. 0 \in U
  OBVIOUS
<1>2. \A n \in Nat : n \in U => n + 1 \in U
  <2> TAKE n \in Nat
  <2> HAVE n \in U
  <2>1. n \in T
    OBVIOUS
  <2>2. \A i \in 0..n : i \in T
    BY <2>1
  <2>3. QED
    BY <2>2
<1>3. Nat \subseteq U
  <2> HIDE DEF U
  <2> QED BY <1>1, <1>2, SetInduction
<1>4. QED
  BY <1>3

-----------------------------------------------------------------------------
(* Runs of steps.                                                          *)
(* The values that n steps pass through: the k-th takes element xs[k].     *)
IsRun(t, p, base, xs, n) ==
  /\ t = [k \in 0..n |-> t[k]]
  /\ t[0] = base
  /\ \A k \in 1..n : t[k] = Step(p, t[k - 1], xs[k])

(* Any number of steps can be made.                                        *)
LEMMA RunExists ==
  ASSUME NEW p, NEW base, NEW xs
  PROVE  \A n \in Nat : \E t : IsRun(t, p, base, xs, n)
<1> DEFINE T == {n \in Nat : \E t : IsRun(t, p, base, xs, n)}
<1>1. 0 \in T
  <2>1. IsRun([k \in 0..0 |-> base], p, base, xs, 0)
    BY DEF IsRun
  <2>2. QED
    BY <2>1
<1>2. \A n \in Nat : n \in T => n + 1 \in T
  <2> TAKE n \in Nat
  <2> HAVE n \in T
  <2>1. PICK t : IsRun(t, p, base, xs, n)
    OBVIOUS
  <2> DEFINE u == [k \in 0..(n + 1) |->
                     IF k = n + 1 THEN Step(p, t[n], xs[n + 1]) ELSE t[k]]
  <2>2. u = [k \in 0..(n + 1) |-> u[k]] /\ u[0] = base
    BY <2>1 DEF IsRun
  <2>3. \A k \in 0..n : u[k] = t[k]
    OBVIOUS
  <2>4. u[n + 1] = Step(p, t[n], xs[n + 1])
    OBVIOUS
  <2>5. ASSUME NEW k \in 1..(n + 1) PROVE u[k] = Step(p, u[k - 1], xs[k])
    <3>1. CASE k = n + 1
      <4>1. u[n] = t[n]
        BY <2>3
      <4>2. k - 1 = n
        BY <3>1
      <4>3. QED
        BY <2>4, <3>1, <4>1, <4>2
    <3>2. CASE k \in 1..n
      <4>1. k - 1 \in 0..n /\ k \in 0..n
        BY <3>2
      <4>2. u[k] = t[k] /\ u[k - 1] = t[k - 1]
        BY <2>3, <4>1
      <4>3. QED
        BY <2>1, <3>2, <4>2 DEF IsRun
    <3>3. QED
      BY <3>1, <3>2
  <2>6. IsRun(u, p, base, xs, n + 1)
    <3> HIDE DEF u
    <3> QED BY <2>2, <2>5 DEF IsRun
  <2>7. QED
    <3> HIDE DEF u
    <3> QED BY <2>6
<1>3. QED
  <2> HIDE DEF T
  <2>1. Nat \subseteq T
    BY <1>1, <1>2, SetInduction
  <2>2. QED
    BY <2>1 DEF T

-----------------------------------------------------------------------------
(* A recursive function on 0..n takes its argument as the element.         *)
IsRecursion(f, p, base, n) ==
  f = CHOOSE g : g = [k \in 0..n |-> IF k = 0 THEN base
                                     ELSE Step(p, g[k - 1], k)]

THEOREM RecursionRuns ==
  ASSUME NEW p, NEW base, NEW n \in Nat, NEW f, IsRecursion(f, p, base, n)
  PROVE  /\ f[0] = base
         /\ \A k \in 1..n : f[k] = Step(p, f[k - 1], k)
<1> DEFINE Eq(g) == g = [k \in 0..n |-> IF k = 0 THEN base
                                        ELSE Step(p, g[k - 1], k)]
           xs == [k \in 1..n |-> k]
<1>1. PICK t : IsRun(t, p, base, xs, n)
  BY RunExists
<1>2. ASSUME NEW k \in 0..n
      PROVE  t[k] = IF k = 0 THEN base ELSE Step(p, t[k - 1], k)
  <2>1. CASE k = 0
    BY <1>1, <2>1 DEF IsRun
  <2>2. CASE k \in 1..n
    <3>1. xs[k] = k
      BY <2>2
    <3>2. QED
      BY <1>1, <2>2, <3>1 DEF IsRun
  <2>3. QED
    BY <2>1, <2>2
<1>3. Eq(t)
  <2>1. t = [k \in 0..n |-> t[k]]
    BY <1>1 DEF IsRun
  <2>2. [k \in 0..n |-> t[k]] = [k \in 0..n |-> IF k = 0 THEN base
                                               ELSE Step(p, t[k - 1], k)]
    BY <1>2
  <2>3. QED
    BY <2>1, <2>2
<1>4. f = CHOOSE g : Eq(g)
  BY DEF IsRecursion
<1>5. Eq(f)
  <2> HIDE DEF Eq
  <2> QED BY <1>3, <1>4
<1>6. QED
  BY <1>5

-----------------------------------------------------------------------------
(* FoldLeft over xs, written out: a function on the sets of indices, here  *)
(* for the indices 1..n.                                                   *)
FoldStep(iter, p, base, xs, s) ==
  IF s = {} THEN base ELSE Step(p, iter[s \ {Max(s)}], xs[Max(s)])

FoldTable(iter, p, base, xs, D) ==
  iter = [s \in SUBSET D |-> FoldStep(iter, p, base, xs, s)]

IsFold(v, p, base, xs) ==
  v = LET iter == CHOOSE iter : FoldTable(iter, p, base, xs, DOMAIN xs)
      IN  iter[DOMAIN xs]

LEMMA MaxIsLast ==
  ASSUME NEW n \in Nat, NEW s \in SUBSET (1..n), n \in s
  PROVE  Max(s) = n
<1>1. n \in s /\ \A y \in s : n >= y
  OBVIOUS
<1>2. Max(s) \in s /\ \A y \in s : Max(s) >= y
  BY <1>1 DEF Max
<1>3. Max(s) \in 1..n
  BY <1>2
<1>4. QED
  BY <1>1, <1>2, <1>3

LEMMA FoldTableExists ==
  ASSUME NEW p, NEW base, NEW xs
  PROVE  \A n \in Nat : \E iter : FoldTable(iter, p, base, xs, 1..n)
<1> DEFINE T == {n \in Nat : \E iter : FoldTable(iter, p, base, xs, 1..n)}
<1>1. 0 \in T
  <2> DEFINE g == [s \in SUBSET (1..0) |-> base]
  <2>1. g = [s \in SUBSET (1..0) |-> FoldStep(g, p, base, xs, s)]
    <3>1. \A s \in SUBSET (1..0) : FoldStep(g, p, base, xs, s) = base
      BY DEF FoldStep
    <3>2. QED
      BY <3>1
  <2>2. QED
    <3> HIDE DEF g
    <3> QED BY <2>1 DEF FoldTable
<1>2. \A n \in Nat : n \in T => n + 1 \in T
  <2> TAKE n \in Nat
  <2> HAVE n \in T
  <2>1. PICK g : FoldTable(g, p, base, xs, 1..n)
    OBVIOUS
  <2> DEFINE m == n + 1
             h == [s \in SUBSET (1..m) |->
                     IF m \in s THEN Step(p, g[s \ {m}], xs[m]) ELSE g[s]]
  <2>2. \A s \in SUBSET (1..m) : m \notin s => s \in SUBSET (1..n)
    OBVIOUS
  <2>3. ASSUME NEW s \in SUBSET (1..m), m \notin s PROVE h[s] = g[s]
    BY <2>3
  <2>4. ASSUME NEW s \in SUBSET (1..m)
        PROVE  h[s] = FoldStep(h, p, base, xs, s)
    <3>1. CASE m \in s
      <4>1. Max(s) = m
        BY <3>1, MaxIsLast
      <4>2. h[s \ {m}] = g[s \ {m}]
        BY <2>3
      <4>3. h[s] = Step(p, g[s \ {m}], xs[m])
        BY <3>1
      <4> HIDE DEF h, m
      <4>4. QED
        BY <3>1, <4>1, <4>2, <4>3 DEF FoldStep
    <3>2. CASE m \notin s
      <4>1. s \in SUBSET (1..n) /\ s \ {Max(s)} \in SUBSET (1..m)
        BY <2>2, <3>2
      <4>2. h[s] = g[s] /\ h[s \ {Max(s)}] = g[s \ {Max(s)}]
        BY <2>3, <3>2, <4>1
      <4> HIDE DEF h, m
      <4>3. g[s] = FoldStep(g, p, base, xs, s)
        BY <2>1, <4>1 DEF FoldTable
      <4>4. QED
        BY <4>2, <4>3 DEF FoldStep
    <3>3. QED
      BY <3>1, <3>2
  <2>5. FoldTable(h, p, base, xs, 1..m)
    <3>1. h = [s \in SUBSET (1..m) |-> h[s]]
      OBVIOUS
    <3> HIDE DEF h, m
    <3>2. [s \in SUBSET (1..m) |-> h[s]]
            = [s \in SUBSET (1..m) |-> FoldStep(h, p, base, xs, s)]
      BY <2>4
    <3>3. QED
      BY <3>1, <3>2 DEF FoldTable
  <2>6. QED
    <3> HIDE DEF h
    <3> QED BY <2>5
<1>3. QED
  <2> HIDE DEF T
  <2>1. Nat \subseteq T
    BY <1>1, <1>2, SetInduction
  <2>2. QED
    BY <2>1 DEF T

THEOREM FoldRuns ==
  ASSUME NEW p, NEW base, NEW n \in Nat, NEW xs, DOMAIN xs = 1..n,
         NEW v, IsFold(v, p, base, xs)
  PROVE  \E t : IsRun(t, p, base, xs, n) /\ v = t[n]
<1> DEFINE iter == CHOOSE iter : FoldTable(iter, p, base, xs, 1..n)
           t == [k \in 0..n |-> iter[1..k]]
<1>1. FoldTable(iter, p, base, xs, 1..n)
  BY FoldTableExists
<1>2. v = iter[1..n]
  BY DEF IsFold
<1> HIDE DEF iter
<1>3. \A k \in 0..n : iter[1..k] = FoldStep(iter, p, base, xs, 1..k)
  <2> TAKE k \in 0..n
  <2>1. 1..k \in SUBSET (1..n)
    OBVIOUS
  <2>2. QED
    BY <1>1, <2>1 DEF FoldTable
<1>4. t[0] = base
  <2>1. 1..0 = {}
    OBVIOUS
  <2>2. FoldStep(iter, p, base, xs, 1..0) = base
    BY <2>1 DEF FoldStep
  <2>3. iter[1..0] = FoldStep(iter, p, base, xs, 1..0)
    BY <1>3
  <2>4. QED
    BY <2>2, <2>3
<1>5. ASSUME NEW k \in 1..n PROVE t[k] = Step(p, t[k - 1], xs[k])
  <2>1. Max(1..k) = k
    BY MaxIsLast
  <2>2. (1..k) \ {k} = 1..(k - 1) /\ 1..k # {}
    OBVIOUS
  <2>3. FoldStep(iter, p, base, xs, 1..k) = Step(p, iter[1..(k - 1)], xs[k])
    BY <2>1, <2>2 DEF FoldStep
  <2>4. iter[1..k] = FoldStep(iter, p, base, xs, 1..k)
    BY <1>3
  <2>5. QED
    BY <2>3, <2>4
<1>6. IsRun(t, p, base, xs, n)
  <2>1. t = [k \in 0..n |-> t[k]]
    OBVIOUS
  <2> HIDE DEF t
  <2>2. QED
    BY <1>4, <1>5, <2>1 DEF IsRun
<1>7. v = t[n]
  BY <1>2
<1>8. QED
  <2> HIDE DEF t
  <2> QED BY <1>6, <1>7

-----------------------------------------------------------------------------
(* A recursive function on a set D of numbers whose value at n is made of  *)
(* its values below n.                                                     *)
IsStrongRecursion(f, p, D) == f = CHOOSE g : g = [n \in D |-> Step(p, g, n)]

LooksBelow(p, D) ==
  \A n \in D : \A g, h :
    (\A i \in D : i < n => g[i] = h[i]) => Step(p, g, n) = Step(p, h, n)

(* The part of such a function below n.                                    *)
UpTo(D, n) == {i \in D : i < n}
IsPart(t, p, D, n) == t = [i \in UpTo(D, n) |-> Step(p, t, i)]

LEMMA PartExists ==
  ASSUME NEW p, NEW D \in SUBSET Nat, LooksBelow(p, D)
  PROVE  \A n \in Nat : \E t : IsPart(t, p, D, n)
<1> DEFINE T == {n \in Nat : \E t : IsPart(t, p, D, n)}
<1>1. 0 \in T
  <2>1. UpTo(D, 0) = {}
    <3>1. \A i \in D : i \in Nat /\ ~(i < 0)
      OBVIOUS
    <3>2. QED
      BY <3>1 DEF UpTo
  <2> DEFINE t == [i \in UpTo(D, 0) |-> 0]
  <2>2. IsPart(t, p, D, 0)
    BY <2>1 DEF IsPart
  <2>3. QED
    <3> HIDE DEF t
    <3> QED BY <2>2
<1>2. \A n \in Nat : n \in T => n + 1 \in T
  <2> TAKE n \in Nat
  <2> HAVE n \in T
  <2>1. PICK t : IsPart(t, p, D, n)
    OBVIOUS
  <2> DEFINE u == [i \in UpTo(D, n + 1) |-> Step(p, t, i)]
  <2>2. ASSUME NEW i \in UpTo(D, n) PROVE u[i] = t[i]
    <3>1. i \in UpTo(D, n + 1)
      BY DEF UpTo
    <3>2. t[i] = Step(p, t, i)
      BY <2>1 DEF IsPart
    <3>3. QED
      BY <3>1, <3>2
  <2>3. ASSUME NEW i \in UpTo(D, n + 1) PROVE Step(p, t, i) = Step(p, u, i)
    <3>1. \A j \in D : j < i => u[j] = t[j]
      <4> SUFFICES ASSUME NEW j \in D, j < i PROVE u[j] = t[j]
        OBVIOUS
      <4>1. j \in UpTo(D, n)
        BY DEF UpTo
      <4> HIDE DEF u
      <4>2. QED
        BY <2>2, <4>1
    <3>2. i \in D
      BY DEF UpTo
    <3> HIDE DEF u
    <3>3. QED
      BY <3>1, <3>2 DEF LooksBelow
  <2>4. u = [i \in UpTo(D, n + 1) |-> Step(p, u, i)]
    <3>1. u = [i \in UpTo(D, n + 1) |-> Step(p, t, i)]
      OBVIOUS
    <3> HIDE DEF u
    <3>2. QED
      BY <2>3, <3>1
  <2>5. QED
    <3> HIDE DEF u
    <3> QED BY <2>4 DEF IsPart
<1>3. QED
  <2> HIDE DEF T
  <2>1. Nat \subseteq T
    BY <1>1, <1>2, SetInduction
  <2>2. QED
    BY <2>1 DEF T

LEMMA PartsAgree ==
  ASSUME NEW p, NEW D \in SUBSET Nat, LooksBelow(p, D),
         NEW n \in Nat, NEW m \in Nat, NEW t, NEW u,
         IsPart(t, p, D, n), IsPart(u, p, D, m)
  PROVE  \A i \in D : i < n /\ i < m => t[i] = u[i]
<1> DEFINE T == {i \in Nat : i \in D /\ i < n /\ i < m => t[i] = u[i]}
<1>1. ASSUME NEW i \in Nat, (0..(i - 1)) \subseteq T PROVE i \in T
  <2> SUFFICES ASSUME i \in D, i < n, i < m PROVE t[i] = u[i]
    OBVIOUS
  <2>1. t[i] = Step(p, t, i) /\ u[i] = Step(p, u, i)
    BY DEF IsPart, UpTo
  <2>2. \A j \in D : j < i => t[j] = u[j]
    <3> SUFFICES ASSUME NEW j \in D, j < i PROVE t[j] = u[j]
      OBVIOUS
    <3>1. j \in T
      BY <1>1
    <3>2. QED
      BY <3>1
  <2>3. QED
    BY <2>1, <2>2 DEF LooksBelow
<1>2. Nat \subseteq T
  <2> HIDE DEF T
  <2> QED BY <1>1, StrongSetInduction
<1>3. QED
  BY <1>2

THEOREM StrongRecursion ==
  ASSUME NEW p, NEW D \in SUBSET Nat, LooksBelow(p, D),
         NEW f, IsStrongRecursion(f, p, D)
  PROVE  f = [n \in D |-> Step(p, f, n)]
<1> DEFINE part(n) == CHOOSE t : IsPart(t, p, D, n)
           F == [n \in D |-> part(n + 1)[n]]
<1>1. \A n \in Nat : IsPart(part(n), p, D, n)
  BY PartExists
<1> HIDE DEF part
<1>2. ASSUME NEW n \in D PROVE F[n] = Step(p, F, n)
  <2>1. n \in UpTo(D, n + 1) /\ n + 1 \in Nat
    BY DEF UpTo
  <2>2. part(n + 1)[n] = Step(p, part(n + 1), n)
    BY <1>1, <2>1 DEF IsPart
  <2>3. \A j \in D : j < n => part(n + 1)[j] = F[j]
    <3> SUFFICES ASSUME NEW j \in D, j < n PROVE part(n + 1)[j] = F[j]
      OBVIOUS
    <3>1. part(n + 1)[j] = part(j + 1)[j]
      <4>1. n + 1 \in Nat /\ j + 1 \in Nat /\ j < n + 1 /\ j < j + 1
        OBVIOUS
      <4>2. QED
        BY <1>1, <4>1, PartsAgree
    <3>2. QED
      BY <3>1
  <2>4. Step(p, part(n + 1), n) = Step(p, F, n)
    <3> HIDE DEF F
    <3> QED BY <2>3 DEF LooksBelow
  <2>5. QED
    BY <2>2, <2>4
<1>3. F = [n \in D |-> F[n]]
  OBVIOUS
<1> HIDE DEF F
<1>4. F = [n \in D |-> Step(p, F, n)]
  BY <1>2, <1>3
<1>5. QED
  BY <1>4 DEF IsStrongRecursion
=============================================================================
