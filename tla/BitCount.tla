------------------------------ MODULE BitCount ------------------------------
(***************************************************************************)
(* Powers of two, the number of one bits of a natural number, and the      *)
(* division that rounds up.                                                *)
(***************************************************************************)
EXTENDS Naturals, FiniteSetsExt

CeilDiv(a, b) == (a + b - 1) \div b

Pow2[k \in Nat] == IF k = 0 THEN 1 ELSE 2 * Pow2[k - 1]

(* The largest power of two below n: the size of the left subtree of a     *)
(* tree with n > 1 leaves.                                                 *)
LeftSize(n) == Max({Pow2[k] : k \in {j \in 0..n : Pow2[j] < n}})

Ones[n \in Nat] == IF n = 0 THEN 0 ELSE (n % 2) + Ones[n \div 2]
=============================================================================
