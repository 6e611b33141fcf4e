----------------------------- MODULE MCDispatch -----------------------------
(***************************************************************************)
(* Instances of Dispatch for TLC: an x86-64 build, whose init function     *)
(* registers four SIMD functions in this order (src/CMakeLists.txt adds    *)
(* all four sources together), on a CPU with AVX2 and without AVX-512.     *)
(* One thread may call set_impl as well; the others only hash.             *)
(***************************************************************************)
EXTENDS Dispatch, TLC

CONSTANT Setter

ThreadSymmetry == Permutations(Threads)
LinkedX86 == <<"avx512", "avx512_asm", "avx2", "avx2_asm">>

(* The calls of the thread that forces implementations, and of the others. *)
SetterNext ==
  \/ \E t \in Threads : CallDispatch(t) \/ CallFeatures(t) \/ Step(t)
  \/ \E selection \in Selections : CallSetImpl(Setter, selection)

OneSetterSpec == Init /\ [][SetterNext]_vars
=============================================================================
