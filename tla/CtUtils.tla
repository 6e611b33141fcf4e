------------------------------ MODULE CtUtils ------------------------------
(***************************************************************************)
(* The constant-time utilities (src/blake4_ct.c).  A call of a function on *)
(* memory visits its bytes one per step; a function on words does its work *)
(* in one step.  The words are Bits wide, so that all pairs can be tried.  *)
(***************************************************************************)
EXTENDS Integers, Sequences, BitCount

CONSTANTS
  Bits,        \* width of a uint64_t: a power of two, 64 in the code
  ByteValues,  \* bytes in callers' memory, in 0..255
  MaxBytes     \* bound: bytes of memory passed

VARIABLES
  call,   \* the arguments [fn, a, b, condition]
  i,      \* the loop index of a function on memory
  diff,   \* memcmp's accumulator
  mem,    \* the destination of memzero and memcpy_if
  ret     \* what the call returned, or Pending

utilityVars == <<call, i, diff, mem, ret>>

ASSUME WidthAssumption == \E k \in 0..Bits : Bits = Pow2[k]
ASSUME BytesAssumption == ByteValues \subseteq 0..255 /\ MaxBytes \in Nat

Pending == -1
Void    == 0

WordValues == 0..(Pow2[Bits] - 1)
MemoryFns  == {"memcmp", "memzero", "memcpy_if"}

(* memcpy_if takes an int: 256 has no bit in the byte it selects.          *)
MemoryCalls ==
  UNION {[fn : MemoryFns, a : [1..n -> ByteValues], b : [1..n -> ByteValues],
          condition : {0, 1, 256}] : n \in 0..MaxBytes}
WordCalls ==
  [fn : {"eq64", "lt64", "select64"}, a : WordValues, b : WordValues,
   condition : {0, 1, Pow2[Bits - 1]}]
    \cup [fn : {"select8"}, a : ByteValues, b : ByteValues,
          condition : ByteValues]

UtilityStart(c) ==
  /\ call = c
  /\ i = 0 /\ diff = 0
  /\ mem = IF c.fn \in MemoryFns THEN c.a ELSE <<>>
  /\ ret = Pending

UtilityInit == \E c \in MemoryCalls \cup WordCalls : UtilityStart(c)

-----------------------------------------------------------------------------
(* &, | and ^ on unsigned words.  The sum of two words counts the ones they *)
(* share twice, | counts them once and ^ not at all.                       *)
AndBits[x \in Nat] ==
  [y \in Nat |->
     IF x = 0 THEN 0
     ELSE 2 * AndBits[x \div 2][y \div 2]
            + (IF x % 2 = 1 /\ y % 2 = 1 THEN 1 ELSE 0)]

BitAnd(x, y) == AndBits[x][y]
BitOr(x, y)  == x + y - BitAnd(x, y)
BitXor(x, y) == x + y - 2 * BitAnd(x, y)

Complement(x, width) == Pow2[width] - 1 - x

(* Faulty variant: the condition itself is negated, not the fact that it   *)
(* is not zero.                                                            *)
MaskOfValue(condition, width) == (-condition) % Pow2[width]

(* -(condition != 0), converted to an unsigned type.                       *)
Mask(condition, width) == IF condition # 0 THEN (-1) % Pow2[width] ELSE 0

Select(mask, a, b, width) ==
  BitOr(BitAnd(a, Complement(mask, width)), BitAnd(b, mask))

(* Bit 0 of diff | (diff >> 1) | ... | (diff >> 7).                        *)
AnyBit(x) == IF \E n \in 0..7 : (x \div Pow2[n]) % 2 = 1 THEN 1 ELSE 0

Going == ret = Pending /\ call.fn \in MemoryFns /\ i < Len(call.a)

MemcmpByte ==
  /\ Going /\ call.fn = "memcmp"
  /\ diff' = BitOr(diff, BitXor(call.a[i + 1], call.b[i + 1]))
  /\ i' = i + 1
  /\ UNCHANGED <<call, mem, ret>>

MemzeroByte ==
  /\ Going /\ call.fn = "memzero"
  /\ mem' = [mem EXCEPT ![i + 1] = 0]
  /\ i' = i + 1
  /\ UNCHANGED <<call, diff, ret>>

MemcpyIfByte ==
  /\ Going /\ call.fn = "memcpy_if"
  /\ mem' = [mem EXCEPT
       ![i + 1] = Select(Mask(call.condition, 8), @, call.b[i + 1], 8)]
  /\ i' = i + 1
  /\ UNCHANGED <<call, diff, ret>>

MemoryReturn ==
  /\ ret = Pending /\ call.fn \in MemoryFns /\ i = Len(call.a)
  /\ ret' = IF call.fn = "memcmp" THEN AnyBit(diff) ELSE Void
  /\ UNCHANGED <<call, i, diff, mem>>

-----------------------------------------------------------------------------
(* diff |= diff >> Bits/2, then >> Bits/4, ..., >> 1; then 1 - (diff & 1). *)
Eq64(a, b) ==
  LET rounds == CHOOSE k \in 0..Bits : Bits = Pow2[k]
      folded[k \in 0..rounds] ==
        IF k = 0 THEN BitXor(a, b)
        ELSE BitOr(folded[k - 1],
                   folded[k - 1] \div Pow2[Pow2[rounds - k]])
  IN  1 - (folded[rounds] % 2)

(* Faulty variant: the sign of the difference.                             *)
Lt64Sign(a, b) == (((a - b) % Pow2[Bits]) \div Pow2[Bits - 1]) % 2

Lt64(a, b) ==
  LET sub    == (a - b) % Pow2[Bits]
      borrow == BitXor(a, BitOr(BitXor(a, b), BitXor(sub, b)))
  IN  (borrow \div Pow2[Bits - 1]) % 2

WordReturn ==
  /\ ret = Pending /\ call.fn \notin MemoryFns
  /\ ret' =
       CASE call.fn = "eq64"     -> Eq64(call.a, call.b)
         [] call.fn = "lt64"     -> Lt64(call.a, call.b)
         [] call.fn = "select64" ->
              Select(Mask(call.condition, Bits), call.a, call.b, Bits)
         [] call.fn = "select8"  ->
              Select(Mask(call.condition, 8), call.a, call.b, 8)
  /\ UNCHANGED <<call, i, diff, mem>>

UtilityNext == \/ MemcmpByte \/ MemzeroByte \/ MemcpyIfByte \/ MemoryReturn
               \/ WordReturn

UtilitySpec == UtilityInit /\ [][UtilityNext]_utilityVars

-----------------------------------------------------------------------------
(* Written without a branch, the functions return what the plain ones do:  *)
(* in particular the borrow of lt64 is that of an unsigned comparison for  *)
(* every pair of words, and any condition but 0 counts as true, whichever  *)
(* of its bits are set (blake4_ct.c:85-156).                               *)
CtAgrees ==
  ret # Pending =>
    LET true == call.condition # 0
    IN  CASE call.fn = "memcmp"    -> ret = IF call.a = call.b THEN 0 ELSE 1
          [] call.fn = "memzero"   -> mem = [k \in 1..Len(call.a) |-> 0]
          [] call.fn = "memcpy_if" -> mem = IF true THEN call.b ELSE call.a
          [] call.fn = "eq64"      -> ret = IF call.a = call.b THEN 1 ELSE 0
          [] call.fn = "lt64"      -> ret = IF call.a < call.b THEN 1 ELSE 0
          [] OTHER                 -> ret = IF true THEN call.b ELSE call.a
=============================================================================
