------------------------------ MODULE MCCalls ------------------------------
(***************************************************************************)
(* The choice of an implementation by three threads, and the calls that    *)
(* keep nothing between them, for TLC: the forms of the compression        *)
(* function, the detection of CPU features, the constant-time utilities    *)
(* and the one-shot hashes.  They do not touch each other, so a behaviour  *)
(* makes calls of one kind only, and the variables of the others stay as   *)
(* they are.                                                               *)
(***************************************************************************)
EXTENDS MCDispatch, Kernels, Words, CpuFeatures, CtUtils, HashCalls
Library == INSTANCE Bitwise

VARIABLE kind   \* "dispatch", "compress", "detect", "utility" or "hash"

statelessVars == <<compressVars, detectVars, utilityVars, hashVars>>
callsVars == <<kind, vars, statelessVars>>

(* The bitwise operations of CtUtils are those of the library.             *)
ASSUME BitwiseAssumption ==
  \A x, y \in 0..63 :
    /\ BitAnd(x, y) = Library!&(x, y)
    /\ BitOr(x, y)  = Library!|(x, y)
    /\ BitXor(x, y) = Library!^^(x, y)

-----------------------------------------------------------------------------
(* Arguments of compressions: the root of the empty message; a parent of a *)
(* keyed hash with a large counter, all words different; and ones, for the *)
(* carries.                                                                *)
Small(n) == Word(0, 0, 0, n)
Ones64   == Word(\hFFFF, \hFFFF, \hFFFF, \hFFFF)
Pattern(n) == Word(\h8421 + n, \h0F0F - 7 * n, (4099 * n) % 65536, \hC3A5 + n)

EmptyRoot ==
  [cv |-> IV64, m |-> [k \in 0..15 |-> Small(0)], block_len |-> Small(0),
   counter |-> Small(0), flags |-> Small(11)]
MixedParent ==
  [cv |-> [k \in 0..7 |-> Pattern(16 + k)],
   m |-> [k \in 0..15 |-> Pattern(k)], block_len |-> Small(128),
   counter |-> Word(0, 2, 0, 5), flags |-> Small(20)]
AllOnes ==
  [cv |-> [k \in 0..7 |-> Ones64], m |-> [k \in 0..15 |-> Ones64],
   block_len |-> Small(128), counter |-> Ones64, flags |-> Small(127)]

KernelInputs == {EmptyRoot, MixedParent, AllOnes}

(* Operands of the hashes: all bytes 1, or starting with "msg"; inputs of  *)
(* no byte, one byte, and two chunks.                                      *)
Repeat(n) == [k \in 1..n |-> 1]
StartsWithMsg(n) == <<109, 115, 103>> \o Repeat(n - 3)

MCContexts == {<<7>>}
MCInputs == {Repeat(0), Repeat(1), Repeat(ChunkLen + 1)}
MCValues == {Repeat(OutLen), StartsWithMsg(OutLen)}
MCAddresses == {Repeat(AddrLen), StartsWithMsg(AddrLen)}
MCMessages == {Repeat(0), Repeat(1), Repeat(2)}

-----------------------------------------------------------------------------
NoCompression == CompressInit /\ impl = "avx2" /\ input = EmptyRoot
NoDetection == DetectInit /\ machine = [arch |-> "unknown"]
NoUtility == call = None /\ i = 0 /\ diff = 0 /\ mem = <<>> /\ ret = Pending

CallsInit ==
  /\ \/ /\ kind = "compress"
        /\ CompressInit /\ NoDetection /\ NoUtility
     \/ /\ kind = "detect"
        /\ NoCompression /\ DetectInit /\ NoUtility
     \/ /\ kind = "utility"
        /\ NoCompression /\ NoDetection /\ UtilityInit
     \/ /\ kind \in {"hash", "dispatch"}
        /\ NoCompression /\ NoDetection /\ NoUtility
  /\ HashCallInit
  /\ Init

DispatchStep ==
  kind = "dispatch" /\ Next /\ UNCHANGED <<kind, statelessVars>>

CompressStep ==
  /\ kind = "compress" /\ CompressNext
  /\ UNCHANGED <<kind, vars, detectVars, utilityVars, hashVars>>

DetectStep ==
  /\ kind = "detect" /\ DetectNext
  /\ UNCHANGED <<kind, vars, compressVars, utilityVars, hashVars>>

UtilityStep ==
  /\ kind = "utility" /\ UtilityNext
  /\ UNCHANGED <<kind, vars, compressVars, detectVars, hashVars>>

HashStep ==
  /\ kind = "hash" /\ HashCallNext
  /\ UNCHANGED <<kind, vars, compressVars, detectVars, utilityVars>>

CallsNext ==
  DispatchStep \/ CompressStep \/ DetectStep \/ UtilityStep \/ HashStep

CallsSpec == CallsInit /\ [][CallsNext]_callsVars
=============================================================================
