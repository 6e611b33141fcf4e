----------------------------- MODULE HashCalls -----------------------------
(***************************************************************************)
(* The calls that hash a complete input with a hasher of their own         *)
(* (src/blake4.c): the convenience functions, the tweakable hashes for     *)
(* hash-based signatures and the shorter output modes.  A caller makes one *)
(* call, then another, and compares what it got.                           *)
(*                                                                         *)
(* Characters are written by their ASCII codes; "BLAKE4-HBS-", which all   *)
(* the contexts of the tweakable hashes start with, is one byte.           *)
(***************************************************************************)
EXTENDS HasherOps, TreeHash

CONSTANTS
  OutLen, AddrLen,   \* BLAKE4_OUT_LEN, 64, and the 32 bytes of an address
  CallKeys,          \* keys callers use
  CallContexts,      \* contexts of key derivation
  CallInputs,        \* complete inputs
  Values, Addresses, \* OutLen and AddrLen bytes: seeds, nodes; addresses
  Messages,          \* messages to sign
  CallOutLens,       \* output lengths asked for
  MaxBlocks,         \* bound: blocks of one call of blake4_hbs_t
  MaxCallLen,        \* bound: bytes hashed by one call
  NoCall

ASSUME CallAssumption ==
  /\ OutLen \in Nat /\ AddrLen \in 0..OutLen /\ OutLen >= 3
  /\ CallOutLens \subseteq Nat /\ MaxBlocks \in Nat /\ MaxCallLen \in Nat
  /\ \A s \in CallContexts \cup CallInputs \cup Values \cup Addresses
            \cup Messages : s \in Seq(Nat)
  /\ \A s \in CallContexts \cup CallInputs : Len(s) <= MaxCallLen
  /\ \A v \in Values : Len(v) = OutLen
  /\ \A a \in Addresses : Len(a) = AddrLen

(* The longest inputs, of h_msg, h and t.                                  *)
ASSUME CallLenAssumption ==
  /\ \A m \in Messages : 7 + 3 * OutLen + Len(m) <= MaxCallLen
  /\ 2 + 3 * OutLen + AddrLen <= MaxCallLen
  /\ 2 + OutLen + AddrLen + MaxBlocks * OutLen <= MaxCallLen

(* BLAKE4_MAX_DEPTH slots are enough for all of them.                      *)
ASSUME DepthCoversCalls ==
  \A n \in 0..MaxCallLen : n * ChunkLen <= MaxCallLen => Ones[n] <= MaxDepth

VARIABLES
  current, previous   \* the last two calls, each [call, out], or NoCall

hashVars == <<current, previous>>

HBS_CONTEXT_PRF     == <<45, 80, 82, 70>>
HBS_CONTEXT_PRF_MSG == <<45, 80, 82, 70, 109, 115, 103>>
HBS_CONTEXT_H       == <<45, 72>>
HBS_CONTEXT_F       == <<45, 70>>
(* Faulty variant: the context of another function.                        *)
ContextOfF          == <<45, 70>>
HBS_CONTEXT_T       == <<45, 84>>
HBS_CONTEXT_H_MSG   == <<45, 72, 109, 115, 103>>

(* A hasher that is initialised, updated with each of the pieces and read  *)
(* from the start.                                                         *)
OneShot(init, pieces, out_len) ==
  FinalizeSeek(FoldLeft(HasherUpdate, init, pieces), 0, out_len)

Hash(input) == OneShot(InitPlain, <<input>>, OutLen)

Answer(call, out) ==
  /\ previous = NoCall    \* bound: two calls
  /\ previous' = current
  /\ current' = [call |-> call, out |-> out]

-----------------------------------------------------------------------------
(* blake4_hash, _hash_xof, _hash_keyed and _derive_key.                    *)
HashCall(input) ==
  Answer([fn |-> "hash", input |-> input], Hash(input))

HashXof(input, out_len) ==
  Answer([fn |-> "hash_xof", input |-> input, out_len |-> out_len],
         OneShot(InitPlain, <<input>>, out_len))

HashKeyed(key, input) ==
  Answer([fn |-> "hash_keyed", key |-> key, input |-> input],
         OneShot(InitKeyed(key), <<input>>, OutLen))

DeriveKey(context, input, out_len) ==
  Answer([fn |-> "derive_key", context |-> context, input |-> input,
          out_len |-> out_len],
         OneShot(InitDeriveKey(context), <<input>>, out_len))

(* blake4_256_hash, _384_hash and _512_hash: 1/2, 3/4 and all of it.       *)
ShortHash(quarters, input) ==
  Answer([fn |-> "short_hash", quarters |-> quarters, input |-> input],
         SubSeq(Hash(input), 1, (quarters * OutLen) \div 4))

-----------------------------------------------------------------------------
(* blake4_hbs_prf, _prf_msg, _h, _f, _t and _h_msg.                        *)
HbsPrf(key, addr, out_len) ==
  Answer([fn |-> "prf", key |-> key, addr |-> addr, out_len |-> out_len],
         OneShot(InitKeyed(key), <<HBS_CONTEXT_PRF, addr>>, out_len))

HbsPrfMsg(key, opt_rand, message, out_len) ==
  Answer([fn |-> "prf_msg", key |-> key, opt_rand |-> opt_rand,
          message |-> message, out_len |-> out_len],
         OneShot(InitKeyed(key), <<HBS_CONTEXT_PRF_MSG, opt_rand, message>>,
                 out_len))

HbsH(pub_seed, addr, left, right) ==
  Answer([fn |-> "h", pub_seed |-> pub_seed, addr |-> addr, left |-> left,
          right |-> right],
         OneShot(InitPlain, <<HBS_CONTEXT_H, pub_seed, addr, left, right>>,
                 OutLen))

HbsF(pub_seed, addr, input) ==
  Answer([fn |-> "f", pub_seed |-> pub_seed, addr |-> addr, input |-> input],
         OneShot(InitPlain, <<HBS_CONTEXT_F, pub_seed, addr, input>>, OutLen))

HbsT(pub_seed, addr, blocks) ==
  Answer([fn |-> "t", pub_seed |-> pub_seed, addr |-> addr,
          blocks |-> blocks],
         OneShot(InitPlain,
                 <<HBS_CONTEXT_T, pub_seed, addr, FlattenSeq(blocks)>>, OutLen))

HbsHMsg(r, pub_seed, pub_root, message, out_len) ==
  Answer([fn |-> "h_msg", r |-> r, pub_seed |-> pub_seed,
          pub_root |-> pub_root, message |-> message, out_len |-> out_len],
         OneShot(InitPlain,
                 <<HBS_CONTEXT_H_MSG, r, pub_seed, pub_root, message>>,
                 out_len))

HashCallInit == current = NoCall /\ previous = NoCall

HashCallNext ==
  \/ \E in \in CallInputs : HashCall(in)
  \/ \E in \in CallInputs, len \in CallOutLens : HashXof(in, len)
  \/ \E k \in CallKeys, in \in CallInputs : HashKeyed(k, in)
  \/ \E c \in CallContexts, in \in CallInputs, len \in CallOutLens :
       DeriveKey(c, in, len)
  \/ \E q \in {2, 3, 4}, in \in CallInputs : ShortHash(q, in)
  \/ \E k \in CallKeys, a \in Addresses, len \in CallOutLens : HbsPrf(k, a, len)
  \/ \E k \in CallKeys, v \in Values, m \in Messages, len \in CallOutLens :
       HbsPrfMsg(k, v, m, len)
  \/ \E s, l, r \in Values, a \in Addresses : HbsH(s, a, l, r)
  \/ \E s, v \in Values, a \in Addresses : HbsF(s, a, v)
  \/ \E s \in Values, a \in Addresses, n \in 0..MaxBlocks :
       \E blocks \in [1..n -> Values] : HbsT(s, a, blocks)
  \/ \E r, s, t \in Values, m \in Messages, len \in CallOutLens :
       HbsHMsg(r, s, t, m, len)

HashCallSpec == HashCallInit /\ [][HashCallNext]_hashVars

-----------------------------------------------------------------------------
(* What each call is documented to hash, under which mode, and how much of *)
(* the output it gives (include/blake4.h).                                 *)
ModeOf(c) ==
  CASE c.fn \in {"hash_keyed", "prf", "prf_msg"} -> KeyedMode(c.key)
    [] c.fn = "derive_key"                       -> DeriveMode(c.context)
    [] OTHER                                     -> PlainMode

InputOf(c) ==
  CASE c.fn = "prf"     -> HBS_CONTEXT_PRF \o c.addr
    [] c.fn = "prf_msg" -> HBS_CONTEXT_PRF_MSG \o c.opt_rand \o c.message
    [] c.fn = "h"       -> HBS_CONTEXT_H \o c.pub_seed \o c.addr
                             \o c.left \o c.right
    [] c.fn = "f"       -> HBS_CONTEXT_F \o c.pub_seed \o c.addr \o c.input
    [] c.fn = "t"       -> HBS_CONTEXT_T \o c.pub_seed \o c.addr
                             \o FlattenSeq(c.blocks)
    [] c.fn = "h_msg"   -> HBS_CONTEXT_H_MSG \o c.r \o c.pub_seed
                             \o c.pub_root \o c.message
    [] OTHER            -> c.input

LenOf(c) ==
  CASE "out_len" \in DOMAIN c -> c.out_len
    [] c.fn = "short_hash"    -> (c.quarters * OutLen) \div 4
    [] OTHER                  -> OutLen

(* Each call returns a window of the tree hash of its concatenated input   *)
(* under its own mode, whichever blocks and chunks the pieces straddle;    *)
(* the shorter modes are prefixes of the default one.                      *)
CallsHashTheirInput ==
  current # NoCall =>
    LET c == current.call
    IN  current.out = XOF(ModeOf(c), InputOf(c), 0, LenOf(c))

Tweakable == {"prf", "prf_msg", "h", "f", "t", "h_msg"}

SameCall(c, d) ==
  /\ DOMAIN c = DOMAIN d
  /\ \A f \in DOMAIN c \ {"out_len"} : c[f] = d[f]

(* "BLAKE4-HBS-H" is a prefix of "BLAKE4-HBS-Hmsg", and nothing marks the  *)
(* end of a context: a seed of H that starts with "msg" reads as H_msg on  *)
(* a message that makes up for the difference in length.                   *)
ReadsAsHMsg(h, m) ==
  /\ h.fn = "h" /\ m.fn = "h_msg"
  /\ IsPrefix(<<109, 115, 103>>, h.pub_seed)
  /\ Len(m.message) = AddrLen - 3

(* Two calls of tweakable hashes that agree in their output are the same   *)
(* call up to its length, with exactly that exception: it is all that is   *)
(* missing from the separation the comment at blake4.c:562-565 promises.   *)
(* PRF and PRFmsg share a prefix as well, but never a length.              *)
SeparatedButForHMsg ==
  /\ previous # NoCall
  /\ previous.call.fn \in Tweakable /\ current.call.fn \in Tweakable
  =>
    LET c == previous.call
        d == current.call
        shorter == Min({LenOf(c), LenOf(d)})
    IN  /\ shorter > 0
        /\ SubSeq(previous.out, 1, shorter) = SubSeq(current.out, 1, shorter)
        => SameCall(c, d) \/ ReadsAsHMsg(c, d) \/ ReadsAsHMsg(d, c)
=============================================================================
