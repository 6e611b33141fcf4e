----------------------------- MODULE CallProofs -----------------------------
(***************************************************************************)
(* Theorems about HashCalls, for every block and chunk length and operands *)
(* of any size: each call gives the tree hash of its input, and the        *)
(* tweakable hashes tell their calls apart, but for one exception.         *)
(***************************************************************************)
EXTENDS HashCalls, TreeProofs

-----------------------------------------------------------------------------
(* The calls that hash a complete input (HashCalls).                       *)

(* Every input they hash leaves the stack room.                            *)
LEMMA CallFits ==
  ASSUME NEW m \in Seq(Nat), Len(m) <= MaxCallLen
  PROVE  Fits(m)
<1>1. Len(m) \in Nat /\ MaxCallLen \in Nat /\ ChunkLen \in Nat \ {0}
  BY LenProperties, CallAssumption, LengthAssumption
<1>2. ASSUME NEW n \in Nat, n * ChunkLen <= Len(m)
      PROVE  Ones[n] <= MaxDepth
  <2>1. n * ChunkLen \in Nat /\ n <= n * ChunkLen
    <3>1. n * ChunkLen = n + n * (ChunkLen - 1) /\ n * (ChunkLen - 1) \in Nat
      BY <1>1
    <3>2. QED
      BY <3>1
  <2>2. n \in 0..MaxCallLen /\ n * ChunkLen <= MaxCallLen
    BY <1>1, <1>2, <2>1
  <2>3. QED
    BY <2>2, DepthCoversCalls
<1>3. QED
  BY <1>2 DEF Fits

UpdateWith(x, h, piece) == HasherUpdate(h, piece)
Pieces_ == INSTANCE Recursion WITH Step <- UpdateWith

LEMMA OneShotFolds ==
  ASSUME NEW init, NEW pieces
  PROVE  Pieces_!IsFold(FoldLeft(HasherUpdate, init, pieces), 0, init, pieces)
BY DEF Pieces_!IsFold, Pieces_!FoldTable, Pieces_!FoldStep, UpdateWith,
       FoldLeft, MapThenFoldSet, Max, Pieces_!Max

Updates(init, pieces) == FoldLeft(HasherUpdate, init, pieces)

(* t[k] is the hasher after the first k of n pieces.                       *)
IsUpdated(t, init, pieces, n) ==
  /\ Updates(init, pieces) = t[n] /\ t[0] = init
  /\ \A k \in 1..n : t[k] = HasherUpdate(t[k - 1], pieces[k])

LEMMA UpdatesRun ==
  ASSUME NEW init, NEW n \in Nat, NEW pieces, DOMAIN pieces = 1..n
  PROVE  \E t : IsUpdated(t, init, pieces, n)
<1>1. PICK t : /\ Pieces_!IsRun(t, 0, init, pieces, n)
               /\ FoldLeft(HasherUpdate, init, pieces) = t[n]
  BY OneShotFolds, Pieces_!FoldRuns
<1>2. QED
  BY <1>1, Zenon DEF Pieces_!IsRun, UpdateWith, Updates, IsUpdated

(* An input of a call, and a hasher that has taken in exactly s.           *)
IsMessage(m) == m \in Seq(Nat) /\ Len(m) <= MaxCallLen
HasRead(h, mo, s) == Reading(h, mo, s, Len(s))

LEMMA PrefixIsMessage ==
  ASSUME NEW s \in Seq(Nat), NEW x \in Seq(Nat), NEW u, u = s \o x
  PROVE  u \in Seq(Nat) /\ (IsMessage(u) => IsMessage(s))
<1>1. u \in Seq(Nat) /\ Len(u) = Len(s) + Len(x)
  BY ConcatProperties
<1>2. Len(s) \in Nat /\ Len(x) \in Nat /\ MaxCallLen \in Nat
  BY LenProperties, CallAssumption
<1>3. QED
  BY <1>1, <1>2 DEF IsMessage

LEMMA OneMorePiece ==
  ASSUME NEW mo, NEW h, NEW s \in Seq(Nat), NEW x \in Seq(Nat),
         NEW u, u = s \o x, IsMessage(u), HasRead(h, mo, s),
         NEW g, g = HasherUpdate(h, x)
  PROVE  HasRead(g, mo, u)
<1>1. Fits(s \o x)
  BY CallFits, Zenon DEF IsMessage
<1>2. Reading(HasherUpdate(h, x), mo, s \o x, Len(s \o x))
  BY <1>1, UpdateReads DEF HasRead
<1>3. QED
  BY <1>2 DEF HasRead

LEMMA Answers ==
  ASSUME NEW mo, NEW m, NEW init, NEW pieces, NEW out_len \in Nat,
         HasRead(Updates(init, pieces), mo, m)
  PROVE  OneShot(init, pieces, out_len) = XOF(mo, m, 0, out_len)
<1>1. RootNode(Updates(init, pieces)) = Root(mo, m)
  BY RootNodeIs DEF HasRead
<1>2. OneShot(init, pieces, out_len)
        = OutputRootBytes(RootNode(Updates(init, pieces)), 0, out_len)
  BY DEF OneShot, FinalizeSeek, Updates
<1>3. QED
  BY <1>1, <1>2, OutputIs DEF XOF

IsPieces(pieces, n) == Len(pieces) = n /\ pieces \in [1..n -> Seq(Nat)]

(* However many pieces, what is hashed is all of them joined.              *)
LEMMA OneShotIs ==
  ASSUME NEW mo, NEW init, init = InitHasher(mo.key, mo.flags),
         NEW n \in Nat, n > 0, NEW pieces, IsPieces(pieces, n),
         IsMessage(FlattenSeq(pieces)), NEW out_len \in Nat
  PROVE  OneShot(init, pieces, out_len) = XOF(mo, FlattenSeq(pieces), 0, out_len)
<1> DEFINE none == <<>>
<1>1. PICK f : Flattens(f, pieces, n)
  BY FlatExists DEF IsPieces
<1>2. \A k \in 1..n : f[k] \in Seq(Nat)
  BY <1>1, FlatShape, Zenon DEF IsPieces, SameShape, SameSizes
<1>0. DOMAIN pieces = 1..n
  BY DEF IsPieces
<1>3. PICK t : IsUpdated(t, init, pieces, n)
  BY <1>0, UpdatesRun
<1> DEFINE T == {j \in Nat : j + 1 <= n /\ IsMessage(f[j + 1])
                               => HasRead(t[j + 1], mo, f[j + 1])}
<1>4. 0 \in T
  <2> SUFFICES ASSUME IsMessage(f[0 + 1]) PROVE HasRead(t[0 + 1], mo, f[0 + 1])
    OBVIOUS
  <2>1. 0 + 1 = 1 /\ 1 - 1 = 0 /\ 1 \in 1..n
    OBVIOUS
  <2> DEFINE x == pieces[1]
  <2>2. x \in Seq(Nat) /\ f[1] = x /\ t[1] = HasherUpdate(init, x)
    BY <1>1, <1>3, <2>1 DEF Flattens, IsPieces, IsUpdated
  <2> HIDE DEF x
  <2>3. none \in Seq(Nat) /\ Len(none) = 0 /\ none \o x = x
    BY <2>2, EmptySeq, ConcatEmptySeq
  <2> HIDE DEF none, T
  <2>4. HasRead(init, mo, none)
    BY <2>3, InitReads, Zenon DEF HasRead
  <2>5. HasRead(t[1], mo, f[1])
    BY <2>1, <2>2, <2>3, <2>4, OneMorePiece, Zenon
  <2>6. QED
    BY <2>1, <2>5
<1>5. ASSUME NEW j \in Nat, j \in T PROVE j + 1 \in T
  <2> DEFINE k == j + 1
  <2> SUFFICES ASSUME k + 1 <= n, IsMessage(f[k + 1])
               PROVE  HasRead(t[k + 1], mo, f[k + 1])
    OBVIOUS
  <2>1. /\ k \in 1..n /\ k + 1 \in 1..n /\ k + 1 \in 2..n /\ k <= n
        /\ (k + 1) - 1 = k
    OBVIOUS
  <2>2. IsMessage(f[k]) => HasRead(t[k], mo, f[k])
    BY <1>5, <2>1
  <2> HIDE DEF k, T
  <2> DEFINE x == pieces[k + 1]
             s == f[k]
             u == f[k + 1]
             g == t[k + 1]
  <2>3. x \in Seq(Nat) /\ s \in Seq(Nat) /\ u = s \o x /\ g = HasherUpdate(t[k], x)
    BY <1>1, <1>2, <1>3, <2>1, Zenon DEF Flattens, IsPieces, IsUpdated
  <2>4. IsMessage(u) /\ (IsMessage(s) => HasRead(t[k], mo, s))
    BY <2>2
  <2> HIDE DEF x, s, u, g
  <2>5. IsMessage(s)
    BY <2>3, <2>4, PrefixIsMessage, Zenon
  <2>6. HasRead(g, mo, u)
    BY <2>3, <2>4, <2>5, OneMorePiece, Zenon
  <2>7. QED
    BY <2>6 DEF g, u
<1>6. Nat \subseteq T
  <2> HIDE DEF T
  <2> QED BY <1>4, <1>5, SetInduction
<1>7. HasRead(Updates(init, pieces), mo, FlattenSeq(pieces))
  <2>1. n - 1 \in Nat /\ (n - 1) + 1 = n
    OBVIOUS
  <2>2. n - 1 \in T
    BY <1>6, <2>1
  <2>3. f[n] = FlattenSeq(pieces)
    BY <1>1 DEF Flattens
  <2>4. QED
    BY <1>3, <2>1, <2>2, <2>3 DEF IsUpdated
<1>8. QED
  BY <1>7, Answers

-----------------------------------------------------------------------------
(* The inputs of the tweakable hashes.                                     *)

(* The calls, and the parts of what each hashes.                           *)
PrfCalls == [fn : {"prf"}, key : CallKeys, addr : Addresses,
             out_len : CallOutLens]
PrfMsgCalls == [fn : {"prf_msg"}, key : CallKeys, opt_rand : Values,
                message : Messages, out_len : CallOutLens]
HCalls == [fn : {"h"}, pub_seed : Values, addr : Addresses, left : Values,
           right : Values]
FCalls == [fn : {"f"}, pub_seed : Values, addr : Addresses, input : Values]
BlockLists == UNION {[1..n -> Values] : n \in 0..MaxBlocks}
TCalls == [fn : {"t"}, pub_seed : Values, addr : Addresses,
           blocks : BlockLists]
HMsgCalls == [fn : {"h_msg"}, r : Values, pub_seed : Values,
              pub_root : Values, message : Messages, out_len : CallOutLens]
TweakCalls == PrfCalls \cup PrfMsgCalls \cup HCalls \cup FCalls \cup TCalls
                \cup HMsgCalls

PartsOf(c) ==
  CASE c.fn = "prf"     -> <<HBS_CONTEXT_PRF, c.addr>>
    [] c.fn = "prf_msg" -> <<HBS_CONTEXT_PRF_MSG, c.opt_rand, c.message>>
    [] c.fn = "h"       -> <<HBS_CONTEXT_H, c.pub_seed, c.addr, c.left, c.right>>
    [] c.fn = "f"       -> <<HBS_CONTEXT_F, c.pub_seed, c.addr, c.input>>
    [] c.fn = "t"       -> <<HBS_CONTEXT_T, c.pub_seed, c.addr,
                             FlattenSeq(c.blocks)>>
    [] c.fn = "h_msg"   -> <<HBS_CONTEXT_H_MSG, c.r, c.pub_seed, c.pub_root,
                             c.message>>

LengthOf(c) ==
  CASE c.fn = "prf"     -> 4 + AddrLen
    [] c.fn = "prf_msg" -> 7 + OutLen + Len(c.message)
    [] c.fn = "h"       -> 2 + OutLen + AddrLen + OutLen + OutLen
    [] c.fn = "f"       -> 2 + OutLen + AddrLen + OutLen
    [] c.fn = "t"       -> 2 + OutLen + AddrLen + Len(c.blocks) * OutLen
    [] c.fn = "h_msg"   -> 5 + OutLen + OutLen + OutLen + Len(c.message)

ShapeIs(c, p, n, len) ==
  /\ PartsOf(c) = p /\ IsPieces(p, n) /\ n \in Nat /\ n > 0
  /\ InputOf(c) = FlattenSeq(p)
  /\ LengthOf(c) = len /\ len \in Nat /\ len <= MaxCallLen
  /\ StartsWith(InputOf(c), p[1], p[2], len)

LEMMA ContextFacts ==
  /\ HBS_CONTEXT_PRF \in Seq(Nat) /\ Len(HBS_CONTEXT_PRF) = 4
  /\ HBS_CONTEXT_PRF_MSG \in Seq(Nat) /\ Len(HBS_CONTEXT_PRF_MSG) = 7
  /\ HBS_CONTEXT_H \in Seq(Nat) /\ Len(HBS_CONTEXT_H) = 2
  /\ HBS_CONTEXT_F \in Seq(Nat) /\ Len(HBS_CONTEXT_F) = 2
  /\ HBS_CONTEXT_T \in Seq(Nat) /\ Len(HBS_CONTEXT_T) = 2
  /\ HBS_CONTEXT_H_MSG \in Seq(Nat) /\ Len(HBS_CONTEXT_H_MSG) = 5
BY DEF HBS_CONTEXT_PRF, HBS_CONTEXT_PRF_MSG, HBS_CONTEXT_H, HBS_CONTEXT_F,
       HBS_CONTEXT_T, HBS_CONTEXT_H_MSG

LEMMA OperandFacts ==
  /\ \A v \in Values : v \in Seq(Nat) /\ Len(v) = OutLen
  /\ \A a \in Addresses : a \in Seq(Nat) /\ Len(a) = AddrLen
  /\ \A m \in Messages : /\ m \in Seq(Nat) /\ Len(m) \in Nat
                         /\ 7 + 3 * OutLen + Len(m) <= MaxCallLen
  /\ OutLen \in Nat /\ OutLen >= 3 /\ AddrLen \in Nat /\ AddrLen <= OutLen
  /\ MaxCallLen \in Nat /\ 2 + 3 * OutLen + AddrLen <= MaxCallLen
  /\ CallOutLens \subseteq Nat
BY CallAssumption, CallLenAssumption, LenProperties

(* A list of blocks is told by what they are joined to.                    *)
LEMMA BlockListFacts ==
  ASSUME NEW x \in BlockLists
  PROVE  /\ Len(x) \in Nat /\ Len(x) * OutLen \in Nat
         /\ IsBlocks(x, Nat, Len(x), OutLen)
         /\ FlattenSeq(x) \in Seq(Nat)
         /\ Len(FlattenSeq(x)) = Len(x) * OutLen
         /\ 2 + OutLen + AddrLen + Len(x) * OutLen <= MaxCallLen
<1>1. PICK n \in 0..MaxBlocks : x \in [1..n -> Values]
  BY DEF BlockLists
<1>2. n \in Nat /\ MaxBlocks \in Nat /\ n <= MaxBlocks
  BY CallAssumption
<1>3. Len(x) = n
  BY <1>1, <1>2
<1>4. \A i \in 1..n : x[i] \in Seq(Nat) /\ Len(x[i]) = OutLen
  BY <1>1, OperandFacts
<1>5. IsBlocks(x, Nat, n, OutLen)
  BY <1>1, <1>3, <1>4 DEF IsBlocks
<1>6. OutLen \in Nat \ {0}
  BY OperandFacts
<1>7. FlattenSeq(x) \in Seq(Nat) /\ Len(FlattenSeq(x)) = n * OutLen
  BY <1>2, <1>5, <1>6, FlattenLength
<1> DEFINE k == n * OutLen
           most == MaxBlocks * OutLen
<1>8. k \in Nat /\ most \in Nat /\ k <= most
  BY <1>2, <1>6, Multiples
<1>9. 2 + OutLen + AddrLen + most <= MaxCallLen
  BY CallLenAssumption
<1> HIDE DEF k, most
<1>10. 2 + OutLen + AddrLen + k <= MaxCallLen
  BY <1>8, <1>9, OperandFacts
<1>11. QED
  BY <1>2, <1>3, <1>5, <1>7, <1>8, <1>10 DEF k

LEMMA PrfShape ==
  ASSUME NEW c \in PrfCalls
  PROVE  ShapeIs(c, <<HBS_CONTEXT_PRF, c.addr>>, 2, 4 + AddrLen)
<1> DEFINE a == HBS_CONTEXT_PRF
           b == c.addr
           p == <<a, b>>
           len == 4 + AddrLen
<1>1. c.fn = "prf" /\ c.addr \in Addresses
  BY DEF PrfCalls
<1>2. PartsOf(c) = p /\ InputOf(c) = a \o b /\ LengthOf(c) = 4 + AddrLen
  BY <1>1 DEF PartsOf, InputOf, LengthOf
<1>3. a \in Seq(Nat) /\ b \in Seq(Nat) /\ Len(a) = 4 /\ Len(b) = AddrLen
  BY <1>1, ContextFacts, OperandFacts
<1> HIDE DEF a, b
<1>4. IsPieces(p, 2) /\ p[1] = a /\ p[2] = b
  BY <1>3 DEF IsPieces
<1>5. JoinsTwo(a, b)
  BY FlattenTwo
<1>6. StartsWith(FlattenSeq(p), a, b, len)
  <2>1. StartsWith(FlattenSeq(p), a, b, Len(a) + Len(b))
    BY <1>3, JoinsStart, Zenon
  <2>2. Len(a) + Len(b) = len
    BY <1>3
  <2>3. QED
    BY <2>1, <2>2
<1>7. len \in Nat /\ len <= MaxCallLen
  BY <1>3, OperandFacts
<1>8. InputOf(c) = FlattenSeq(p)
  BY <1>2, <1>5, Zenon DEF JoinsTwo
<1>9. PartsOf(c) = p /\ LengthOf(c) = len
  BY <1>2
<1> HIDE DEF p, len
<1>10. ShapeIs(c, p, 2, len)
  BY <1>4, <1>6, <1>7, <1>8, <1>9 DEF ShapeIs
<1>11. QED
  BY <1>10 DEF p, len, a, b

LEMMA PrfMsgShape ==
  ASSUME NEW c \in PrfMsgCalls
  PROVE  ShapeIs(c, <<HBS_CONTEXT_PRF_MSG, c.opt_rand, c.message>>, 3,
                 7 + OutLen + Len(c.message))
<1> DEFINE a == HBS_CONTEXT_PRF_MSG
           b == c.opt_rand
           d == c.message
           p == <<a, b, d>>
           len == 7 + OutLen + Len(d)
<1>1. c.fn = "prf_msg" /\ c.opt_rand \in Values /\ c.message \in Messages
  BY DEF PrfMsgCalls
<1>2. PartsOf(c) = p /\ InputOf(c) = a \o b \o d
      /\ LengthOf(c) = 7 + OutLen + Len(d)
  BY <1>1, Zenon DEF PartsOf, InputOf, LengthOf
<1>3. /\ a \in Seq(Nat) /\ b \in Seq(Nat) /\ d \in Seq(Nat)
      /\ Len(a) = 7 /\ Len(b) = OutLen /\ Len(d) \in Nat
      /\ 7 + 3 * OutLen + Len(d) <= MaxCallLen
  BY <1>1, ContextFacts, OperandFacts, Zenon
<1> HIDE DEF a, b, d
<1>4. IsPieces(p, 3) /\ p[1] = a /\ p[2] = b
  BY <1>3 DEF IsPieces
<1>5. JoinsThree(a, b, d)
  BY FlattenThree
<1>6. StartsWith(FlattenSeq(p), a, b, len)
  <2>1. StartsWith(FlattenSeq(p), a, b, Len(a) + Len(b) + Len(d))
    BY <1>3, JoinsStart, Zenon
  <2>2. Len(a) + Len(b) + Len(d) = len
    BY <1>3
  <2>3. QED
    BY <2>1, <2>2
<1>7. len \in Nat /\ len <= MaxCallLen
  BY <1>3, OperandFacts
<1>8. InputOf(c) = FlattenSeq(p)
  BY <1>2, <1>5, Zenon DEF JoinsThree
<1>9. PartsOf(c) = p /\ LengthOf(c) = len
  BY <1>2
<1> HIDE DEF p, len
<1>10. ShapeIs(c, p, 3, len)
  BY <1>4, <1>6, <1>7, <1>8, <1>9 DEF ShapeIs
<1>11. QED
  BY <1>10 DEF p, len, a, b, d

LEMMA HShape ==
  ASSUME NEW c \in HCalls
  PROVE  ShapeIs(c, <<HBS_CONTEXT_H, c.pub_seed, c.addr, c.left, c.right>>, 5,
                 2 + OutLen + AddrLen + OutLen + OutLen)
<1> DEFINE a == HBS_CONTEXT_H
           b == c.pub_seed
           d == c.addr
           e == c.left
           f == c.right
           p == <<a, b, d, e, f>>
           len == 2 + OutLen + AddrLen + OutLen + OutLen
<1>1. c.fn = "h" /\ c.pub_seed \in Values /\ c.addr \in Addresses
      /\ c.left \in Values /\ c.right \in Values
  BY DEF HCalls
<1>2. PartsOf(c) = p /\ InputOf(c) = a \o b \o d \o e \o f
      /\ LengthOf(c) = 2 + OutLen + AddrLen + OutLen + OutLen
  BY <1>1, Zenon DEF PartsOf, InputOf, LengthOf
<1>3. /\ a \in Seq(Nat) /\ b \in Seq(Nat) /\ d \in Seq(Nat)
      /\ e \in Seq(Nat) /\ f \in Seq(Nat)
      /\ Len(a) = 2 /\ Len(b) = OutLen /\ Len(d) = AddrLen
      /\ Len(e) = OutLen /\ Len(f) = OutLen
  BY <1>1, ContextFacts, OperandFacts
<1> HIDE DEF a, b, d, e, f
<1>4. IsPieces(p, 5) /\ p[1] = a /\ p[2] = b
  BY <1>3 DEF IsPieces
<1>5. JoinsFive(a, b, d, e, f)
  BY FlattenFive
<1>6. StartsWith(FlattenSeq(p), a, b, len)
  <2>1. StartsWith(FlattenSeq(p), a, b, Len(a) + Len(b) + Len(d) + Len(e) + Len(f))
    BY <1>3, JoinsStart
  <2>2. Len(a) + Len(b) + Len(d) + Len(e) + Len(f) = len
    BY <1>3
  <2>3. QED
    BY <2>1, <2>2
<1>7. len \in Nat /\ len <= MaxCallLen
  BY <1>3, OperandFacts
<1>8. InputOf(c) = FlattenSeq(p)
  BY <1>2, <1>5, Zenon DEF JoinsFive
<1>9. PartsOf(c) = p /\ LengthOf(c) = len
  BY <1>2
<1> HIDE DEF p, len
<1>10. ShapeIs(c, p, 5, len)
  BY <1>4, <1>6, <1>7, <1>8, <1>9 DEF ShapeIs
<1>11. QED
  BY <1>10 DEF p, len, a, b, d, e, f

LEMMA FShape ==
  ASSUME NEW c \in FCalls
  PROVE  ShapeIs(c, <<HBS_CONTEXT_F, c.pub_seed, c.addr, c.input>>, 4,
                 2 + OutLen + AddrLen + OutLen)
<1> DEFINE a == HBS_CONTEXT_F
           b == c.pub_seed
           d == c.addr
           e == c.input
           p == <<a, b, d, e>>
           len == 2 + OutLen + AddrLen + OutLen
<1>1. c.fn = "f" /\ c.pub_seed \in Values /\ c.addr \in Addresses
      /\ c.input \in Values
  BY DEF FCalls
<1>2. PartsOf(c) = p /\ InputOf(c) = a \o b \o d \o e
      /\ LengthOf(c) = 2 + OutLen + AddrLen + OutLen
  BY <1>1, Zenon DEF PartsOf, InputOf, LengthOf
<1>3. /\ a \in Seq(Nat) /\ b \in Seq(Nat) /\ d \in Seq(Nat) /\ e \in Seq(Nat)
      /\ Len(a) = 2 /\ Len(b) = OutLen /\ Len(d) = AddrLen /\ Len(e) = OutLen
  BY <1>1, ContextFacts, OperandFacts
<1> HIDE DEF a, b, d, e
<1>4. IsPieces(p, 4) /\ p[1] = a /\ p[2] = b
  BY <1>3 DEF IsPieces
<1>5. JoinsFour(a, b, d, e)
  BY FlattenFour
<1>6. StartsWith(FlattenSeq(p), a, b, len)
  <2>1. StartsWith(FlattenSeq(p), a, b, Len(a) + Len(b) + Len(d) + Len(e))
    BY <1>3, JoinsStart, Zenon
  <2>2. Len(a) + Len(b) + Len(d) + Len(e) = len
    BY <1>3
  <2>3. QED
    BY <2>1, <2>2
<1>7. len \in Nat /\ len <= MaxCallLen
  BY <1>3, OperandFacts
<1>8. InputOf(c) = FlattenSeq(p)
  BY <1>2, <1>5, Zenon DEF JoinsFour
<1>9. PartsOf(c) = p /\ LengthOf(c) = len
  BY <1>2
<1> HIDE DEF p, len
<1>10. ShapeIs(c, p, 4, len)
  BY <1>4, <1>6, <1>7, <1>8, <1>9 DEF ShapeIs
<1>11. QED
  BY <1>10 DEF p, len, a, b, d, e

LEMMA TShape ==
  ASSUME NEW c \in TCalls
  PROVE  ShapeIs(c, <<HBS_CONTEXT_T, c.pub_seed, c.addr, FlattenSeq(c.blocks)>>,
                 4, 2 + OutLen + AddrLen + Len(c.blocks) * OutLen)
<1> DEFINE a == HBS_CONTEXT_T
           b == c.pub_seed
           d == c.addr
           e == FlattenSeq(c.blocks)
           k == Len(c.blocks) * OutLen
           p == <<a, b, d, e>>
           len == 2 + OutLen + AddrLen + k
<1>1. c.fn = "t" /\ c.pub_seed \in Values /\ c.addr \in Addresses
      /\ c.blocks \in BlockLists
  BY DEF TCalls
<1>2. PartsOf(c) = p /\ InputOf(c) = a \o b \o d \o e
      /\ LengthOf(c) = 2 + OutLen + AddrLen + k
  BY <1>1, Zenon DEF PartsOf, InputOf, LengthOf
<1>3. /\ a \in Seq(Nat) /\ b \in Seq(Nat) /\ d \in Seq(Nat) /\ e \in Seq(Nat)
      /\ Len(a) = 2 /\ Len(b) = OutLen /\ Len(d) = AddrLen
      /\ Len(e) = k /\ k \in Nat /\ 2 + OutLen + AddrLen + k <= MaxCallLen
  BY <1>1, ContextFacts, OperandFacts, BlockListFacts, Zenon
<1> HIDE DEF a, b, d, e, k
<1>4. IsPieces(p, 4) /\ p[1] = a /\ p[2] = b
  BY <1>3 DEF IsPieces
<1>5. JoinsFour(a, b, d, e)
  BY FlattenFour
<1>6. StartsWith(FlattenSeq(p), a, b, len)
  <2>1. StartsWith(FlattenSeq(p), a, b, Len(a) + Len(b) + Len(d) + Len(e))
    BY <1>3, JoinsStart, Zenon
  <2>2. Len(a) + Len(b) + Len(d) + Len(e) = len
    BY <1>3
  <2>3. QED
    BY <2>1, <2>2
<1>7. len \in Nat /\ len <= MaxCallLen
  BY <1>3, OperandFacts
<1>8. InputOf(c) = FlattenSeq(p)
  BY <1>2, <1>5, Zenon DEF JoinsFour
<1>9. PartsOf(c) = p /\ LengthOf(c) = len
  BY <1>2
<1> HIDE DEF p, len
<1>10. ShapeIs(c, p, 4, len)
  BY <1>4, <1>6, <1>7, <1>8, <1>9 DEF ShapeIs
<1>11. QED
  BY <1>10 DEF p, len, a, b, d, e, k

LEMMA HMsgShape ==
  ASSUME NEW c \in HMsgCalls
  PROVE  ShapeIs(c, <<HBS_CONTEXT_H_MSG, c.r, c.pub_seed, c.pub_root, c.message>>,
                 5, 5 + OutLen + OutLen + OutLen + Len(c.message))
<1> DEFINE a == HBS_CONTEXT_H_MSG
           b == c.r
           d == c.pub_seed
           e == c.pub_root
           f == c.message
           p == <<a, b, d, e, f>>
           len == 5 + OutLen + OutLen + OutLen + Len(f)
<1>1. c.fn = "h_msg" /\ c.r \in Values /\ c.pub_seed \in Values
      /\ c.pub_root \in Values /\ c.message \in Messages
  BY DEF HMsgCalls
<1>2. PartsOf(c) = p /\ InputOf(c) = a \o b \o d \o e \o f
      /\ LengthOf(c) = 5 + OutLen + OutLen + OutLen + Len(f)
  BY <1>1 DEF PartsOf, InputOf, LengthOf
<1>3. /\ a \in Seq(Nat) /\ b \in Seq(Nat) /\ d \in Seq(Nat)
      /\ e \in Seq(Nat) /\ f \in Seq(Nat)
      /\ Len(a) = 5 /\ Len(b) = OutLen /\ Len(d) = OutLen
      /\ Len(e) = OutLen /\ Len(f) \in Nat
      /\ 7 + 3 * OutLen + Len(f) <= MaxCallLen
  BY <1>1, ContextFacts, OperandFacts
<1> HIDE DEF a, b, d, e, f
<1>4. IsPieces(p, 5) /\ p[1] = a /\ p[2] = b
  BY <1>3 DEF IsPieces
<1>5. JoinsFive(a, b, d, e, f)
  BY FlattenFive
<1>6. StartsWith(FlattenSeq(p), a, b, len)
  <2>1. StartsWith(FlattenSeq(p), a, b, Len(a) + Len(b) + Len(d) + Len(e) + Len(f))
    BY <1>3, JoinsStart, Zenon
  <2>2. Len(a) + Len(b) + Len(d) + Len(e) + Len(f) = len
    BY <1>3
  <2>3. QED
    BY <2>1, <2>2
<1>7. len \in Nat /\ len <= MaxCallLen
  BY <1>3, OperandFacts
<1>8. InputOf(c) = FlattenSeq(p)
  BY <1>2, <1>5, Zenon DEF JoinsFive
<1>9. PartsOf(c) = p /\ LengthOf(c) = len
  BY <1>2
<1> HIDE DEF p, len
<1>10. ShapeIs(c, p, 5, len)
  BY <1>4, <1>6, <1>7, <1>8, <1>9 DEF ShapeIs
<1>11. QED
  BY <1>10 DEF p, len, a, b, d, e, f
-----------------------------------------------------------------------------
(* Every call answers with the tree hash of its input.                     *)

LEMMA InitModes ==
  /\ InitPlain = InitHasher(PlainMode.key, PlainMode.flags)
  /\ \A k : InitKeyed(k) = InitHasher(KeyedMode(k).key, KeyedMode(k).flags)
  /\ \A c \in CallContexts :
       InitDeriveKey(c) = InitHasher(DeriveMode(c).key, DeriveMode(c).flags)
<1>1. InitPlain = InitHasher(PlainMode.key, PlainMode.flags)
  BY DEF InitPlain, PlainMode
<1>2. \A k : InitKeyed(k) = InitHasher(KeyedMode(k).key, KeyedMode(k).flags)
  BY DEF InitKeyed, KeyedMode
<1>3. ASSUME NEW c \in CallContexts
      PROVE  InitDeriveKey(c) = InitHasher(DeriveMode(c).key, DeriveMode(c).flags)
  <2>1. c \in Seq(Nat) /\ Len(c) <= MaxCallLen
    BY CallAssumption
  <2>2. Fits(c)
    BY <2>1, CallFits
  <2>3. QED
    BY <2>1, <2>2, DeriveKeyIs
<1>4. QED
  BY <1>1, <1>2, <1>3

(* Of a single piece nothing is joined.                                    *)
LEMMA OneShotOfOne ==
  ASSUME NEW mo, NEW init, init = InitHasher(mo.key, mo.flags),
         NEW x \in CallInputs, NEW out_len \in Nat
  PROVE  OneShot(init, <<x>>, out_len) = XOF(mo, x, 0, out_len)
<1> DEFINE p == <<x>>
<1>1. IsMessage(x)
  BY CallAssumption DEF IsMessage
<1>2. x \in Seq(Nat)
  BY <1>1 DEF IsMessage
<1>3. Len(p) = 1 /\ p[1] = x /\ IsPieces(p, 1)
  BY <1>2 DEF IsPieces
<1> HIDE DEF p
<1>4. 1 \in Nat /\ 1 > 0
  OBVIOUS
<1>5. PICK f : Flattens(f, p, 1)
  BY <1>3, <1>4, FlatExists, Zenon
<1>6. FlattenSeq(p) = x
  BY <1>3, <1>5, Zenon DEF Flattens
<1>7. OneShot(init, p, out_len) = XOF(mo, FlattenSeq(p), 0, out_len)
  BY <1>1, <1>3, <1>4, <1>6, OneShotIs
<1>8. QED
  BY <1>6, <1>7 DEF p

(* A shorter output is a prefix of a longer one.                           *)
LEMMA PrefixOfOutput ==
  ASSUME NEW mo, NEW m, NEW n \in Nat, NEW k \in Nat, k <= n
  PROVE  SubSeq(XOF(mo, m, 0, n), 1, k) = XOF(mo, m, 0, k)
<1> DEFINE o == Root(mo, m)
           S == OutputBytes(o)
           w == OutputWindow(o, 0, n)
           v == OutputWindow(o, 0, k)
           u == SubSeq(w, 1, k)
<1>0. XOF(mo, m, 0, n) = w /\ XOF(mo, m, 0, k) = v
  BY DEF XOF
<1>1. /\ w \in Seq(S) /\ Len(w) = n
      /\ \A i \in 1..n : w[i] = OutputByte(o, 0 + i - 1)
  <2> HIDE DEF o
  <2> QED BY WindowIsSeq, Zenon
<1>2. /\ v \in Seq(S) /\ Len(v) = k
      /\ \A i \in 1..k : v[i] = OutputByte(o, 0 + i - 1)
  <2> HIDE DEF o
  <2> QED BY WindowIsSeq
<1>3. 1 \in Nat /\ 1 <= k + 1 /\ k - 1 + 1 = k
  OBVIOUS
<1> HIDE DEF o, S, w, v
<1>4. /\ u \in Seq(S) /\ Len(u) = k - 1 + 1
      /\ \A i \in 1..(k - 1 + 1) : u[i] = w[1 + i - 1]
  BY <1>1, <1>3, WindowFacts
<1> HIDE DEF u
<1>5. ASSUME NEW i \in 1..k PROVE u[i] = v[i]
  <2>1. i \in 1..n /\ i \in 1..(k - 1 + 1) /\ 1 + i - 1 = i
    OBVIOUS
  <2>2. QED
    BY <1>1, <1>2, <1>4, <2>1
<1>6. u = v
  BY <1>2, <1>3, <1>4, <1>5, SeqEqual
<1>7. QED
  BY <1>0, <1>6 DEF u

Right(r) ==
  /\ r.out = XOF(ModeOf(r.call), InputOf(r.call), 0, LenOf(r.call))
  /\ r.call.fn \in Tweakable => r.call \in TweakCalls
LEMMA HashIsRight ==
  ASSUME NEW x \in CallInputs
  PROVE  Right([call |-> [fn |-> "hash", input |-> x], out |-> Hash(x)])
<1> DEFINE c == [fn |-> "hash", input |-> x]
<1>1. ModeOf(c) = PlainMode /\ InputOf(c) = x /\ LenOf(c) = OutLen
      /\ c.fn \notin Tweakable
  BY DEF ModeOf, InputOf, LenOf, Tweakable
<1>2. OutLen \in Nat
  BY OperandFacts
<1>3. Hash(x) = XOF(PlainMode, x, 0, OutLen)
  BY <1>2, InitModes, OneShotOfOne DEF Hash
<1> HIDE DEF c
<1>4. QED
  BY <1>1, <1>3 DEF Right, c

LEMMA HashXofIsRight ==
  ASSUME NEW x \in CallInputs, NEW n \in CallOutLens
  PROVE  Right([call |-> [fn |-> "hash_xof", input |-> x, out_len |-> n],
                out |-> OneShot(InitPlain, <<x>>, n)])
<1> DEFINE c == [fn |-> "hash_xof", input |-> x, out_len |-> n]
           o == OneShot(InitPlain, <<x>>, n)
<1>1. ModeOf(c) = PlainMode /\ InputOf(c) = x /\ LenOf(c) = n
      /\ c.fn \notin Tweakable
  BY DEF ModeOf, InputOf, LenOf, Tweakable
<1>2. n \in Nat
  BY OperandFacts
<1>3. o = XOF(PlainMode, x, 0, n)
  BY <1>2, InitModes, OneShotOfOne
<1> HIDE DEF c, o
<1>4. QED
  BY <1>1, <1>3 DEF Right, c, o

LEMMA HashKeyedIsRight ==
  ASSUME NEW k \in CallKeys, NEW x \in CallInputs
  PROVE  Right([call |-> [fn |-> "hash_keyed", key |-> k, input |-> x],
                out |-> OneShot(InitKeyed(k), <<x>>, OutLen)])
<1> DEFINE c == [fn |-> "hash_keyed", key |-> k, input |-> x]
           o == OneShot(InitKeyed(k), <<x>>, OutLen)
<1>1. ModeOf(c) = KeyedMode(k) /\ InputOf(c) = x /\ LenOf(c) = OutLen
      /\ c.fn \notin Tweakable
  BY DEF ModeOf, InputOf, LenOf, Tweakable
<1>2. OutLen \in Nat
  BY OperandFacts
<1>3. o = XOF(KeyedMode(k), x, 0, OutLen)
  BY <1>2, InitModes, OneShotOfOne
<1> HIDE DEF c, o
<1>4. QED
  BY <1>1, <1>3 DEF Right, c, o

LEMMA DeriveKeyIsRight ==
  ASSUME NEW s \in CallContexts, NEW x \in CallInputs, NEW n \in CallOutLens
  PROVE  Right([call |-> [fn |-> "derive_key", context |-> s, input |-> x,
                          out_len |-> n],
                out |-> OneShot(InitDeriveKey(s), <<x>>, n)])
<1> DEFINE c == [fn |-> "derive_key", context |-> s, input |-> x, out_len |-> n]
           o == OneShot(InitDeriveKey(s), <<x>>, n)
<1>1. ModeOf(c) = DeriveMode(s) /\ InputOf(c) = x /\ LenOf(c) = n
      /\ c.fn \notin Tweakable
  BY DEF ModeOf, InputOf, LenOf, Tweakable
<1>2. n \in Nat
  BY OperandFacts
<1>3. o = XOF(DeriveMode(s), x, 0, n)
  BY <1>2, InitModes, OneShotOfOne
<1> HIDE DEF c, o
<1>4. QED
  BY <1>1, <1>3 DEF Right, c, o

LEMMA ShortHashIsRight ==
  ASSUME NEW q \in {2, 3, 4}, NEW x \in CallInputs
  PROVE  Right([call |-> [fn |-> "short_hash", quarters |-> q, input |-> x],
                out |-> SubSeq(Hash(x), 1, (q * OutLen) \div 4)])
<1> DEFINE c == [fn |-> "short_hash", quarters |-> q, input |-> x]
           n == (q * OutLen) \div 4
           o == SubSeq(Hash(x), 1, n)
<1>1. ModeOf(c) = PlainMode /\ InputOf(c) = x /\ LenOf(c) = n
      /\ c.fn \notin Tweakable
  BY DEF ModeOf, InputOf, LenOf, Tweakable
<1>2. OutLen \in Nat
  BY OperandFacts
<1>3. n \in Nat /\ n <= OutLen
  <2>1. CASE q = 2
    BY <1>2, <2>1
  <2>2. CASE q = 3
    BY <1>2, <2>2
  <2>3. CASE q = 4
    BY <1>2, <2>3
  <2>4. QED
    BY <2>1, <2>2, <2>3
<1>4. Hash(x) = XOF(PlainMode, x, 0, OutLen)
  BY <1>2, InitModes, OneShotOfOne DEF Hash
<1> HIDE DEF n
<1>5. SubSeq(XOF(PlainMode, x, 0, OutLen), 1, n) = XOF(PlainMode, x, 0, n)
  BY <1>2, <1>3, PrefixOfOutput
<1>6. o = XOF(PlainMode, x, 0, n)
  BY <1>4, <1>5
<1> HIDE DEF c, o
<1>7. QED
  BY <1>1, <1>6 DEF Right, c, o, n

LEMMA TweakAnswers ==
  ASSUME NEW c \in TweakCalls, NEW p, NEW n, NEW len, ShapeIs(c, p, n, len),
         NEW init, init = InitHasher(ModeOf(c).key, ModeOf(c).flags),
         NEW out_len \in Nat, LenOf(c) = out_len
  PROVE  Right([call |-> c, out |-> OneShot(init, p, out_len)])
<1> DEFINE mo == ModeOf(c)
           o == OneShot(init, p, out_len)
<1>1. /\ IsPieces(p, n) /\ n \in Nat /\ n > 0
      /\ InputOf(c) = FlattenSeq(p)
      /\ InputOf(c) \in Seq(Nat) /\ Len(InputOf(c)) <= MaxCallLen
  BY DEF ShapeIs, StartsWith
<1>2. IsMessage(FlattenSeq(p))
  BY <1>1 DEF IsMessage
<1>3. init = InitHasher(mo.key, mo.flags)
  OBVIOUS
<1> HIDE DEF mo
<1>4. o = XOF(mo, FlattenSeq(p), 0, out_len)
  BY <1>1, <1>2, <1>3, OneShotIs
<1> HIDE DEF o
<1>5. QED
  BY <1>1, <1>4 DEF Right, mo, o

LEMMA PrfIsRight ==
  ASSUME NEW k \in CallKeys, NEW a \in Addresses, NEW n \in CallOutLens
  PROVE  Right([call |-> [fn |-> "prf", key |-> k, addr |-> a, out_len |-> n],
                out |-> OneShot(InitKeyed(k), <<HBS_CONTEXT_PRF, a>>, n)])
<1> DEFINE c == [fn |-> "prf", key |-> k, addr |-> a, out_len |-> n]
           p == <<HBS_CONTEXT_PRF, a>>
<1>1. c \in PrfCalls /\ c.addr = a
  BY DEF PrfCalls
<1>2. ModeOf(c) = KeyedMode(k) /\ LenOf(c) = n /\ n \in Nat
  BY OperandFacts DEF ModeOf, LenOf
<1> HIDE DEF c
<1>3. ShapeIs(c, p, 2, 4 + AddrLen)
  BY <1>1, PrfShape
<1>4. c \in TweakCalls
  BY <1>1 DEF TweakCalls
<1>5. InitKeyed(k) = InitHasher(ModeOf(c).key, ModeOf(c).flags)
  BY <1>2, InitModes
<1> HIDE DEF p
<1>6. Right([call |-> c, out |-> OneShot(InitKeyed(k), p, n)])
  BY <1>2, <1>3, <1>4, <1>5, TweakAnswers
<1>7. QED
  BY <1>6 DEF c, p
LEMMA PrfMsgIsRight ==
  ASSUME NEW k \in CallKeys, NEW v \in Values, NEW m \in Messages,
         NEW n \in CallOutLens
  PROVE  Right([call |-> [fn |-> "prf_msg", key |-> k, opt_rand |-> v, message |-> m,
                          out_len |-> n],
                out |-> OneShot(InitKeyed(k), <<HBS_CONTEXT_PRF_MSG, v, m>>, n)])
<1> DEFINE c == [fn |-> "prf_msg", key |-> k, opt_rand |-> v, message |-> m,
                          out_len |-> n]
           p == <<HBS_CONTEXT_PRF_MSG, v, m>>
<1>1. c \in PrfMsgCalls /\ c.opt_rand = v /\ c.message = m
  BY DEF PrfMsgCalls
<1>2. ModeOf(c) = KeyedMode(k) /\ LenOf(c) = n /\ n \in Nat
  BY OperandFacts DEF ModeOf, LenOf
<1> HIDE DEF c
<1>3. ShapeIs(c, p, 3, 7 + OutLen + Len(m))
  BY <1>1, PrfMsgShape
<1>4. c \in TweakCalls
  BY <1>1 DEF TweakCalls
<1>5. InitKeyed(k) = InitHasher(ModeOf(c).key, ModeOf(c).flags)
  BY <1>2, InitModes
<1> HIDE DEF p
<1>6. Right([call |-> c, out |-> OneShot(InitKeyed(k), p, n)])
  BY <1>2, <1>3, <1>4, <1>5, TweakAnswers
<1>7. QED
  BY <1>6 DEF c, p

LEMMA HIsRight ==
  ASSUME NEW s \in Values, NEW a \in Addresses, NEW l \in Values,
         NEW r \in Values
  PROVE  Right([call |-> [fn |-> "h", pub_seed |-> s, addr |-> a, left |-> l,
                          right |-> r],
                out |-> OneShot(InitPlain, <<HBS_CONTEXT_H, s, a, l, r>>, OutLen)])
<1> DEFINE c == [fn |-> "h", pub_seed |-> s, addr |-> a, left |-> l,
                          right |-> r]
           p == <<HBS_CONTEXT_H, s, a, l, r>>
<1>1. c \in HCalls /\ c.pub_seed = s /\ c.addr = a
      /\ c.left = l /\ c.right = r
  BY DEF HCalls
<1>2. ModeOf(c) = PlainMode /\ LenOf(c) = OutLen /\ OutLen \in Nat
  BY OperandFacts DEF ModeOf, LenOf
<1> HIDE DEF c
<1>3. ShapeIs(c, p, 5, 2 + OutLen + AddrLen + OutLen + OutLen)
  BY <1>1, HShape
<1>4. c \in TweakCalls
  BY <1>1 DEF TweakCalls
<1>5. InitPlain = InitHasher(ModeOf(c).key, ModeOf(c).flags)
  BY <1>2, InitModes
<1> HIDE DEF p
<1>6. Right([call |-> c, out |-> OneShot(InitPlain, p, OutLen)])
  BY <1>2, <1>3, <1>4, <1>5, TweakAnswers
<1>7. QED
  BY <1>6 DEF c, p

LEMMA FIsRight ==
  ASSUME NEW s \in Values, NEW a \in Addresses, NEW v \in Values
  PROVE  Right([call |-> [fn |-> "f", pub_seed |-> s, addr |-> a, input |-> v],
                out |-> OneShot(InitPlain, <<HBS_CONTEXT_F, s, a, v>>, OutLen)])
<1> DEFINE c == [fn |-> "f", pub_seed |-> s, addr |-> a, input |-> v]
           p == <<HBS_CONTEXT_F, s, a, v>>
<1>1. c \in FCalls /\ c.pub_seed = s /\ c.addr = a /\ c.input = v
  BY DEF FCalls
<1>2. ModeOf(c) = PlainMode /\ LenOf(c) = OutLen /\ OutLen \in Nat
  BY OperandFacts DEF ModeOf, LenOf
<1> HIDE DEF c
<1>3. ShapeIs(c, p, 4, 2 + OutLen + AddrLen + OutLen)
  BY <1>1, FShape
<1>4. c \in TweakCalls
  BY <1>1 DEF TweakCalls
<1>5. InitPlain = InitHasher(ModeOf(c).key, ModeOf(c).flags)
  BY <1>2, InitModes
<1> HIDE DEF p
<1>6. Right([call |-> c, out |-> OneShot(InitPlain, p, OutLen)])
  BY <1>2, <1>3, <1>4, <1>5, TweakAnswers
<1>7. QED
  BY <1>6 DEF c, p

LEMMA TIsRight ==
  ASSUME NEW s \in Values, NEW a \in Addresses, NEW b \in BlockLists
  PROVE  Right([call |-> [fn |-> "t", pub_seed |-> s, addr |-> a, blocks |-> b],
                out |-> OneShot(InitPlain, <<HBS_CONTEXT_T, s, a, FlattenSeq(b)>>, OutLen)])
<1> DEFINE c == [fn |-> "t", pub_seed |-> s, addr |-> a, blocks |-> b]
           p == <<HBS_CONTEXT_T, s, a, FlattenSeq(b)>>
<1>1. c \in TCalls /\ c.pub_seed = s /\ c.addr = a /\ c.blocks = b
  BY DEF TCalls
<1>2. ModeOf(c) = PlainMode /\ LenOf(c) = OutLen /\ OutLen \in Nat
  BY OperandFacts DEF ModeOf, LenOf
<1> HIDE DEF c
<1>3. ShapeIs(c, p, 4, 2 + OutLen + AddrLen + Len(b) * OutLen)
  BY <1>1, TShape
<1>4. c \in TweakCalls
  BY <1>1 DEF TweakCalls
<1>5. InitPlain = InitHasher(ModeOf(c).key, ModeOf(c).flags)
  BY <1>2, InitModes
<1> HIDE DEF p
<1>6. Right([call |-> c, out |-> OneShot(InitPlain, p, OutLen)])
  BY <1>2, <1>3, <1>4, <1>5, TweakAnswers
<1>7. QED
  BY <1>6 DEF c, p

LEMMA HMsgIsRight ==
  ASSUME NEW r \in Values, NEW s \in Values, NEW t \in Values,
         NEW m \in Messages, NEW n \in CallOutLens
  PROVE  Right([call |-> [fn |-> "h_msg", r |-> r, pub_seed |-> s, pub_root |-> t,
                          message |-> m, out_len |-> n],
                out |-> OneShot(InitPlain, <<HBS_CONTEXT_H_MSG, r, s, t, m>>, n)])
<1> DEFINE c == [fn |-> "h_msg", r |-> r, pub_seed |-> s, pub_root |-> t,
                          message |-> m, out_len |-> n]
           p == <<HBS_CONTEXT_H_MSG, r, s, t, m>>
<1>1. c \in HMsgCalls /\ c.r = r /\ c.pub_seed = s /\ c.pub_root = t
      /\ c.message = m
  BY DEF HMsgCalls
<1>2. ModeOf(c) = PlainMode /\ LenOf(c) = n /\ n \in Nat
  BY OperandFacts DEF ModeOf, LenOf
<1> HIDE DEF c
<1>3. ShapeIs(c, p, 5, 5 + OutLen + OutLen + OutLen + Len(m))
  BY <1>1, HMsgShape
<1>4. c \in TweakCalls
  BY <1>1 DEF TweakCalls
<1>5. InitPlain = InitHasher(ModeOf(c).key, ModeOf(c).flags)
  BY <1>2, InitModes
<1> HIDE DEF p
<1>6. Right([call |-> c, out |-> OneShot(InitPlain, p, n)])
  BY <1>2, <1>3, <1>4, <1>5, TweakAnswers
<1>7. QED
  BY <1>6 DEF c, p

(* What both calls of the caller gave is right.                            *)
CallsRight ==
  /\ current # NoCall => Right(current)
  /\ previous # NoCall => Right(previous) /\ Right(current)

LEMMA AnswerIsRight ==
  ASSUME NEW c, NEW out, Answer(c, out), Right([call |-> c, out |-> out]),
         CallsRight
  PROVE  CallsRight'
<1>1. current' = [call |-> c, out |-> out] /\ previous' = current
  BY DEF Answer
<1>2. Right(current')
  BY <1>1
<1>3. previous' # NoCall => Right(previous')
  BY <1>1 DEF CallsRight
<1>4. QED
  BY <1>2, <1>3 DEF CallsRight

LEMMA CallStaysRight ==
  ASSUME CallsRight, HashCallNext
  PROVE  CallsRight'
<1>1. ASSUME NEW x \in CallInputs, HashCall(x) PROVE CallsRight'
  BY <1>1, HashIsRight, AnswerIsRight, Zenon DEF HashCall
<1>2. ASSUME NEW x \in CallInputs, NEW n \in CallOutLens, HashXof(x, n)
      PROVE  CallsRight'
  BY <1>2, HashXofIsRight, AnswerIsRight, Zenon DEF HashXof
<1>3. ASSUME NEW k \in CallKeys, NEW x \in CallInputs, HashKeyed(k, x)
      PROVE  CallsRight'
  BY <1>3, HashKeyedIsRight, AnswerIsRight, Zenon DEF HashKeyed
<1>4. ASSUME NEW s \in CallContexts, NEW x \in CallInputs,
             NEW n \in CallOutLens, DeriveKey(s, x, n)
      PROVE  CallsRight'
  BY <1>4, DeriveKeyIsRight, AnswerIsRight, Zenon DEF DeriveKey
<1>5. ASSUME NEW q \in {2, 3, 4}, NEW x \in CallInputs, ShortHash(q, x)
      PROVE  CallsRight'
  BY <1>5, ShortHashIsRight, AnswerIsRight, Zenon DEF ShortHash
<1>6. ASSUME NEW k \in CallKeys, NEW a \in Addresses, NEW n \in CallOutLens,
             HbsPrf(k, a, n)
      PROVE  CallsRight'
  BY <1>6, PrfIsRight, AnswerIsRight, Zenon DEF HbsPrf
<1>7. ASSUME NEW k \in CallKeys, NEW v \in Values, NEW m \in Messages,
             NEW n \in CallOutLens, HbsPrfMsg(k, v, m, n)
      PROVE  CallsRight'
  BY <1>7, PrfMsgIsRight, AnswerIsRight, Zenon DEF HbsPrfMsg
<1>8. ASSUME NEW s \in Values, NEW l \in Values, NEW r \in Values,
             NEW a \in Addresses, HbsH(s, a, l, r)
      PROVE  CallsRight'
  BY <1>8, HIsRight, AnswerIsRight, Zenon DEF HbsH
<1>9. ASSUME NEW s \in Values, NEW v \in Values, NEW a \in Addresses,
             HbsF(s, a, v)
      PROVE  CallsRight'
  BY <1>9, FIsRight, AnswerIsRight, Zenon DEF HbsF
<1>10. ASSUME NEW s \in Values, NEW a \in Addresses, NEW n \in 0..MaxBlocks,
              NEW blocks \in [1..n -> Values], HbsT(s, a, blocks)
       PROVE  CallsRight'
  <2>1. blocks \in BlockLists
    BY DEF BlockLists
  <2>2. QED
    BY <1>10, <2>1, TIsRight, AnswerIsRight, Zenon DEF HbsT
<1>11. ASSUME NEW r \in Values, NEW s \in Values, NEW t \in Values,
              NEW m \in Messages, NEW n \in CallOutLens,
              HbsHMsg(r, s, t, m, n)
       PROVE  CallsRight'
  BY <1>11, HMsgIsRight, AnswerIsRight, Zenon DEF HbsHMsg
<1>12. QED
  BY <1>1, <1>2, <1>3, <1>4, <1>5, <1>6, <1>7, <1>8, <1>9, <1>10, <1>11
  DEF HashCallNext

LEMMA CallsInvariant == HashCallSpec => []CallsRight
<1>1. HashCallInit => CallsRight
  BY DEF HashCallInit, CallsRight
<1>2. CallsRight /\ [HashCallNext]_hashVars => CallsRight'
  <2> SUFFICES ASSUME CallsRight, [HashCallNext]_hashVars PROVE CallsRight'
    OBVIOUS
  <2>1. CASE HashCallNext
    BY <2>1, CallStaysRight
  <2>2. CASE UNCHANGED hashVars
    BY <2>2 DEF hashVars, CallsRight, Right, ModeOf, InputOf, LenOf
  <2>3. QED
    BY <2>1, <2>2
<1>3. QED
  BY <1>1, <1>2, PTL DEF HashCallSpec

(* The convenience functions, the tweakable hashes and the shorter output  *)
(* modes (blake4.c) give the tree hash of the concatenation of what they   *)
(* are passed, under their mode, for operands, messages and numbers of     *)
(* blocks of any size: init, update per piece and finalize agree on it.    *)
THEOREM CallsHashInputs == HashCallSpec => []CallsHashTheirInput
<1>1. CallsRight => CallsHashTheirInput
  BY DEF CallsRight, Right, CallsHashTheirInput
<1>2. QED
  BY <1>1, CallsInvariant, PTL
-----------------------------------------------------------------------------
(* What the tweakable hashes tell apart.                                   *)

(* The first byte of an output names mode and input.                       *)
LEMMA FirstByte ==
  ASSUME NEW mo, NEW m, NEW n \in Nat, NEW k \in Nat, k > 0, k <= n
  PROVE  SubSeq(XOF(mo, m, 0, n), 1, k)[1] = <<RootBlock(Root(mo, m), 0), 0>>
<1> DEFINE o == Root(mo, m)
<1>1. SubSeq(XOF(mo, m, 0, n), 1, k) = OutputWindow(o, 0, k)
  BY PrefixOfOutput DEF XOF
<1> HIDE DEF o
<1>2. 1 \in 1..k /\ 0 + 1 - 1 = 0
  OBVIOUS
<1>3. OutputWindow(o, 0, k)[1] = OutputByte(o, 0)
  <2>1. \A i \in 1..k : OutputWindow(o, 0, k)[i] = OutputByte(o, 0 + i - 1)
    BY WindowIsSeq, Zenon
  <2>2. OutputWindow(o, 0, k)[1] = OutputByte(o, 0 + 1 - 1)
    BY <1>2, <2>1
  <2>3. QED
    BY <1>2, <2>2
<1>4. 0 \div BlockLen = 0 /\ 0 % BlockLen = 0
  BY LengthAssumption
<1>5. OutputByte(o, 0) = <<RootBlock(o, 0), 0>>
  BY <1>4 DEF OutputByte
<1>6. QED
  BY <1>1, <1>3, <1>5 DEF o

(* The second byte of an input is the first letter of the function's name. *)
Starts(c, letter) ==
  /\ InputOf(c) \in Seq(Nat) /\ Len(InputOf(c)) = LengthOf(c)
  /\ InputOf(c)[2] = letter

Begins(p, letter) == 2 \in 1..Len(p[1]) /\ p[1][2] = letter

LEMMA LetterIs ==
  ASSUME NEW c, NEW p, NEW n, NEW len, ShapeIs(c, p, n, len),
         NEW letter, Begins(p, letter)
  PROVE  Starts(c, letter)
<1>1. \A i \in 1..Len(p[1]) : InputOf(c)[i] = p[1][i]
  BY DEF ShapeIs, StartsWith
<1>2. InputOf(c)[2] = letter
  BY <1>1 DEF Begins
<1>3. QED
  BY <1>2 DEF Starts, ShapeIs, StartsWith

LEMMA Letters ==
  /\ \A c \in PrfCalls : Starts(c, 80)
  /\ \A c \in PrfMsgCalls : Starts(c, 80)
  /\ \A c \in HCalls : Starts(c, 72)
  /\ \A c \in FCalls : Starts(c, 70)
  /\ \A c \in TCalls : Starts(c, 84)
  /\ \A c \in HMsgCalls : Starts(c, 72)
<1>1. ASSUME NEW c \in PrfCalls PROVE Starts(c, 80)
  <2> DEFINE p == <<HBS_CONTEXT_PRF, c.addr>>
             len == 4 + AddrLen
             a == HBS_CONTEXT_PRF
  <2>1. p[1] = a /\ ShapeIs(c, p, 2, len)
    BY PrfShape
  <2>2. a[2] = 80
    BY DEF HBS_CONTEXT_PRF
  <2>3. 2 \in 1..Len(a)
    BY ContextFacts
  <2> HIDE DEF p, len, a
  <2>4. Begins(p, 80)
    BY <2>1, <2>2, <2>3, Zenon DEF Begins
  <2>5. QED
    BY <2>1, <2>4, LetterIs, Zenon
<1>2. ASSUME NEW c \in PrfMsgCalls PROVE Starts(c, 80)
  <2> DEFINE p == <<HBS_CONTEXT_PRF_MSG, c.opt_rand, c.message>>
             len == 7 + OutLen + Len(c.message)
             a == HBS_CONTEXT_PRF_MSG
  <2>1. p[1] = a /\ ShapeIs(c, p, 3, len)
    BY PrfMsgShape
  <2>2. a[2] = 80
    BY DEF HBS_CONTEXT_PRF_MSG
  <2>3. 2 \in 1..Len(a)
    BY ContextFacts
  <2> HIDE DEF p, len, a
  <2>4. Begins(p, 80)
    BY <2>1, <2>2, <2>3, Zenon DEF Begins
  <2>5. QED
    BY <2>1, <2>4, LetterIs, Zenon
<1>3. ASSUME NEW c \in HCalls PROVE Starts(c, 72)
  <2> DEFINE p == <<HBS_CONTEXT_H, c.pub_seed, c.addr, c.left, c.right>>
             len == 2 + OutLen + AddrLen + OutLen + OutLen
             a == HBS_CONTEXT_H
  <2>1. p[1] = a /\ ShapeIs(c, p, 5, len)
    BY HShape
  <2>2. a[2] = 72
    BY DEF HBS_CONTEXT_H
  <2>3. 2 \in 1..Len(a)
    BY ContextFacts
  <2> HIDE DEF p, len, a
  <2>4. Begins(p, 72)
    BY <2>1, <2>2, <2>3, Zenon DEF Begins
  <2>5. QED
    BY <2>1, <2>4, LetterIs, Zenon
<1>4. ASSUME NEW c \in FCalls PROVE Starts(c, 70)
  <2> DEFINE p == <<HBS_CONTEXT_F, c.pub_seed, c.addr, c.input>>
             len == 2 + OutLen + AddrLen + OutLen
             a == HBS_CONTEXT_F
  <2>1. p[1] = a /\ ShapeIs(c, p, 4, len)
    BY FShape
  <2>2. a[2] = 70
    BY DEF HBS_CONTEXT_F
  <2>3. 2 \in 1..Len(a)
    BY ContextFacts
  <2> HIDE DEF p, len, a
  <2>4. Begins(p, 70)
    BY <2>1, <2>2, <2>3, Zenon DEF Begins
  <2>5. QED
    BY <2>1, <2>4, LetterIs, Zenon
<1>5. ASSUME NEW c \in TCalls PROVE Starts(c, 84)
  <2> DEFINE p == <<HBS_CONTEXT_T, c.pub_seed, c.addr, FlattenSeq(c.blocks)>>
             len == 2 + OutLen + AddrLen + Len(c.blocks) * OutLen
             a == HBS_CONTEXT_T
  <2>1. p[1] = a /\ ShapeIs(c, p, 4, len)
    BY TShape
  <2>2. a[2] = 84
    BY DEF HBS_CONTEXT_T
  <2>3. 2 \in 1..Len(a)
    BY ContextFacts
  <2> HIDE DEF p, len, a
  <2>4. Begins(p, 84)
    BY <2>1, <2>2, <2>3, Zenon DEF Begins
  <2>5. QED
    BY <2>1, <2>4, LetterIs, Zenon
<1>6. ASSUME NEW c \in HMsgCalls PROVE Starts(c, 72)
  <2> DEFINE p == <<HBS_CONTEXT_H_MSG, c.r, c.pub_seed, c.pub_root, c.message>>
             len == 5 + OutLen + OutLen + OutLen + Len(c.message)
             a == HBS_CONTEXT_H_MSG
  <2>1. p[1] = a /\ ShapeIs(c, p, 5, len)
    BY HMsgShape
  <2>2. a[2] = 72
    BY DEF HBS_CONTEXT_H_MSG
  <2>3. 2 \in 1..Len(a)
    BY ContextFacts
  <2> HIDE DEF p, len, a
  <2>4. Begins(p, 72)
    BY <2>1, <2>2, <2>3, Zenon DEF Begins
  <2>5. QED
    BY <2>1, <2>4, LetterIs, Zenon
<1>7. QED
  BY <1>1, <1>2, <1>3, <1>4, <1>5, <1>6

(* Inputs of the same shape have the same parts.                           *)
SameLengths(p, q, n) == \A i \in 1..n : Len(p[i]) = Len(q[i])

Alike(c, d, p, q, n, len, wid) ==
  /\ ShapeIs(c, p, n, len) /\ ShapeIs(d, q, n, wid)
  /\ InputOf(c) = InputOf(d) /\ SameLengths(p, q, n)

LEMMA PartsSeparate ==
  ASSUME NEW c, NEW d, NEW p, NEW q, NEW n, NEW len, NEW wid,
         Alike(c, d, p, q, n, len, wid)
  PROVE  p = q
<1>1. SameShape(p, q, Nat, n)
  BY DEF Alike, ShapeIs, IsPieces, SameShape, SameLengths
<1>2. n \in Nat /\ FlattenSeq(p) = FlattenSeq(q)
  BY DEF Alike, ShapeIs
<1>3. QED
  BY <1>1, <1>2, FlattenSeparates

LEMMA KeysSeparate ==
  ASSUME NEW c, NEW d, c.fn \in {"prf", "prf_msg"}, d.fn \in {"prf", "prf_msg"},
         ModeOf(c) = ModeOf(d)
  PROVE  c.key = d.key
<1>1. ModeOf(c) = KeyedMode(c.key) /\ ModeOf(d) = KeyedMode(d.key)
  BY DEF ModeOf
<1>2. \A k : KeyedMode(k).key = Key(k)
  BY DEF KeyedMode
<1>3. Key(c.key) = Key(d.key)
  BY <1>1, <1>2, Zenon
<1>4. QED
  BY <1>3 DEF Key

LEMMA PrfSeparates ==
  ASSUME NEW c \in PrfCalls, NEW d \in PrfCalls, InputOf(c) = InputOf(d), ModeOf(c) = ModeOf(d)
  PROVE  SameCall(c, d)
<1> DEFINE p == <<HBS_CONTEXT_PRF, c.addr>>
           q == <<HBS_CONTEXT_PRF, d.addr>>
           len == 4 + AddrLen
           wid == 4 + AddrLen
<1>1. ShapeIs(c, p, 2, len) /\ ShapeIs(d, q, 2, wid)
  BY PrfShape
<1>2. c.fn = "prf" /\ d.fn = "prf"
      /\ c.addr \in Addresses /\ d.addr \in Addresses
  BY DEF PrfCalls
<1>3. len = wid
  BY <1>1 DEF ShapeIs, StartsWith
<1>5. SameLengths(p, q, 2)
  <2>1. Len(c.addr) = Len(d.addr)
    BY <1>2, OperandFacts
  <2>2. Len(p[1]) = Len(q[1])
        /\ Len(p[2]) = Len(q[2])
    BY <2>1
  <2>3. \A i \in 1..2 : i = 1 \/ i = 2
    OBVIOUS
  <2> HIDE DEF p, q
  <2>4. QED
    BY <2>2, <2>3 DEF SameLengths
<1>6. p = q
  <2> HIDE DEF p, q, len, wid
  <2>1. Alike(c, d, p, q, 2, len, wid)
    BY <1>1, <1>5 DEF Alike
  <2>2. QED
    BY <2>1, PartsSeparate, Zenon
<1>7. c.addr = d.addr
  BY <1>6
<1>8. DOMAIN c = {"fn", "addr", "key", "out_len"}
      /\ DOMAIN d = {"fn", "addr", "key", "out_len"}
  BY DEF PrfCalls
<1>9. QED
  BY <1>2, <1>7, <1>8, KeysSeparate DEF SameCall

LEMMA PrfMsgSeparates ==
  ASSUME NEW c \in PrfMsgCalls, NEW d \in PrfMsgCalls, InputOf(c) = InputOf(d), ModeOf(c) = ModeOf(d)
  PROVE  SameCall(c, d)
<1> DEFINE p == <<HBS_CONTEXT_PRF_MSG, c.opt_rand, c.message>>
           q == <<HBS_CONTEXT_PRF_MSG, d.opt_rand, d.message>>
           len == 7 + OutLen + Len(c.message)
           wid == 7 + OutLen + Len(d.message)
<1>1. ShapeIs(c, p, 3, len) /\ ShapeIs(d, q, 3, wid)
  BY PrfMsgShape
<1>2. c.fn = "prf_msg" /\ d.fn = "prf_msg"
      /\ c.opt_rand \in Values /\ d.opt_rand \in Values
      /\ c.message \in Messages /\ d.message \in Messages
  BY DEF PrfMsgCalls
<1>3. len = wid
  BY <1>1 DEF ShapeIs, StartsWith
<1>4. Len(c.message) = Len(d.message)
  <2> DEFINE i == Len(c.message)
             j == Len(d.message)
  <2>1. i \in Nat /\ j \in Nat
    BY <1>2, OperandFacts
  <2>2. 7 + OutLen + i = 7 + OutLen + j
    BY <1>3
  <2> HIDE DEF i, j
  <2>3. i = j
    BY <2>1, <2>2, OperandFacts
  <2>4. QED
    BY <2>3 DEF i, j
<1>5. SameLengths(p, q, 3)
  <2>1. Len(c.opt_rand) = Len(d.opt_rand)
        /\ Len(c.message) = Len(d.message)
    BY <1>2, <1>4, OperandFacts
  <2>2. Len(p[1]) = Len(q[1])
        /\ Len(p[2]) = Len(q[2])
        /\ Len(p[3]) = Len(q[3])
    BY <2>1
  <2>3. \A i \in 1..3 : i = 1 \/ i = 2 \/ i = 3
    OBVIOUS
  <2> HIDE DEF p, q
  <2>4. QED
    BY <2>2, <2>3 DEF SameLengths
<1>6. p = q
  <2> HIDE DEF p, q, len, wid
  <2>1. Alike(c, d, p, q, 3, len, wid)
    BY <1>1, <1>5 DEF Alike
  <2>2. QED
    BY <2>1, PartsSeparate, Zenon
<1>7. c.opt_rand = d.opt_rand
      /\ c.message = d.message
  BY <1>6
<1>8. DOMAIN c = {"fn", "opt_rand", "message", "key", "out_len"}
      /\ DOMAIN d = {"fn", "opt_rand", "message", "key", "out_len"}
  BY DEF PrfMsgCalls
<1>9. QED
  BY <1>2, <1>7, <1>8, KeysSeparate DEF SameCall

LEMMA HSeparates ==
  ASSUME NEW c \in HCalls, NEW d \in HCalls, InputOf(c) = InputOf(d)
  PROVE  SameCall(c, d)
<1> DEFINE p == <<HBS_CONTEXT_H, c.pub_seed, c.addr, c.left, c.right>>
           q == <<HBS_CONTEXT_H, d.pub_seed, d.addr, d.left, d.right>>
           len == 2 + OutLen + AddrLen + OutLen + OutLen
           wid == 2 + OutLen + AddrLen + OutLen + OutLen
<1>1. ShapeIs(c, p, 5, len) /\ ShapeIs(d, q, 5, wid)
  BY HShape
<1>2. c.fn = "h" /\ d.fn = "h"
      /\ c.pub_seed \in Values /\ d.pub_seed \in Values
      /\ c.addr \in Addresses /\ d.addr \in Addresses
      /\ c.left \in Values /\ d.left \in Values
      /\ c.right \in Values /\ d.right \in Values
  BY DEF HCalls
<1>3. len = wid
  BY <1>1 DEF ShapeIs, StartsWith
<1>5. SameLengths(p, q, 5)
  <2>1. Len(c.pub_seed) = Len(d.pub_seed)
        /\ Len(c.addr) = Len(d.addr)
        /\ Len(c.left) = Len(d.left)
        /\ Len(c.right) = Len(d.right)
    BY <1>2, OperandFacts, Zenon
  <2>2. Len(p[1]) = Len(q[1])
        /\ Len(p[2]) = Len(q[2])
        /\ Len(p[3]) = Len(q[3])
        /\ Len(p[4]) = Len(q[4])
        /\ Len(p[5]) = Len(q[5])
    BY <2>1
  <2>3. \A i \in 1..5 : i = 1 \/ i = 2 \/ i = 3 \/ i = 4 \/ i = 5
    OBVIOUS
  <2> HIDE DEF p, q
  <2>4. QED
    BY <2>2, <2>3 DEF SameLengths
<1>6. p = q
  <2> HIDE DEF p, q, len, wid
  <2>1. Alike(c, d, p, q, 5, len, wid)
    BY <1>1, <1>5 DEF Alike
  <2>2. QED
    BY <2>1, PartsSeparate, Zenon
<1>7. c.pub_seed = d.pub_seed
      /\ c.addr = d.addr
      /\ c.left = d.left
      /\ c.right = d.right
  BY <1>6
<1>8. DOMAIN c = {"fn", "pub_seed", "addr", "left", "right"}
      /\ DOMAIN d = {"fn", "pub_seed", "addr", "left", "right"}
  BY DEF HCalls
<1>9. QED
  BY <1>2, <1>7, <1>8 DEF SameCall

LEMMA FSeparates ==
  ASSUME NEW c \in FCalls, NEW d \in FCalls, InputOf(c) = InputOf(d)
  PROVE  SameCall(c, d)
<1> DEFINE p == <<HBS_CONTEXT_F, c.pub_seed, c.addr, c.input>>
           q == <<HBS_CONTEXT_F, d.pub_seed, d.addr, d.input>>
           len == 2 + OutLen + AddrLen + OutLen
           wid == 2 + OutLen + AddrLen + OutLen
<1>1. ShapeIs(c, p, 4, len) /\ ShapeIs(d, q, 4, wid)
  BY FShape
<1>2. c.fn = "f" /\ d.fn = "f"
      /\ c.pub_seed \in Values /\ d.pub_seed \in Values
      /\ c.addr \in Addresses /\ d.addr \in Addresses
      /\ c.input \in Values /\ d.input \in Values
  BY DEF FCalls
<1>3. len = wid
  BY <1>1 DEF ShapeIs, StartsWith
<1>5. SameLengths(p, q, 4)
  <2>1. Len(c.pub_seed) = Len(d.pub_seed)
        /\ Len(c.addr) = Len(d.addr)
        /\ Len(c.input) = Len(d.input)
    BY <1>2, OperandFacts, Zenon
  <2>2. Len(p[1]) = Len(q[1])
        /\ Len(p[2]) = Len(q[2])
        /\ Len(p[3]) = Len(q[3])
        /\ Len(p[4]) = Len(q[4])
    BY <2>1
  <2>3. \A i \in 1..4 : i = 1 \/ i = 2 \/ i = 3 \/ i = 4
    OBVIOUS
  <2> HIDE DEF p, q
  <2>4. QED
    BY <2>2, <2>3 DEF SameLengths
<1>6. p = q
  <2> HIDE DEF p, q, len, wid
  <2>1. Alike(c, d, p, q, 4, len, wid)
    BY <1>1, <1>5 DEF Alike
  <2>2. QED
    BY <2>1, PartsSeparate, Zenon
<1>7. c.pub_seed = d.pub_seed
      /\ c.addr = d.addr
      /\ c.input = d.input
  BY <1>6
<1>8. DOMAIN c = {"fn", "pub_seed", "addr", "input"}
      /\ DOMAIN d = {"fn", "pub_seed", "addr", "input"}
  BY DEF FCalls
<1>9. QED
  BY <1>2, <1>7, <1>8 DEF SameCall

LEMMA TSeparates ==
  ASSUME NEW c \in TCalls, NEW d \in TCalls, InputOf(c) = InputOf(d)
  PROVE  SameCall(c, d)
<1> DEFINE p == <<HBS_CONTEXT_T, c.pub_seed, c.addr, FlattenSeq(c.blocks)>>
           q == <<HBS_CONTEXT_T, d.pub_seed, d.addr, FlattenSeq(d.blocks)>>
           len == 2 + OutLen + AddrLen + Len(c.blocks) * OutLen
           wid == 2 + OutLen + AddrLen + Len(d.blocks) * OutLen
<1>1. ShapeIs(c, p, 4, len) /\ ShapeIs(d, q, 4, wid)
  BY TShape
<1>2. c.fn = "t" /\ d.fn = "t"
      /\ c.pub_seed \in Values /\ d.pub_seed \in Values
      /\ c.addr \in Addresses /\ d.addr \in Addresses
      /\ c.blocks \in BlockLists /\ d.blocks \in BlockLists
  BY DEF TCalls
<1>3. len = wid
  BY <1>1 DEF ShapeIs, StartsWith
<1>4. Len(FlattenSeq(c.blocks)) = Len(FlattenSeq(d.blocks))
      /\ Len(c.blocks) = Len(d.blocks)
  <2> DEFINE i == Len(c.blocks)
             j == Len(d.blocks)
             u == i * OutLen
             v == j * OutLen
  <2>1. /\ Len(FlattenSeq(c.blocks)) = u /\ Len(FlattenSeq(d.blocks)) = v
        /\ i \in Nat /\ j \in Nat /\ u \in Nat /\ v \in Nat
    BY <1>2, BlockListFacts
  <2>2. 2 + OutLen + AddrLen + u = 2 + OutLen + AddrLen + v
    BY <1>3
  <2> HIDE DEF u, v
  <2>3. u = v
    BY <2>1, <2>2, OperandFacts
  <2>4. OutLen \in Nat \ {0}
    BY OperandFacts
  <2> HIDE DEF i, j
  <2>5. i = j
    <3>1. i * OutLen = j * OutLen
      BY <2>3 DEF u, v
    <3>2. QED
      BY <2>1, <2>4, <3>1
  <2>6. QED
    BY <2>1, <2>3, <2>5 DEF i, j
<1>5. SameLengths(p, q, 4)
  <2>1. Len(c.pub_seed) = Len(d.pub_seed)
        /\ Len(c.addr) = Len(d.addr)
        /\ Len(FlattenSeq(c.blocks)) = Len(FlattenSeq(d.blocks))
    BY <1>2, <1>4, OperandFacts
  <2>2. Len(p[1]) = Len(q[1])
        /\ Len(p[2]) = Len(q[2])
        /\ Len(p[3]) = Len(q[3])
        /\ Len(p[4]) = Len(q[4])
    BY <2>1
  <2>3. \A i \in 1..4 : i = 1 \/ i = 2 \/ i = 3 \/ i = 4
    OBVIOUS
  <2> HIDE DEF p, q
  <2>4. QED
    BY <2>2, <2>3 DEF SameLengths
<1>6. p = q
  <2> HIDE DEF p, q, len, wid
  <2>1. Alike(c, d, p, q, 4, len, wid)
    BY <1>1, <1>5 DEF Alike
  <2>2. QED
    BY <2>1, PartsSeparate, Zenon
<1>7. c.pub_seed = d.pub_seed
      /\ c.addr = d.addr
      /\ FlattenSeq(c.blocks) = FlattenSeq(d.blocks)
  BY <1>6
<1>10. c.blocks = d.blocks
  <2> DEFINE x == c.blocks
             y == d.blocks
             k == Len(x)
  <2>1. /\ IsBlocks(x, Nat, k, OutLen) /\ IsBlocks(y, Nat, k, OutLen)
        /\ k \in Nat
    BY <1>2, <1>4, BlockListFacts
  <2> HIDE DEF x, y, k
  <2>2. SameShape(x, y, Nat, k)
    BY <2>1 DEF IsBlocks, SameShape
  <2>3. FlattenSeq(x) = FlattenSeq(y)
    BY <1>7 DEF x, y
  <2>4. x = y
    BY <2>1, <2>2, <2>3, FlattenSeparates
  <2>5. QED
    BY <2>4 DEF x, y
<1>8. DOMAIN c = {"fn", "pub_seed", "addr", "blocks"}
      /\ DOMAIN d = {"fn", "pub_seed", "addr", "blocks"}
  BY DEF TCalls
<1>9. QED
  BY <1>2, <1>7, <1>8, <1>10 DEF SameCall

LEMMA HMsgSeparates ==
  ASSUME NEW c \in HMsgCalls, NEW d \in HMsgCalls, InputOf(c) = InputOf(d)
  PROVE  SameCall(c, d)
<1> DEFINE p == <<HBS_CONTEXT_H_MSG, c.r, c.pub_seed, c.pub_root, c.message>>
           q == <<HBS_CONTEXT_H_MSG, d.r, d.pub_seed, d.pub_root, d.message>>
           len == 5 + OutLen + OutLen + OutLen + Len(c.message)
           wid == 5 + OutLen + OutLen + OutLen + Len(d.message)
<1>1. ShapeIs(c, p, 5, len) /\ ShapeIs(d, q, 5, wid)
  BY HMsgShape
<1>2. c.fn = "h_msg" /\ d.fn = "h_msg"
      /\ c.r \in Values /\ d.r \in Values
      /\ c.pub_seed \in Values /\ d.pub_seed \in Values
      /\ c.pub_root \in Values /\ d.pub_root \in Values
      /\ c.message \in Messages /\ d.message \in Messages
  BY DEF HMsgCalls
<1>3. len = wid
  BY <1>1 DEF ShapeIs, StartsWith
<1>4. Len(c.message) = Len(d.message)
  <2> DEFINE i == Len(c.message)
             j == Len(d.message)
  <2>1. i \in Nat /\ j \in Nat
    BY <1>2, OperandFacts
  <2>2. 5 + OutLen + OutLen + OutLen + i = 5 + OutLen + OutLen + OutLen + j
    BY <1>3
  <2> HIDE DEF i, j
  <2>3. i = j
    BY <2>1, <2>2, OperandFacts
  <2>4. QED
    BY <2>3 DEF i, j
<1>5. SameLengths(p, q, 5)
  <2>1. Len(c.r) = Len(d.r)
        /\ Len(c.pub_seed) = Len(d.pub_seed)
        /\ Len(c.pub_root) = Len(d.pub_root)
        /\ Len(c.message) = Len(d.message)
    BY <1>2, <1>4, OperandFacts, Zenon
  <2>2. Len(p[1]) = Len(q[1])
        /\ Len(p[2]) = Len(q[2])
        /\ Len(p[3]) = Len(q[3])
        /\ Len(p[4]) = Len(q[4])
        /\ Len(p[5]) = Len(q[5])
    BY <2>1
  <2>3. \A i \in 1..5 : i = 1 \/ i = 2 \/ i = 3 \/ i = 4 \/ i = 5
    OBVIOUS
  <2> HIDE DEF p, q
  <2>4. QED
    BY <2>2, <2>3 DEF SameLengths
<1>6. p = q
  <2> HIDE DEF p, q, len, wid
  <2>1. Alike(c, d, p, q, 5, len, wid)
    BY <1>1, <1>5 DEF Alike
  <2>2. QED
    BY <2>1, PartsSeparate, Zenon
<1>7. c.r = d.r
      /\ c.pub_seed = d.pub_seed
      /\ c.pub_root = d.pub_root
      /\ c.message = d.message
  BY <1>6
<1>8. DOMAIN c = {"fn", "r", "pub_seed", "pub_root", "message", "out_len"}
      /\ DOMAIN d = {"fn", "r", "pub_seed", "pub_root", "message", "out_len"}
  BY DEF HMsgCalls
<1>9. QED
  BY <1>2, <1>7, <1>8 DEF SameCall
(* A PRFmsg input is longer than a PRF input.                              *)
LEMMA PrfIsNoPrfMsg ==
  ASSUME NEW c \in PrfCalls, NEW d \in PrfMsgCalls
  PROVE  InputOf(c) # InputOf(d)
<1> DEFINE k == Len(d.message)
           p == <<HBS_CONTEXT_PRF, c.addr>>
           q == <<HBS_CONTEXT_PRF_MSG, d.opt_rand, d.message>>
           len == 4 + AddrLen
           wid == 7 + OutLen + k
<1>1. ShapeIs(c, p, 2, len) /\ ShapeIs(d, q, 3, wid)
  BY PrfShape, PrfMsgShape
<1>2. k \in Nat
  <2>1. d.message \in Messages
    BY DEF PrfMsgCalls
  <2>2. QED
    BY <2>1, OperandFacts
<1> HIDE DEF k
<1>3. len # wid
  BY <1>2, OperandFacts
<1> HIDE DEF p, q, len, wid
<1>4. Len(InputOf(c)) = len /\ Len(InputOf(d)) = wid
  BY <1>1 DEF ShapeIs, StartsWith
<1>5. QED
  BY <1>3, <1>4

(* An H input that is an Hmsg input is the exception.                      *)
LEMMA HReadsAsHMsg ==
  ASSUME NEW c \in HCalls, NEW d \in HMsgCalls, InputOf(c) = InputOf(d)
  PROVE  ReadsAsHMsg(c, d)
<1> DEFINE k == Len(d.message)
           a == HBS_CONTEXT_H
           b == HBS_CONTEXT_H_MSG
           s == c.pub_seed
           msg == <<109, 115, 103>>
           p == <<a, s, c.addr, c.left, c.right>>
           q == <<b, d.r, d.pub_seed, d.pub_root, d.message>>
           len == 2 + OutLen + AddrLen + OutLen + OutLen
           wid == 5 + OutLen + OutLen + OutLen + k
           u == InputOf(c)
<1>1. ShapeIs(c, p, 5, len) /\ ShapeIs(d, q, 5, wid)
  BY HShape, HMsgShape
<1>2. c.fn = "h" /\ d.fn = "h_msg" /\ s \in Seq(Nat) /\ Len(s) = OutLen /\ k \in Nat
  <2>1. c.fn = "h" /\ d.fn = "h_msg" /\ s \in Values /\ d.message \in Messages
    BY DEF HCalls, HMsgCalls
  <2>2. QED
    BY <2>1, OperandFacts
<1>3. p[1] = a /\ p[2] = s /\ q[1] = b
  OBVIOUS
<1>4. /\ \A i \in 1..Len(p[2]) : u[Len(p[1]) + i] = p[2][i]
      /\ \A i \in 1..Len(q[1]) : u[i] = q[1][i]
      /\ len = wid
  <2> HIDE DEF p, q, len, wid
  <2> QED BY <1>1 DEF ShapeIs, StartsWith
<1>5. Len(a) = 2 /\ Len(b) = 5
  BY ContextFacts
<1> HIDE DEF k, p, q, u, s
<1>6. k = AddrLen - 3
  <2>1. 2 + OutLen + AddrLen + OutLen + OutLen = 5 + OutLen + OutLen + OutLen + k
    BY <1>4
  <2>2. QED
    BY <1>2, <2>1, OperandFacts
<1>7. OutLen \in Nat /\ OutLen >= 3
  BY OperandFacts
<1> HIDE DEF a, b, len, wid
<1>8. \A i \in 1..3 : s[i] = b[2 + i]
  <2> TAKE i \in 1..3
  <2>1. i \in 1..OutLen /\ 2 + i \in 1..5
    BY <1>7
  <2>2. u[2 + i] = s[i]
    BY <1>2, <1>3, <1>4, <1>5, <2>1
  <2>3. u[2 + i] = b[2 + i]
    BY <1>3, <1>4, <1>5, <2>1
  <2>4. QED
    BY <2>2, <2>3
<1>9. \A i \in 1..3 : s[i] = msg[i]
  <2>1. b[2 + 1] = 109 /\ b[2 + 2] = 115 /\ b[2 + 3] = 103
    BY DEF b, HBS_CONTEXT_H_MSG
  <2>2. msg[1] = 109 /\ msg[2] = 115 /\ msg[3] = 103
    OBVIOUS
  <2>3. \A i \in 1..3 : i = 1 \/ i = 2 \/ i = 3
    OBVIOUS
  <2> HIDE DEF msg
  <2>4. QED
    BY <1>8, <2>1, <2>2, <2>3
<1>10. msg \in Seq(Nat) /\ Len(msg) = 3
  OBVIOUS
<1> HIDE DEF msg
<1>11. IsPrefix(msg, s)
  <2>1. /\ 1 \in Int /\ 3 \in Int /\ 0 \in Int /\ 1 = 0 + 1 /\ 3 = 0 + 3
        /\ \A i \in 1..3 : 0 + i = i
    OBVIOUS
  <2>2. \A i \in 1..3 : msg[i] \in Nat /\ s[0 + i] = msg[i]
    <3> TAKE j \in 1..3
    <3>1. msg[j] \in Nat
      BY <1>10
    <3>2. 0 + j = j
      BY <2>1, Zenon
    <3>3. s[j] = msg[j]
      BY <1>9, Zenon
    <3>4. QED
      BY <3>1, <3>2, <3>3
  <2>3. SubSeq(s, 1, 3) = SubSeq(msg, 1, 3)
    BY <2>1, <2>2, SubSeqSame
  <2>4. QED
    BY <1>2, <1>7, <1>10, <2>3 DEF IsPrefix
<1>12. QED
  BY <1>2, <1>6, <1>11 DEF ReadsAsHMsg, k, s, msg
LEMMA TweaksSeparate ==
  ASSUME NEW c \in TweakCalls, NEW d \in TweakCalls,
         ModeOf(c) = ModeOf(d), InputOf(c) = InputOf(d)
  PROVE  SameCall(c, d) \/ ReadsAsHMsg(c, d) \/ ReadsAsHMsg(d, c)
<1>1. 80 # 72 /\ 80 # 70 /\ 80 # 84 /\ 72 # 70 /\ 72 # 84 /\ 70 # 84
  OBVIOUS
<1>2. ASSUME NEW i, NEW j, Starts(c, i), Starts(d, j) PROVE i = j
  BY <1>2 DEF Starts
<1>3. CASE c \in PrfCalls
  <2>1. d \in PrfCalls \/ d \in PrfMsgCalls
    BY <1>1, <1>2, <1>3, Letters DEF TweakCalls
  <2>2. QED
    BY <1>3, <2>1, PrfSeparates, PrfIsNoPrfMsg
<1>4. CASE c \in PrfMsgCalls
  <2>1. d \in PrfCalls \/ d \in PrfMsgCalls
    BY <1>1, <1>2, <1>4, Letters DEF TweakCalls
  <2>2. d \notin PrfCalls
    BY <1>4, PrfIsNoPrfMsg
  <2>3. QED
    BY <1>4, <2>1, <2>2, PrfMsgSeparates
<1>5. CASE c \in HCalls
  <2>1. d \in HCalls \/ d \in HMsgCalls
    BY <1>1, <1>2, <1>5, Letters DEF TweakCalls
  <2>2. QED
    BY <1>5, <2>1, HSeparates, HReadsAsHMsg
<1>6. CASE c \in HMsgCalls
  <2>1. d \in HCalls \/ d \in HMsgCalls
    BY <1>1, <1>2, <1>6, Letters DEF TweakCalls
  <2>2. QED
    BY <1>6, <2>1, HMsgSeparates, HReadsAsHMsg
<1>7. CASE c \in FCalls
  <2>1. d \in FCalls
    BY <1>1, <1>2, <1>7, Letters DEF TweakCalls
  <2>2. QED
    BY <1>7, <2>1, FSeparates
<1>8. CASE c \in TCalls
  <2>1. d \in TCalls
    BY <1>1, <1>2, <1>8, Letters DEF TweakCalls
  <2>2. QED
    BY <1>8, <2>1, TSeparates
<1>9. QED
  BY <1>3, <1>4, <1>5, <1>6, <1>7, <1>8 DEF TweakCalls

LEMMA ModeOfTweak ==
  ASSUME NEW c \in TweakCalls
  PROVE  IsMode(ModeOf(c)) /\ InputOf(c) \in Seq(Nat) /\ LenOf(c) \in Nat
<1>1. ModeOf(c) = PlainMode \/ ModeOf(c) = KeyedMode(c.key)
  <2>1. c.fn # "derive_key"
    BY DEF TweakCalls, PrfCalls, PrfMsgCalls, HCalls, FCalls, TCalls, HMsgCalls
  <2>2. QED
    BY <2>1 DEF ModeOf
<1>2. IsMode(PlainMode) /\ \A k : IsMode(KeyedMode(k))
  BY DEF IsMode, ModeIs, Markers, PlainMode, KeyedMode
<1>3. InputOf(c) \in Seq(Nat)
  BY Letters DEF Starts, TweakCalls
<1>4. LenOf(c) \in Nat
  <2>1. "out_len" \in DOMAIN c => c.out_len \in CallOutLens
    BY DEF TweakCalls, PrfCalls, PrfMsgCalls, HCalls, FCalls, TCalls, HMsgCalls
  <2>2. c.fn # "short_hash"
    BY DEF TweakCalls, PrfCalls, PrfMsgCalls, HCalls, FCalls, TCalls, HMsgCalls
  <2>3. QED
    BY <2>1, <2>2, OperandFacts DEF LenOf
<1>5. QED
  BY <1>1, <1>2, <1>3, <1>4

(* Tweakable hashes (blake4.c) give outputs that agree, however short the  *)
(* comparison, for the same call only, up to its length - except that H of *)
(* a seed that starts with "msg" may be Hmsg of a message of AddrLen - 3   *)
(* bytes: with AddrLen, OutLen, messages and numbers of blocks arbitrary,  *)
(* nothing else is missing from the separation of the contexts.            *)
THEOREM TweakablesSeparate == HashCallSpec => []SeparatedButForHMsg
<1>1. ASSUME CallsRight PROVE SeparatedButForHMsg
  <2> DEFINE c == previous.call
             d == current.call
             x == previous.out
             y == current.out
             n == LenOf(c)
             k == LenOf(d)
             shorter == Min({n, k})
  <2> SUFFICES ASSUME previous # NoCall, c.fn \in Tweakable, d.fn \in Tweakable,
                      shorter > 0, SubSeq(x, 1, shorter) = SubSeq(y, 1, shorter)
               PROVE  SameCall(c, d) \/ ReadsAsHMsg(c, d) \/ ReadsAsHMsg(d, c)
    BY DEF SeparatedButForHMsg
  <2>1. Right(previous) /\ Right(current)
    BY <1>1 DEF CallsRight
  <2>2. /\ x = XOF(ModeOf(c), InputOf(c), 0, n)
        /\ y = XOF(ModeOf(d), InputOf(d), 0, k)
        /\ c \in TweakCalls /\ d \in TweakCalls
    BY <2>1 DEF Right
  <2> HIDE DEF c, d, x, y
  <2>3. n \in Nat /\ k \in Nat
    BY <2>2, ModeOfTweak
  <2> HIDE DEF n, k
  <2>4. shorter \in Nat /\ shorter <= n /\ shorter <= k
    BY <2>3, MinOfTwo
  <2> HIDE DEF shorter
  <2>5. SubSeq(x, 1, shorter)[1] = <<RootBlock(Root(ModeOf(c), InputOf(c)), 0), 0>>
    BY <2>2, <2>3, <2>4, FirstByte
  <2>6. SubSeq(y, 1, shorter)[1] = <<RootBlock(Root(ModeOf(d), InputOf(d)), 0), 0>>
    BY <2>2, <2>3, <2>4, FirstByte
  <2>7. RootBlock(Root(ModeOf(c), InputOf(c)), 0)
          = RootBlock(Root(ModeOf(d), InputOf(d)), 0)
    <3> DEFINE a == RootBlock(Root(ModeOf(c), InputOf(c)), 0)
               b == RootBlock(Root(ModeOf(d), InputOf(d)), 0)
    <3>1. SubSeq(x, 1, shorter)[1] = <<a, 0>> /\ SubSeq(y, 1, shorter)[1] = <<b, 0>>
      BY <2>5, <2>6
    <3> HIDE DEF a, b
    <3>2. <<a, 0>> = <<b, 0>>
      BY <3>1, Zenon
    <3>3. a = b
      BY <3>2
    <3>4. QED
      BY <3>3 DEF a, b
  <2>8. ModeOf(c) = ModeOf(d) /\ InputOf(c) = InputOf(d)
    BY <2>2, <2>7, ModeOfTweak, RootsSeparate
  <2>9. QED
    BY <2>2, <2>8, TweaksSeparate
<1>2. QED
  BY <1>1, CallsInvariant, PTL
=============================================================================
