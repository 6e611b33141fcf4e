----------------------------- MODULE TreeProofs -----------------------------
(***************************************************************************)
(* The incremental hasher computes the tree hash: what the operators of    *)
(* HasherOps (buffer, stack of CVs, one chunk at a time) return, in terms  *)
(* of those of TreeHash (a complete message, top-down), for any block and  *)
(* chunk length and any message the stack has room for; and that the tree  *)
(* hash tells any two messages and modes apart.                            *)
(***************************************************************************)
EXTENDS HasherOps, TreeHash, BasicProofs

-----------------------------------------------------------------------------
(* Halving again and again: Halved(c)[i] is c div 2^i.                     *)
Halved(c) == LET half[i \in Nat] == IF i = 0 THEN c ELSE half[i - 1] \div 2
             IN  half

HalfStep(c, g, i) == IF i = 0 THEN c ELSE g[i - 1] \div 2
Halving == INSTANCE Recursion WITH Step <- HalfStep

LEMMA HalvedFacts ==
  ASSUME NEW c \in Nat, NEW i \in Nat
  PROVE  /\ Halved(c)[0] = c
         /\ Halved(c)[i] \in Nat
         /\ Halved(c)[i + 1] = Halved(c)[i] \div 2
<1>1. Halving!LooksBelow(c, Nat)
  <2> SUFFICES ASSUME NEW n \in Nat, NEW g, NEW h,
                      \A j \in Nat : j < n => g[j] = h[j]
               PROVE  HalfStep(c, g, n) = HalfStep(c, h, n)
    BY DEF Halving!LooksBelow
  <2>1. n # 0 => n - 1 \in Nat /\ n - 1 < n
    OBVIOUS
  <2>2. QED
    BY <2>1 DEF HalfStep
<1>2. Halving!IsStrongRecursion(Halved(c), c, Nat)
  BY DEF Halving!IsStrongRecursion, Halved, HalfStep
<1>3. Halved(c) = [n \in Nat |-> HalfStep(c, Halved(c), n)]
  BY <1>1, <1>2, Halving!StrongRecursion
<1>4. \A n \in Nat : Halved(c)[n] = HalfStep(c, Halved(c), n)
  BY <1>3
<1>5. Halved(c)[0] = c
  BY <1>4 DEF HalfStep
<1>6. \A n \in Nat : Halved(c)[n + 1] = Halved(c)[n] \div 2
  <2>1. \A k \in Nat : k + 1 \in Nat /\ k + 1 # 0 /\ (k + 1) - 1 = k
    OBVIOUS
  <2>2. QED
    BY <1>4, <2>1 DEF HalfStep
<1> DEFINE T == {n \in Nat : Halved(c)[n] \in Nat}
<1>7. 0 \in T
  BY <1>5
<1>8. \A n \in Nat : n \in T => n + 1 \in T
  BY <1>6
<1>9. Nat \subseteq T
  <2> HIDE DEF T
  <2> QED BY <1>7, <1>8, SetInduction
<1>10. QED
  BY <1>5, <1>6, <1>9

LEMMA HalvedFirst ==
  ASSUME NEW c \in Nat
  PROVE  \A i \in Nat : Halved(c)[i + 1] = Halved(c \div 2)[i]
<1> DEFINE T == {i \in Nat : Halved(c)[i + 1] = Halved(c \div 2)[i]}
<1>0. c \div 2 \in Nat
  BY HalfFacts
<1>1. 0 \in T
  <2>1. Halved(c)[0 + 1] = c \div 2 /\ Halved(c \div 2)[0] = c \div 2
    BY <1>0, HalvedFacts
  <2>2. QED
    BY <2>1
<1>2. ASSUME NEW i \in Nat, i \in T PROVE i + 1 \in T
  <2>1. Halved(c)[(i + 1) + 1] = Halved(c)[i + 1] \div 2
    BY HalvedFacts
  <2>2. Halved(c \div 2)[i + 1] = Halved(c \div 2)[i] \div 2
    BY <1>0, HalvedFacts
  <2>3. QED
    BY <1>2, <2>1, <2>2
<1>3. Nat \subseteq T
  <2> HIDE DEF T
  <2> QED BY <1>1, <1>2, SetInduction
<1>4. QED
  BY <1>3

(* Halving does not add one bits.                                          *)
LEMMA HalvedOnes ==
  ASSUME NEW c \in Nat
  PROVE  \A i \in Nat : Ones[Halved(c)[i]] <= Ones[c]
<1> DEFINE T == {i \in Nat : Ones[Halved(c)[i]] <= Ones[c]}
<1>1. 0 \in T
  BY HalvedFacts, OnesFacts
<1>2. ASSUME NEW i \in Nat, i \in T PROVE i + 1 \in T
  <2> DEFINE k == Halved(c)[i]
  <2>1. k \in Nat /\ Halved(c)[i + 1] = k \div 2
    BY HalvedFacts
  <2> HIDE DEF k
  <2>2. Ones[k \div 2] <= Ones[k]
    <3>1. k \div 2 \in Nat /\ (k % 2 = 0 \/ k % 2 = 1) /\ (k = 0 => k \div 2 = 0)
      BY <2>1
    <3>2. Ones[k \div 2] \in Nat /\ Ones[k] \in Nat
      BY <2>1, <3>1, OnesFacts
    <3>3. CASE k = 0
      BY <3>1, <3>2, <3>3
    <3>4. CASE k > 0 /\ k % 2 = 0
      BY <2>1, <3>2, <3>4, OnesFacts
    <3>5. CASE k % 2 = 1
      BY <2>1, <3>2, <3>5, OnesFacts
    <3>6. QED
      BY <2>1, <3>1, <3>3, <3>4, <3>5
  <2>3. Ones[k] <= Ones[c] /\ Ones[k] \in Nat /\ Ones[c] \in Nat
        /\ Ones[k \div 2] \in Nat
    BY <1>2, <2>1, OnesFacts, HalfFacts DEF k
  <2>4. QED
    BY <2>1, <2>2, <2>3
<1>3. Nat \subseteq T
  <2> HIDE DEF T
  <2> QED BY <1>1, <1>2, SetInduction
<1>4. QED
  BY <1>3

-----------------------------------------------------------------------------
(* The tree of a message.                                                  *)
TreeStep(tree, node, n) ==
  [first \in Nat |->
     IF n = 1
     THEN ChunkNode(tree[1], Piece(tree[2], first, ChunkLen), first)
     ELSE LET l == LeftSize(n)
          IN  ParentNode(tree[1], ChainingValue(node[l][first]),
                                  ChainingValue(node[n - l][first + l]))]
Trees == INSTANCE Recursion WITH Step <- TreeStep

(* The node over n chunks from first on, and its chaining value.           *)
TreeNode(mode, m, n, first) == Subtree(mode, m)[n][first]
TreeCV(mode, m, n, first) == ChainingValue(TreeNode(mode, m, n, first))

LEMMA SubtreeEquation ==
  ASSUME NEW mode, NEW m, NEW n \in Nat, n # 0, NEW first \in Nat
  PROVE  TreeNode(mode, m, n, first) =
           IF n = 1 THEN ChunkNode(mode, Piece(m, first, ChunkLen), first)
           ELSE ParentNode(mode, TreeCV(mode, m, LeftSize(n), first),
                  TreeCV(mode, m, n - LeftSize(n), first + LeftSize(n)))
<1> DEFINE D == Nat \ {0}
           tree == <<mode, m>>
<1>1. Trees!LooksBelow(tree, D)
  <2> SUFFICES ASSUME NEW k \in D, NEW g, NEW h,
                      \A i \in D : i < k => g[i] = h[i]
               PROVE  TreeStep(tree, g, k) = TreeStep(tree, h, k)
    BY DEF Trees!LooksBelow
  <2>1. k > 1 => /\ LeftSize(k) \in D /\ LeftSize(k) < k
                 /\ k - LeftSize(k) \in D /\ k - LeftSize(k) < k
    BY LeftSizeIsSmaller
  <2>2. k # 1 => /\ g[LeftSize(k)] = h[LeftSize(k)]
                 /\ g[k - LeftSize(k)] = h[k - LeftSize(k)]
    BY <2>1
  <2>3. QED
    BY <2>2 DEF TreeStep
<1>2. Trees!IsStrongRecursion(Subtree(mode, m), tree, D)
  BY DEF Trees!IsStrongRecursion, Subtree, TreeStep
<1>3. Subtree(mode, m) = [k \in D |-> TreeStep(tree, Subtree(mode, m), k)]
  BY <1>1, <1>2, Trees!StrongRecursion
<1>4. Subtree(mode, m)[n] = TreeStep(tree, Subtree(mode, m), n)
  BY <1>3
<1>5. QED
  BY <1>4 DEF TreeStep, TreeNode, TreeCV

(* A subtree depends on its chunks only.                                   *)
SameChunks(m, m2, first, n) ==
  \A i \in first..(first + n - 1) :
    Piece(m, i, ChunkLen) = Piece(m2, i, ChunkLen)

LEMMA SubtreeOfChunks ==
  ASSUME NEW mode, NEW m, NEW m2, NEW size \in Nat, NEW start \in Nat,
         size # 0, SameChunks(m, m2, start, size)
  PROVE  TreeNode(mode, m, size, start) = TreeNode(mode, m2, size, start)
<1> DEFINE T == {n \in Nat :
                   n # 0 => \A first \in Nat : SameChunks(m, m2, first, n) =>
                     TreeNode(mode, m, n, first) = TreeNode(mode, m2, n, first)}
<1>1. ASSUME NEW n \in Nat, (0..(n - 1)) \subseteq T PROVE n \in T
  <2> SUFFICES ASSUME n # 0, NEW first \in Nat, SameChunks(m, m2, first, n)
               PROVE  TreeNode(mode, m, n, first) = TreeNode(mode, m2, n, first)
    OBVIOUS
  <2>1. CASE n = 1
    <3>1. Piece(m, first, ChunkLen) = Piece(m2, first, ChunkLen)
      BY <2>1 DEF SameChunks
    <3>2. QED
      BY <2>1, <3>1, SubtreeEquation
  <2>2. CASE n # 1
    <3> DEFINE l == LeftSize(n)
    <3>1. l \in 1..(n - 1)
      BY <2>2, LeftSizeIsSmaller
    <3> HIDE DEF l
    <3>2. l \in T /\ n - l \in T
      BY <1>1, <3>1
    <3>3. SameChunks(m, m2, first, l) /\ SameChunks(m, m2, first + l, n - l)
      BY <3>1 DEF SameChunks
    <3>4. /\ TreeNode(mode, m, l, first) = TreeNode(mode, m2, l, first)
          /\ TreeNode(mode, m, n - l, first + l)
               = TreeNode(mode, m2, n - l, first + l)
      BY <3>1, <3>2, <3>3
    <3>5. QED
      BY <2>2, <3>4, SubtreeEquation DEF l, TreeCV
  <2>3. QED
    BY <2>1, <2>2
<1>2. Nat \subseteq T
  <2> HIDE DEF T
  <2> QED BY <1>1, StrongSetInduction
<1>3. QED
  BY <1>2

(* A whole chunk stays the same when the message grows.                    *)
LEMMA WholePiece ==
  ASSUME NEW S, NEW m \in Seq(S), NEW x \in Seq(S), NEW i \in Nat,
         (i + 1) * ChunkLen <= Len(m)
  PROVE  Piece(m \o x, i, ChunkLen) = Piece(m, i, ChunkLen)
<1> DEFINE a == i * ChunkLen + 1
           b == (i + 1) * ChunkLen
<1>1. a \in Nat /\ b \in Nat /\ a >= 1
  BY LengthAssumption, Multiples
<1>2. /\ m \o x \in Seq(S) /\ Len(m \o x) = Len(m) + Len(x)
      /\ Len(m) \in Nat /\ Len(x) \in Nat
      /\ \A k \in 1..Len(m) : (m \o x)[k] = m[k]
  BY ConcatProperties, LenProperties
<1> HIDE DEF a, b
<1>3. Min({b, Len(m)}) = b /\ Min({b, Len(m \o x)}) = b
  BY <1>1, <1>2, MinOfTwo DEF b
<1>4. SubSeq(m \o x, a, b) = SubSeq(m, a, b)
  <2>1. b <= Len(m)
    BY DEF b
  <2> DEFINE c == 0
             t == m \o x
  <2>2. \A k \in a..b : m[k] \in S /\ t[c + k] = m[k]
    BY <1>1, <1>2, <2>1, ElementOfSeq
  <2>3. a = c + a /\ b = c + b /\ a \in Int /\ b \in Int /\ c \in Int
    BY <1>1
  <2> HIDE DEF c, t
  <2>5. SubSeq(t, a, b) = SubSeq(m, a, b)
    BY <2>2, <2>3, SubSeqSame
  <2>4. QED
    BY <2>5 DEF t
<1>5. QED
  BY <1>3, <1>4 DEF Piece, a, b

LEMMA SubtreeStable ==
  ASSUME NEW S, NEW m \in Seq(S), NEW x \in Seq(S), NEW mode,
         NEW n \in Nat \ {0}, NEW first \in Nat,
         (first + n) * ChunkLen <= Len(m)
  PROVE  TreeNode(mode, m \o x, n, first) = TreeNode(mode, m, n, first)
<1>1. ASSUME NEW i \in first..(first + n - 1)
      PROVE  Piece(m \o x, i, ChunkLen) = Piece(m, i, ChunkLen)
  <2>1. (i + 1) * ChunkLen <= (first + n) * ChunkLen
    BY LengthAssumption, Multiples
  <2>2. (i + 1) * ChunkLen <= Len(m)
    <3>1. (i + 1) * ChunkLen \in Nat /\ (first + n) * ChunkLen \in Nat
      BY LengthAssumption, Multiples
    <3>2. QED
      BY <2>1, <3>1, LenProperties
  <2>3. QED
    BY <2>2, WholePiece
<1> DEFINE longer == m \o x
<1> HIDE DEF longer
<1>2. SameChunks(longer, m, first, n)
  BY <1>1 DEF SameChunks, longer
<1>3. TreeNode(mode, longer, n, first) = TreeNode(mode, m, n, first)
  <2>1. n \in Nat /\ n # 0
    OBVIOUS
  <2>2. QED
    BY <1>2, <2>1, SubtreeOfChunks
<1>4. QED
  BY <1>3 DEF longer

-----------------------------------------------------------------------------
(* The chaining values of a chunk.                                         *)
BlockStep(chunk, cv, b) ==
  Compress(cv, ZeroPad(BlockAt(chunk[2], b - 1)),
           Len(BlockAt(chunk[2], b - 1)), chunk[3],
           BlockFlags(chunk[1], chunk[2], b - 1))
Blocks == INSTANCE Recursion WITH Step <- BlockStep

LEMMA ChainFacts ==
  ASSUME NEW mode, NEW bytes, NEW index, BlockCount(bytes) \in Nat
  PROVE  /\ ChunkChain(mode, bytes, index)[0] = mode.key
         /\ \A b \in 1..BlockCount(bytes) :
              ChunkChain(mode, bytes, index)[b] =
                Compress(ChunkChain(mode, bytes, index)[b - 1],
                         ZeroPad(BlockAt(bytes, b - 1)),
                         Len(BlockAt(bytes, b - 1)), index,
                         BlockFlags(mode, bytes, b - 1))
<1> DEFINE chunk == <<mode, bytes, index>>
           n == BlockCount(bytes)
           cv == ChunkChain(mode, bytes, index)
<1>1. Blocks!IsRecursion(cv, chunk, mode.key, n)
  BY DEF Blocks!IsRecursion, ChunkChain, BlockStep
<1>2. cv[0] = mode.key
      /\ \A b \in 1..n : cv[b] = BlockStep(chunk, cv[b - 1], b)
  <2> HIDE DEF chunk, cv, n
  <2>1. n \in Nat
    BY DEF n
  <2>2. QED
    BY <1>1, <2>1, Blocks!RecursionRuns
<1>3. QED
  BY <1>2 DEF BlockStep

-----------------------------------------------------------------------------
LEMMA PadFull ==
  ASSUME NEW S, NEW s \in Seq(S), Len(s) = BlockLen
  PROVE  ZeroPad(s) = s
<1>1. s = [i \in 1..Len(s) |-> s[i]]
  BY LenProperties
<1>2. QED
  BY <1>1 DEF ZeroPad

-----------------------------------------------------------------------------
(* A chunk compressed as its bytes arrive is the chunk compressed whole.   *)
AbsorbStep(p, s, x) == ChunkStateAbsorb(s, x)
Absorb == INSTANCE Recursion WITH Step <- AbsorbStep

ChainCV(mode, bytes, index, b) == ChunkChain(mode, bytes, index)[b]

(* The state with q blocks compressed and the bytes up to i taken in.      *)
ChunkAfter(mode, bytes, index, q, i) ==
  [cv |-> ChainCV(mode, bytes, index, q), chunk_counter |-> index,
   buf |-> SubSeq(bytes, q * BlockLen + 1, i), blocks_compressed |-> q,
   flags |-> mode.flags]

(* The last block is held back: q blocks of it leave at least one byte.    *)
BlockHeld(q, i) ==
  /\ q * BlockLen <= i
  /\ i <= (q + 1) * BlockLen
  /\ q # 0 => q * BlockLen < i

LEMMA BlockNumbers ==
  ASSUME NEW q \in Nat
  PROVE  /\ q * BlockLen \in Nat
         /\ (q + 1) * BlockLen \in Nat
         /\ (q + 1) * BlockLen = q * BlockLen + BlockLen
         /\ (q + 2) * BlockLen = q * BlockLen + BlockLen + BlockLen
         /\ BlockLen \in Nat /\ BlockLen >= 1
<1>1. BlockLen \in Nat /\ BlockLen >= 1 /\ BlockLen \in Nat \ {0}
  BY LengthAssumption
<1> DEFINE r == q + 1
<1>2. q * BlockLen \in Nat /\ r * BlockLen = q * BlockLen + BlockLen
  BY <1>1, Multiples
<1>3. r \in Nat /\ (r + 1) * BlockLen = r * BlockLen + BlockLen
  BY <1>1, Multiples
<1>4. r + 1 = q + 2
  OBVIOUS
<1> HIDE DEF r
<1>5. r * BlockLen \in Nat
  BY <1>1, <1>2
<1>6. QED
  BY <1>1, <1>2, <1>3, <1>4, <1>5 DEF r

LEMMA BlockCountIs ==
  ASSUME NEW S, NEW bytes \in Seq(S), NEW q \in Nat, BlockHeld(q, Len(bytes))
  PROVE  BlockCount(bytes) = q + 1
<1>1. Len(bytes) \in Nat /\ (bytes = <<>> <=> Len(bytes) = 0)
  BY EmptySeq, LenProperties
<1>2. CASE bytes = <<>>
  <2>1. q = 0
    BY <1>1, <1>2, BlockNumbers DEF BlockHeld
  <2>2. QED
    BY <1>2, <2>1 DEF BlockCount
<1>3. CASE bytes # <<>>
  <2>1. q * BlockLen < Len(bytes)
    <3>1. q = 0 => q * BlockLen = 0
      <4>1. 0 * BlockLen = 0
        BY LengthAssumption
      <4>2. QED
        BY <4>1
    <3>2. QED
      BY <1>1, <1>3, <3>1 DEF BlockHeld
  <2>2. CeilDiv(Len(bytes), BlockLen) = q + 1
    BY <1>1, <2>1, CeilDivIs, LengthAssumption DEF BlockHeld
  <2>3. QED
    BY <1>3, <2>2 DEF BlockCount
<1>4. QED
  BY <1>2, <1>3

LEMMA BlockAtIs ==
  ASSUME NEW S, NEW bytes \in Seq(S), NEW q \in Nat,
         (q + 1) * BlockLen <= Len(bytes)
  PROVE  BlockAt(bytes, q) = SubSeq(bytes, q * BlockLen + 1, (q + 1) * BlockLen)
<1> DEFINE e == (q + 1) * BlockLen
<1>1. Len(bytes) \in Nat
  BY LenProperties
<1>2. e \in Nat
  BY BlockNumbers
<1> HIDE DEF e
<1>3. e <= Len(bytes)
  BY DEF e
<1>4. Min({e, Len(bytes)}) = e
  BY <1>1, <1>2, <1>3, MinOfTwo
<1>5. QED
  BY <1>4 DEF BlockAt, Piece, e

LEMMA LastBlockIs ==
  ASSUME NEW S, NEW bytes \in Seq(S), NEW q \in Nat, BlockHeld(q, Len(bytes))
  PROVE  BlockAt(bytes, q) = SubSeq(bytes, q * BlockLen + 1, Len(bytes))
<1> DEFINE e == (q + 1) * BlockLen
           n == Len(bytes)
<1>1. n \in Nat
  BY LenProperties
<1>2. e \in Nat
  BY BlockNumbers
<1>3. n <= e
  BY DEF BlockHeld
<1> HIDE DEF e, n
<1>4. Min({e, n}) = n
  BY <1>1, <1>2, <1>3, MinOfTwo
<1>5. QED
  BY <1>4 DEF BlockAt, Piece, e, n

LEMMA AbsorbsByte ==
  ASSUME NEW S, NEW mode, NEW bytes \in Seq(S), NEW index,
         NEW i \in Nat, i < Len(bytes), NEW q \in Nat, BlockHeld(q, i),
         BlockCount(bytes) \in Nat,
         \A b \in Nat : (b + 1) * BlockLen < Len(bytes)
                          => b + 1 < BlockCount(bytes)
  PROVE  \E r \in Nat :
           /\ BlockHeld(r, i + 1)
           /\ ChunkStateAbsorb(ChunkAfter(mode, bytes, index, q, i), bytes[i + 1])
                = ChunkAfter(mode, bytes, index, r, i + 1)
<1> DEFINE s == ChunkAfter(mode, bytes, index, q, i)
           a == q * BlockLen + 1
           e == (q + 1) * BlockLen
           byte == bytes[i + 1]
<1>1. /\ a \in Nat /\ a >= 1 /\ e \in Nat /\ e = a + BlockLen - 1
      /\ BlockLen \in Nat /\ BlockLen >= 1 /\ a <= i + 1 /\ i <= e
      /\ (q + 2) * BlockLen = e + BlockLen
      /\ Len(bytes) \in Nat
  <2> DEFINE w == q * BlockLen
             t == (q + 2) * BlockLen
  <2>1. w \in Nat /\ e = w + BlockLen /\ t = w + BlockLen + BlockLen
        /\ BlockLen \in Nat /\ BlockLen >= 1
    BY BlockNumbers
  <2>2. w <= i /\ i <= e
    BY DEF BlockHeld
  <2>3. Len(bytes) \in Nat
    BY LenProperties
  <2> HIDE DEF w, t, e
  <2>4. /\ w + 1 \in Nat /\ w + 1 >= 1 /\ e \in Nat /\ e = w + 1 + BlockLen - 1
        /\ w + 1 <= i + 1 /\ t = e + BlockLen
    BY <2>1, <2>2
  <2>5. QED
    BY <2>1, <2>2, <2>3, <2>4 DEF w, t
<1>2. /\ s.buf = SubSeq(bytes, a, i) /\ s.blocks_compressed = q
      /\ s.cv = ChainCV(mode, bytes, index, q)
      /\ s.chunk_counter = index /\ s.flags = mode.flags
      /\ s = [cv |-> s.cv, chunk_counter |-> s.chunk_counter, buf |-> s.buf,
              blocks_compressed |-> s.blocks_compressed, flags |-> s.flags]
  BY DEF ChunkAfter
<1>3. Len(s.buf) = i - a + 1 /\ s.buf \in Seq(S)
  <2>1. a \in Nat /\ a >= 1 /\ a <= i + 1 /\ i <= Len(bytes)
    BY <1>1
  <2>2. s.buf = SubSeq(bytes, a, i)
    BY <1>2
  <2> HIDE DEF a, s
  <2>3. SubSeq(bytes, a, i) \in Seq(S) /\ Len(SubSeq(bytes, a, i)) = i - a + 1
    BY <2>1, WindowFacts
  <2>4. QED
    BY <2>2, <2>3
<1>4. CASE i < e
  <2>1. Len(s.buf) # BlockLen
    <3> HIDE DEF a, e, s
    <3> QED BY <1>1, <1>3, <1>4
  <2>2. Append(s.buf, byte) = SubSeq(bytes, a, i + 1)
    <3>1. a >= 1 /\ a <= i + 1 /\ i < Len(bytes)
      BY <1>1
    <3> HIDE DEF a
    <3>2. Append(SubSeq(bytes, a, i), bytes[i + 1]) = SubSeq(bytes, a, i + 1)
      BY <1>1, <3>1, WindowGrows
    <3> HIDE DEF s
    <3>3. QED
      BY <1>2, <3>2
  <2>3. ChunkStateAbsorb(s, byte) = [s EXCEPT !.buf = Append(@, byte)]
    <3> HIDE DEF s, byte
    <3> QED BY <2>1 DEF ChunkStateAbsorb
  <2>4. ChunkStateAbsorb(s, byte) = ChunkAfter(mode, bytes, index, q, i + 1)
    <3> HIDE DEF s, byte
    <3> QED BY <1>2, <2>2, <2>3 DEF ChunkAfter, a
  <2>5. BlockHeld(q, i + 1)
    <3>1. q * BlockLen = a - 1
      BY <1>1, BlockNumbers
    <3> HIDE DEF a, s
    <3>2. QED
      BY <1>1, <1>4, <3>1 DEF BlockHeld, e
  <2>6. QED
    BY <2>4, <2>5
<1>5. CASE i = e
  <2>1. Len(s.buf) = BlockLen
    <3> HIDE DEF a, e, s
    <3> QED BY <1>1, <1>3, <1>5
  <2>2. s.buf = BlockAt(bytes, q)
    <3>1. e <= Len(bytes)
      <4> HIDE DEF a, e, s
      <4> QED BY <1>1, <1>5
    <3>2. QED
      BY <1>2, <1>5, <3>1, BlockAtIs
  <2>3. ZeroPad(s.buf) = s.buf
    <3> HIDE DEF s
    <3> QED BY <1>3, <2>1, PadFull
  <2>4. q + 1 \in 1..BlockCount(bytes) /\ q # BlockCount(bytes) - 1
        /\ (q + 1) - 1 = q
    <3>1. e < Len(bytes)
      BY <1>1, <1>5
    <3>2. q + 1 < BlockCount(bytes)
      BY <3>1
    <3>3. QED
      BY <3>2
  <2>5. ChainCV(mode, bytes, index, q + 1) =
          Compress(ChainCV(mode, bytes, index, q), ZeroPad(BlockAt(bytes, q)),
                   Len(BlockAt(bytes, q)), index, BlockFlags(mode, bytes, q))
    BY <2>4, ChainFacts DEF ChainCV
  <2>6. BlockFlags(mode, bytes, q) = s.flags \cup StartFlag(s)
    <3> HIDE DEF s
    <3> QED BY <1>2, <2>4 DEF BlockFlags, StartFlag
  <2>7. ChainCV(mode, bytes, index, q + 1) =
          Compress(s.cv, s.buf, BlockLen, s.chunk_counter,
                   s.flags \cup StartFlag(s))
    <3> HIDE DEF s
    <3> QED BY <1>2, <2>1, <2>2, <2>3, <2>5, <2>6
  <2>8. <<byte>> = SubSeq(bytes, (q + 1) * BlockLen + 1, i + 1)
    <3> DEFINE v == SubSeq(bytes, i + 1, i + 1)
    <3>1. v \in Seq(S) /\ Len(v) = 1 /\ v[1] = byte
      <4>1. i + 1 >= 1 /\ i + 1 <= (i + 1) + 1 /\ i + 1 <= Len(bytes)
            /\ i + 1 \in Nat /\ (i + 1) - (i + 1) + 1 = 1
            /\ (i + 1) + 1 - 1 = i + 1
        BY <1>1
      <4> HIDE DEF v, byte
      <4>2. QED
        BY <4>1, WindowFacts DEF v, byte
    <3>2. byte \in S
      BY <1>1, ElementOfSeq
    <3> HIDE DEF v, byte
    <3>3. <<byte>> \in Seq(S) /\ Len(<<byte>>) = 1 /\ <<byte>>[1] = byte
      BY <3>2
    <3>4. v = <<byte>>
      <4> DEFINE w == <<byte>>
      <4>1. w \in Seq(S) /\ Len(w) = 1 /\ \A j \in 1..1 : w[j] = v[j]
        BY <3>1, <3>3
      <4> HIDE DEF w
      <4>2. w = v
        BY <3>1, <4>1, SeqEqual
      <4>3. QED
        BY <4>2 DEF w
    <3>5. QED
      BY <1>5, <3>4 DEF v
  <2>9. ChunkStateAbsorb(s, byte) =
          [s EXCEPT !.cv = Compress(s.cv, s.buf, BlockLen, s.chunk_counter,
                                    s.flags \cup StartFlag(s)),
                    !.blocks_compressed = @ + 1,
                    !.buf = <<byte>>]
    <3> HIDE DEF s, byte
    <3> QED BY <2>1 DEF ChunkStateAbsorb
  <2>10. ChunkStateAbsorb(s, byte) = ChunkAfter(mode, bytes, index, q + 1, i + 1)
    <3> HIDE DEF s, byte
    <3> QED BY <1>2, <2>7, <2>8, <2>9 DEF ChunkAfter
  <2>11. BlockHeld(q + 1, i + 1)
    <3>1. (q + 1) + 1 = q + 2
      OBVIOUS
    <3>2. ((q + 1) + 1) * BlockLen = e + BlockLen
      BY <1>1, <3>1
    <3> HIDE DEF a, s
    <3>3. QED
      BY <1>1, <1>5, <3>2 DEF BlockHeld, e
  <2>12. QED
    BY <2>10, <2>11
<1>6. QED
  <2> HIDE DEF a, e, s
  <2> QED BY <1>1, <1>4, <1>5 DEF s

LEMMA BlockCountCovers ==
  ASSUME NEW S, NEW bytes \in Seq(S)
  PROVE  /\ BlockCount(bytes) \in Nat
         /\ \A b \in Nat : (b + 1) * BlockLen < Len(bytes)
                             => b + 1 < BlockCount(bytes)
<1> DEFINE n == Len(bytes)
           d == CeilDiv(n, BlockLen)
<1>1. n \in Nat /\ (bytes = <<>> => n = 0)
  BY EmptySeq, LenProperties
<1>2. BlockLen \in Nat \ {0}
  BY LengthAssumption
<1> HIDE DEF n
<1>3. d \in Nat /\ n <= d * BlockLen
  BY <1>1, <1>2, CeilDivCovers
<1> HIDE DEF d
<1>4. d * BlockLen \in Nat
  BY <1>2, <1>3, Multiples
<1>6. ASSUME NEW b \in Nat, (b + 1) * BlockLen < n PROVE b + 1 < d /\ n # 0
  <2>1. (b + 1) * BlockLen \in Nat
    BY <1>2, Multiples
  <2>2. d <= b + 1 => d * BlockLen <= (b + 1) * BlockLen
    BY <1>2, <1>3, Multiples
  <2>3. QED
    BY <1>1, <1>3, <1>4, <1>6, <2>1, <2>2
<1>7. BlockCount(bytes) \in Nat
  BY <1>3 DEF BlockCount, d, n
<1>8. ASSUME NEW b \in Nat, (b + 1) * BlockLen < n PROVE b + 1 < BlockCount(bytes)
  <2>1. b + 1 < d /\ n # 0
    BY <1>6, <1>8
  <2>2. BlockCount(bytes) = d
    BY <1>1, <2>1 DEF BlockCount, d, n
  <2>3. QED
    BY <2>1, <2>2
<1>9. QED
  BY <1>7, <1>8 DEF n

(* The whole chunk: hasher_chunk_output and chunk_state_output.            *)
LEMMA ChunkAgrees ==
  ASSUME NEW S, NEW mode, NEW bytes \in Seq(S), NEW index
  PROVE  ChunkStateOutput(ChunkStateUpdate(
           ChunkStateInit(mode.key, index, mode.flags), bytes))
           = ChunkNode(mode, bytes, index)
<1> DEFINE base == ChunkStateInit(mode.key, index, mode.flags)
           s == ChunkStateUpdate(base, bytes)
           n == Len(bytes)
<1>1. n \in Nat /\ DOMAIN bytes = 1..n
  BY LenProperties
<1>2. Absorb!IsFold(s, mode, base, bytes)
  BY DEF Absorb!IsFold, Absorb!FoldTable, Absorb!FoldStep, ChunkStateUpdate,
         FoldLeft, MapThenFoldSet, Max, Absorb!Max, AbsorbStep
<1>3. PICK t : Absorb!IsRun(t, mode, base, bytes, n) /\ s = t[n]
  <2> HIDE DEF base, s, n
  <2> QED BY <1>1, <1>2, Absorb!FoldRuns
<1>4. /\ t[0] = base
      /\ \A i \in 1..n : t[i] = ChunkStateAbsorb(t[i - 1], bytes[i])
  BY <1>3 DEF Absorb!IsRun, AbsorbStep
<1> DEFINE T == {i \in Nat : i <= n =>
                   \E q \in Nat : BlockHeld(q, i)
                                  /\ t[i] = ChunkAfter(mode, bytes, index, q, i)}
<1>5. 0 \in T
  <2>1. 0 * BlockLen = 0 /\ (0 + 1) * BlockLen >= 0
    BY LengthAssumption
  <2>2. BlockHeld(0, 0)
    BY <2>1 DEF BlockHeld
  <2>3. ChainCV(mode, bytes, index, 0) = mode.key
    BY BlockCountCovers, ChainFacts DEF ChainCV
  <2>4. SubSeq(bytes, 0 * BlockLen + 1, 0) = <<>>
    BY <2>1, SubSeqEmpty
  <2>5. base = ChunkAfter(mode, bytes, index, 0, 0)
    BY <2>3, <2>4 DEF ChunkStateInit, ChunkAfter
  <2>6. QED
    BY <1>4, <2>2, <2>5
<1>6. ASSUME NEW i \in Nat, i \in T PROVE i + 1 \in T
  <2> SUFFICES ASSUME i + 1 <= n
               PROVE  \E r \in Nat :
                        /\ BlockHeld(r, i + 1)
                        /\ t[i + 1] = ChunkAfter(mode, bytes, index, r, i + 1)
    OBVIOUS
  <2>1. i + 1 \in 1..n /\ (i + 1) - 1 = i /\ i < n /\ i <= n
    BY <1>1
  <2>2. PICK q \in Nat : BlockHeld(q, i)
                         /\ t[i] = ChunkAfter(mode, bytes, index, q, i)
    BY <1>6, <2>1
  <2>3. t[i + 1] = ChunkStateAbsorb(t[i], bytes[i + 1])
    BY <1>4, <2>1
  <2>4. \E r \in Nat :
          /\ BlockHeld(r, i + 1)
          /\ ChunkStateAbsorb(ChunkAfter(mode, bytes, index, q, i), bytes[i + 1])
               = ChunkAfter(mode, bytes, index, r, i + 1)
    BY <2>1, <2>2, AbsorbsByte, BlockCountCovers
  <2>5. QED
    BY <2>2, <2>3, <2>4
<1>7. Nat \subseteq T
  <2> HIDE DEF T
  <2> QED BY <1>5, <1>6, SetInduction
<1>8. PICK q \in Nat : BlockHeld(q, n) /\ t[n] = ChunkAfter(mode, bytes, index, q, n)
  BY <1>1, <1>7
<1>9. BlockCount(bytes) = q + 1 /\ BlockCount(bytes) - 1 = q
  <2>1. BlockCount(bytes) = q + 1
    BY <1>8, BlockCountIs
  <2>2. QED
    BY <2>1
<1>10. /\ s.cv = ChainCV(mode, bytes, index, q)
       /\ s.buf = BlockAt(bytes, q)
       /\ s.chunk_counter = index /\ s.flags = mode.flags
       /\ s.blocks_compressed = q
  <2>1. BlockAt(bytes, q) = SubSeq(bytes, q * BlockLen + 1, n)
    BY <1>8, LastBlockIs
  <2> HIDE DEF s
  <2>2. s = ChunkAfter(mode, bytes, index, q, n)
    BY <1>3, <1>8
  <2>3. QED
    BY <2>1, <2>2 DEF ChunkAfter
<1>11. BlockFlags(mode, bytes, q)
         = s.flags \cup StartFlag(s) \cup {"CHUNK_END"}
  <2> HIDE DEF s
  <2> QED BY <1>9, <1>10 DEF BlockFlags, StartFlag
<1>12. QED
  <2> HIDE DEF s
  <2>1. ChunkStateOutput(s) = ChunkNode(mode, bytes, index)
    BY <1>9, <1>10, <1>11 DEF ChunkStateOutput, ChunkNode, ChainCV
  <2>2. QED
    BY <2>1 DEF s

-----------------------------------------------------------------------------
(* The stack of CVs.                                                       *)

LEMMA DoubleShift ==
  ASSUME NEW k \in Nat, NEW t \in Nat
  PROVE  t * Pow2[k + 1] = (2 * t) * Pow2[k]
<1> DEFINE w == Pow2[k]
<1>1. w \in Nat /\ Pow2[k + 1] = 2 * w
  BY Pow2Facts
<1> HIDE DEF w
<1>2. t * (2 * w) = (2 * t) * w
  BY <1>1
<1>3. QED
  BY <1>1, <1>2 DEF w

LEMMA HalvedBounds ==
  ASSUME NEW c \in Nat, NEW i \in Nat
  PROVE  /\ Halved(c)[i] * Pow2[i] \in Nat
         /\ Halved(c)[i] * Pow2[i] <= c
         /\ c < Halved(c)[i] * Pow2[i] + Pow2[i]
<1> DEFINE P(k) == /\ Halved(c)[k] * Pow2[k] <= c
                   /\ c < Halved(c)[k] * Pow2[k] + Pow2[k]
           T == {k \in Nat : P(k)}
<1>1. 0 \in T
  BY HalvedFacts, Pow2Facts
<1>2. ASSUME NEW k \in Nat, k \in T PROVE k + 1 \in T
  <2> DEFINE h == Halved(c)[k]
             h2 == Halved(c)[k + 1]
             w == Pow2[k]
             w2 == Pow2[k + 1]
  <2>1. h \in Nat /\ h2 = h \div 2 /\ w \in Nat /\ w2 = 2 * w /\ w > 0
    BY HalvedFacts, Pow2Facts
  <2>2. h * w <= c /\ c < h * w + w
    BY <1>2
  <2> HIDE DEF h, h2, w, w2
  <2>3. h2 \in Nat /\ (h = 2 * h2 \/ h = 2 * h2 + 1)
    BY <2>1, HalfFacts
  <2>4. h2 * w2 = 2 * (h2 * w) /\ h2 * w \in Nat
    BY <2>1, <2>3
  <2>5. CASE h = 2 * h2
    <3>1. h * w = 2 * (h2 * w)
      BY <2>1, <2>3, <2>5
    <3>2. h2 * w2 <= c /\ c < h2 * w2 + w2
      BY <2>1, <2>2, <2>4, <3>1
    <3>3. QED
      BY <3>2 DEF h2, w2
  <2>6. CASE h = 2 * h2 + 1
    <3>1. h * w = 2 * (h2 * w) + w
      BY <2>1, <2>3, <2>6
    <3>2. h2 * w2 <= c /\ c < h2 * w2 + w2
      BY <2>1, <2>2, <2>4, <3>1
    <3>3. QED
      BY <3>2 DEF h2, w2
  <2>7. QED
    BY <2>3, <2>5, <2>6
<1>3. Nat \subseteq T
  <2> HIDE DEF T
  <2> QED BY <1>1, <1>2, SetInduction
<1>4. Halved(c)[i] * Pow2[i] \in Nat
  BY HalvedFacts, Pow2Facts
<1>5. QED
  BY <1>3, <1>4

(* k complete subtrees of 2^level chunks: the slot of the last of them.    *)
SlotHolds(stack, mode, m, level, k) ==
  stack[Ones[k] - 1] = TreeCV(mode, m, Pow2[level], (k - 1) * Pow2[level])

(* Above the level, the stack holds a complete subtree for every one bit   *)
(* of t, the largest of them lowest.                                       *)
Tower(stack, mode, m, level, t) ==
  \A i \in Nat : Halved(t)[i] % 2 = 1 =>
                   SlotHolds(stack, mode, m, level + i, Halved(t)[i])

LEMMA TowerTop ==
  ASSUME NEW stack, NEW mode, NEW m, NEW level \in Nat, NEW t \in Nat,
         Tower(stack, mode, m, level, t), t % 2 = 1
  PROVE  SlotHolds(stack, mode, m, level, t)
<1>0. Halved(t)[0] = t
  <2>1. 0 \in Nat
    OBVIOUS
  <2>2. QED
    BY <2>1, HalvedFacts
<1>1. Halved(t)[0] = t /\ level + 0 = level
  BY <1>0
<1>2. SlotHolds(stack, mode, m, level + 0, Halved(t)[0])
  BY <1>1 DEF Tower
<1>3. QED
  BY <1>1, <1>2

LEMMA TowerUp ==
  ASSUME NEW stack, NEW mode, NEW m, NEW level \in Nat, NEW t \in Nat,
         Tower(stack, mode, m, level, t)
  PROVE  Tower(stack, mode, m, level + 1, t \div 2)
<1> SUFFICES ASSUME NEW i \in Nat, Halved(t \div 2)[i] % 2 = 1
             PROVE  SlotHolds(stack, mode, m, (level + 1) + i, Halved(t \div 2)[i])
  BY DEF Tower
<1>1. Halved(t)[i + 1] = Halved(t \div 2)[i]
  BY HalvedFirst
<1>2. (level + 1) + i = level + (i + 1) /\ i + 1 \in Nat
  OBVIOUS
<1>3. SlotHolds(stack, mode, m, level + (i + 1), Halved(t)[i + 1])
  BY <1>1, <1>2 DEF Tower
<1>4. QED
  BY <1>1, <1>2, <1>3

LEMMA TowerDown ==
  ASSUME NEW stack, NEW mode, NEW m, NEW level \in Nat, NEW t \in Nat,
         Tower(stack, mode, m, level + 1, t \div 2),
         t % 2 = 1 => SlotHolds(stack, mode, m, level, t)
  PROVE  Tower(stack, mode, m, level, t)
<1> SUFFICES ASSUME NEW i \in Nat, Halved(t)[i] % 2 = 1
             PROVE  SlotHolds(stack, mode, m, level + i, Halved(t)[i])
  BY DEF Tower
<1>1. CASE i = 0
  <2>1. i \in Nat /\ Halved(t)[0] = t
    BY HalvedFacts
  <2>2. Halved(t)[i] = t
    BY <1>1, <2>1
  <2>3. level + i = level
    BY <1>1
  <2>4. QED
    BY <2>2, <2>3
<1>2. CASE i # 0
  <2>1. PICK j \in Nat : i = j + 1
    <3>1. i - 1 \in Nat /\ i = (i - 1) + 1
      BY <1>2
    <3>2. QED
      BY <3>1
  <2>2. Halved(t)[i] = Halved(t \div 2)[j] /\ (level + 1) + j = level + i
    BY <2>1, HalvedFirst
  <2>3. SlotHolds(stack, mode, m, (level + 1) + j, Halved(t \div 2)[j])
    BY <2>2 DEF Tower
  <2>4. QED
    BY <2>2, <2>3
<1>3. QED
  BY <1>1, <1>2

(* t subtrees of 2^level chunks are t * 2^level chunks.                    *)
LEMMA OnesOfMultiple ==
  ASSUME NEW level \in Nat
  PROVE  \A t \in Nat \ {0} : Ones[t * Pow2[level]] = Ones[t]
<1> DEFINE P(k) == \A t \in Nat \ {0} : Ones[t * Pow2[k]] = Ones[t]
           T == {k \in Nat : P(k)}
<1>1. 0 \in T
  <2>1. \A t \in Nat : t * Pow2[0] = t
    BY Pow2Facts
  <2>2. QED
    BY <2>1
<1>2. ASSUME NEW k \in Nat, k \in T PROVE k + 1 \in T
  <2> SUFFICES ASSUME NEW t \in Nat \ {0}
               PROVE  Ones[t * Pow2[k + 1]] = Ones[t]
    OBVIOUS
  <2> DEFINE d == 2 * t
  <2>1. d \in Nat \ {0} /\ d \div 2 = t /\ d % 2 = 0 /\ d > 0
    OBVIOUS
  <2>2. t * Pow2[k + 1] = d * Pow2[k]
    BY DoubleShift
  <2> HIDE DEF d
  <2>3. Ones[d] = Ones[t]
    BY <2>1, OnesFacts
  <2>4. Ones[d * Pow2[k]] = Ones[d]
    BY <1>2, <2>1
  <2>5. QED
    BY <2>2, <2>3, <2>4
<1>3. Nat \subseteq T
  <2> HIDE DEF T
  <2> QED BY <1>1, <1>2, SetInduction
<1>4. QED
  BY <1>3

LEMMA TowerFromGround ==
  ASSUME NEW stack, NEW mode, NEW m, NEW level \in Nat
  PROVE  \A t \in Nat : Tower(stack, mode, m, level, t) =>
                         Tower(stack, mode, m, 0, t * Pow2[level])
<1> DEFINE P(k) == \A t \in Nat : Tower(stack, mode, m, k, t) =>
                                   Tower(stack, mode, m, 0, t * Pow2[k])
           T == {k \in Nat : P(k)}
<1>1. 0 \in T
  <2>1. \A t \in Nat : t * Pow2[0] = t
    BY Pow2Facts
  <2>2. QED
    BY <2>1
<1>2. ASSUME NEW k \in Nat, k \in T PROVE k + 1 \in T
  <2> SUFFICES ASSUME NEW t \in Nat, Tower(stack, mode, m, k + 1, t)
               PROVE  Tower(stack, mode, m, 0, t * Pow2[k + 1])
    OBVIOUS
  <2> DEFINE d == 2 * t
  <2>1. d \in Nat /\ d \div 2 = t /\ d % 2 # 1
    OBVIOUS
  <2>2. t * Pow2[k + 1] = d * Pow2[k]
    BY DoubleShift
  <2> HIDE DEF d
  <2>3. Tower(stack, mode, m, k, d)
    BY <2>1, TowerDown
  <2>4. Tower(stack, mode, m, 0, d * Pow2[k])
    BY <1>2, <2>1, <2>3
  <2>5. QED
    BY <2>2, <2>4
<1>3. Nat \subseteq T
  <2> HIDE DEF T
  <2> QED BY <1>1, <1>2, SetInduction
<1>4. QED
  BY <1>3

-----------------------------------------------------------------------------
(* Pushing a chunk: hasher_push_cv.                                        *)

Struct(h) ==
  /\ h = [ cv            |-> h.cv,
           key_words     |-> h.key_words,
           chunk_counter |-> h.chunk_counter,
           chunk_buf     |-> h.chunk_buf,
           cv_stack      |-> h.cv_stack,
           cv_stack_len  |-> h.cv_stack_len,
           flags         |-> h.flags ]
  /\ h.chunk_counter \in Nat
  /\ DOMAIN h.cv_stack = Slots

HasMode(h, mode) == h.key_words = mode.key /\ h.flags = mode.flags

(* Between pushes: the stack is the tree of the chunks pushed so far.      *)
Settled(h, mode, m) ==
  /\ Struct(h) /\ HasMode(h, mode)
  /\ h.cv_stack_len = Ones[h.chunk_counter]
  /\ h.cv_stack_len <= MaxDepth
  /\ Tower(h.cv_stack, mode, m, 0, h.chunk_counter)

(* During the push of the chunk that follows them: cv is the last of t     *)
(* complete subtrees of 2^level chunks, the stack holds those before it.   *)
Climbing(h, mode, m, level, t, cv) ==
  /\ Struct(h) /\ HasMode(h, mode)
  /\ t * Pow2[level] = h.chunk_counter + 1
  /\ h.cv_stack_len = Ones[t - 1]
  /\ h.cv_stack_len <= MaxDepth
  /\ Tower(h.cv_stack, mode, m, level, t - 1)
  /\ cv = TreeCV(mode, m, Pow2[level], (t - 1) * Pow2[level])

LEMMA ClimbStarts ==
  ASSUME NEW h, NEW mode, NEW m, Settled(h, mode, m)
  PROVE  Climbing(h, mode, m, 0, h.chunk_counter + 1,
                  TreeCV(mode, m, 1, h.chunk_counter))
<1> DEFINE c == h.chunk_counter
           t == c + 1
<1>1. c \in Nat
  BY DEF Settled, Struct
<1>2. t - 1 = c /\ t * 1 = c + 1 /\ c * 1 = c
  BY <1>1
<1>3. Pow2[0] = 1
  BY Pow2Equation
<1> HIDE DEF t
<1>4. Climbing(h, mode, m, 0, t, TreeCV(mode, m, 1, c))
  BY <1>2, <1>3 DEF Climbing, Settled
<1>5. QED
  BY <1>4 DEF t

LEMMA ParentOfTwo ==
  ASSUME NEW mode, NEW m, NEW level \in Nat, NEW first \in Nat
  PROVE  TreeCV(mode, m, Pow2[level + 1], first) =
           ParentCV(TreeCV(mode, m, Pow2[level], first),
                    TreeCV(mode, m, Pow2[level], first + Pow2[level]),
                    mode.key, mode.flags)
<1> DEFINE w == Pow2[level]
           n == Pow2[level + 1]
<1>1. w \in Nat /\ w > 0 /\ n = 2 * w
  BY Pow2Facts
<1>2. LeftSize(n) = w
  <2>1. n \in Nat /\ Pow2[level] < n /\ n <= 2 * Pow2[level]
    BY <1>1
  <2> HIDE DEF n
  <2>2. QED
    BY <2>1, LeftSizeIsPower
<1> HIDE DEF w, n
<1>3. n - w = w /\ n # 1 /\ n # 0 /\ n \in Nat
  BY <1>1
<1>4. TreeNode(mode, m, n, first) =
        ParentNode(mode, TreeCV(mode, m, w, first),
                         TreeCV(mode, m, w, first + w))
  BY <1>2, <1>3, SubtreeEquation
<1>5. TreeCV(mode, m, n, first) =
        ParentCV(TreeCV(mode, m, w, first), TreeCV(mode, m, w, first + w),
                 mode.key, mode.flags)
  BY <1>4 DEF ParentNode, ParentCV, ParentOutput, TreeCV
<1>6. QED
  BY <1>5 DEF n, w

LEMMA ClimbMerges ==
  ASSUME NEW h, NEW mode, NEW m, NEW level \in Nat, NEW t \in Nat \ {0}, NEW cv,
         Climbing(h, mode, m, level, t, cv), t % 2 = 0
  PROVE  /\ t \div 2 \in Nat \ {0}
         /\ h.cv_stack_len > 0
         /\ PopTop(h).chunk_counter = h.chunk_counter
         /\ PopTop(h).chunk_buf = h.chunk_buf
         /\ Climbing(PopTop(h), mode, m, level + 1, t \div 2, MergedCV(h, cv))
<1> DEFINE k == t - 1
           u == t \div 2
           g == PopTop(h)
           w == Pow2[level]
           len == h.cv_stack_len
<1>1. /\ k \in Nat /\ k % 2 = 1 /\ k \div 2 = u - 1
      /\ u \in Nat \ {0} /\ u - 1 \in Nat /\ t = 2 * u /\ k = 2 * (u - 1) + 1
  OBVIOUS
<1>2. w \in Nat /\ Pow2[level + 1] = 2 * w
  BY Pow2Facts
<1>3. /\ len = Ones[k] /\ Ones[u - 1] \in Nat /\ Ones[k] = Ones[u - 1] + 1
  <2>1. Ones[k] = Ones[k \div 2] + 1 /\ Ones[k \div 2] \in Nat
    BY <1>1, OnesFacts
  <2>2. QED
    BY <1>1, <2>1 DEF Climbing
<1>4. len \in Nat /\ len > 0 /\ len <= MaxDepth /\ len <= 254
  <2>1. len <= MaxDepth
    BY DEF Climbing
  <2> HIDE DEF len
  <2>2. QED
    BY <1>3, <2>1, DepthAssumption
<1>5. PopLen(h) = Ones[u - 1] /\ Ones[u - 1] \in Slots /\ Ones[u - 1] = Ones[k] - 1
  <2>1. PopLen(h) = (len + 255) % 256
    BY DEF PopLen
  <2> HIDE DEF len
  <2>2. (len + 255) % 256 = len - 1
    BY <1>4
  <2>3. QED
    BY <1>3, <1>4, <2>1, <2>2, DepthAssumption DEF Slots
<1>6. /\ Struct(h) /\ HasMode(h, mode)
      /\ t * w = h.chunk_counter + 1
      /\ Tower(h.cv_stack, mode, m, level, k)
      /\ cv = TreeCV(mode, m, w, k * w)
  BY DEF Climbing
<1>7. /\ Struct(g) /\ HasMode(g, mode) /\ g.chunk_counter = h.chunk_counter
      /\ g.chunk_buf = h.chunk_buf
      /\ g.cv_stack = h.cv_stack /\ g.cv_stack_len = Ones[u - 1]
  <2> DEFINE n == PopLen(h)
  <2>1. g = [h EXCEPT !.cv_stack_len = n]
    BY DEF PopTop
  <2>2. n = Ones[u - 1]
    BY <1>5
  <2> HIDE DEF n, g, u
  <2>3. QED
    BY <1>6, <2>1, <2>2 DEF Struct, HasMode
<1>8. u * Pow2[level + 1] = g.chunk_counter + 1
  <2> HIDE DEF w, u
  <2>1. u * (2 * w) = (2 * u) * w
    BY <1>1, <1>2
  <2>2. QED
    BY <1>1, <1>2, <1>6, <1>7, <2>1
<1>9. Tower(g.cv_stack, mode, m, level + 1, u - 1)
  <2>1. Tower(h.cv_stack, mode, m, level + 1, k \div 2)
    BY <1>1, <1>6, TowerUp
  <2>2. QED
    BY <1>1, <1>7, <2>1
<1>10. MergedCV(h, cv) = TreeCV(mode, m, Pow2[level + 1], (u - 1) * Pow2[level + 1])
  <2> DEFINE f == (k - 1) * w
             f2 == (u - 1) * Pow2[level + 1]
  <2>1. StackSlot(h, PopLen(h)) = TreeCV(mode, m, w, f)
    <3>1. SlotHolds(h.cv_stack, mode, m, level, k)
      BY <1>1, <1>6, TowerTop
    <3>2. StackSlot(h, PopLen(h)) = h.cv_stack[Ones[k] - 1]
      BY <1>5 DEF StackSlot
    <3>3. QED
      BY <3>1, <3>2 DEF SlotHolds
  <2>2. f \in Nat /\ f2 = f /\ f + w = k * w
    <3> DEFINE v == u - 1
    <3>1. v \in Nat /\ k = 2 * v + 1
      BY <1>1
    <3> HIDE DEF k, w, v
    <3>2. (k - 1) * w = 2 * (v * w) /\ v * (2 * w) = 2 * (v * w)
          /\ k * w = 2 * (v * w) + w /\ v * w \in Nat
      BY <1>2, <3>1
    <3>3. QED
      BY <1>2, <3>2 DEF v
  <2> HIDE DEF f, f2, w, k
  <2>3. TreeCV(mode, m, Pow2[level + 1], f) =
          ParentCV(TreeCV(mode, m, w, f), TreeCV(mode, m, w, f + w),
                   mode.key, mode.flags)
    BY <2>2, ParentOfTwo DEF w
  <2>4. MergedCV(h, cv) = TreeCV(mode, m, Pow2[level + 1], f)
    BY <1>6, <2>1, <2>2, <2>3 DEF MergedCV, HasMode
  <2>5. QED
    BY <2>2, <2>4 DEF f2
<1>11. g.cv_stack_len <= MaxDepth
  <2> HIDE DEF len, g, u
  <2>1. g.cv_stack_len = len - 1 /\ MaxDepth \in Nat
    BY <1>3, <1>7, <1>4, DepthAssumption
  <2>2. QED
    BY <1>4, <2>1
<1>12. Climbing(g, mode, m, level + 1, u, MergedCV(h, cv))
  <2> HIDE DEF g, u
  <2> QED BY <1>7, <1>8, <1>9, <1>10, <1>11 DEF Climbing
<1>13. QED
  BY <1>1, <1>4, <1>7, <1>12

LEMMA ClimbEnds ==
  ASSUME NEW h, NEW mode, NEW m, NEW level \in Nat, NEW t \in Nat \ {0}, NEW cv,
         Climbing(h, mode, m, level, t, cv), t % 2 = 1,
         Ones[h.chunk_counter + 1] <= MaxDepth
  PROVE  LET g == NextChunk(PushTop(h, cv), h.chunk_counter + 1)
         IN  /\ Settled(g, mode, m)
             /\ g.chunk_counter = h.chunk_counter + 1
             /\ g.chunk_buf = <<>>
<1> DEFINE k == t - 1
           n == h.chunk_counter + 1
           len == h.cv_stack_len
           len2 == (h.cv_stack_len + 1) % 256
           p == PushTop(h, cv)
           g == NextChunk(p, n)
           stack == [h.cv_stack EXCEPT ![len] = cv]
           w == Pow2[level]
<1>1. /\ k \in Nat /\ k % 2 = 0 /\ t \div 2 = k \div 2 /\ k \div 2 \in Nat
      /\ t = k + 1
  OBVIOUS
<1>2. /\ Struct(h) /\ HasMode(h, mode)
      /\ t * w = n
      /\ len = Ones[k]
      /\ Tower(h.cv_stack, mode, m, level, k)
      /\ cv = TreeCV(mode, m, w, k * w)
  BY DEF Climbing
<1>3. /\ Ones[k] \in Nat /\ Ones[t] = Ones[k] + 1
      /\ Ones[k \div 2] = Ones[k]
  <2>1. Ones[t] = Ones[t - 1] + 1 /\ Ones[k] \in Nat
    BY <1>1, OnesFacts
  <2>2. k > 0 => Ones[k] = Ones[k \div 2]
    BY <1>1, OnesFacts
  <2>3. k = 0 => k \div 2 = k
    OBVIOUS
  <2>4. QED
    BY <1>1, <2>1, <2>2, <2>3
(* The slot written is the one on top of those of the tower.               *)
<1>4. ASSUME DOMAIN h.cv_stack = Slots, len \in Slots
      PROVE  Tower(stack, mode, m, level, t)
  <2>1. stack[len] = cv /\ \A i \in Slots : i # len => stack[i] = h.cv_stack[i]
    BY <1>4
  <2> HIDE DEF stack
  <2>2. SlotHolds(stack, mode, m, level, t)
    <3>1. Ones[t] - 1 = len
      BY <1>2, <1>3
    <3>2. QED
      BY <1>2, <2>1, <3>1 DEF SlotHolds
  <2>3. Tower(stack, mode, m, level + 1, k \div 2)
    <3> SUFFICES ASSUME NEW i \in Nat, Halved(k \div 2)[i] % 2 = 1
                 PROVE  SlotHolds(stack, mode, m, (level + 1) + i,
                                  Halved(k \div 2)[i])
      BY DEF Tower
    <3> DEFINE b == Halved(k \div 2)[i]
    <3>1. SlotHolds(h.cv_stack, mode, m, (level + 1) + i, b)
      <4>1. Tower(h.cv_stack, mode, m, level + 1, k \div 2)
        BY <1>1, <1>2, TowerUp
      <4>2. QED
        BY <4>1 DEF Tower
    <3>2. b \in Nat /\ Ones[b] <= Ones[k \div 2]
      BY <1>1, HalvedFacts, HalvedOnes
    <3>3. b % 2 = 1
      OBVIOUS
    <3> HIDE DEF b, len
    <3>4. Ones[b] \in Nat /\ Ones[b] = Ones[b - 1] + 1 /\ Ones[b - 1] \in Nat
      BY <3>2, <3>3, OnesFacts
    <3>5. Ones[b] - 1 \in Slots /\ Ones[b] - 1 # len
      <4>0. len \in Slots /\ MaxDepth \in Nat
        BY <1>4, DepthAssumption
      <4>1. len \in Nat /\ len < MaxDepth /\ MaxDepth \in Nat
        BY <4>0 DEF Slots
      <4>2. QED
        BY <1>2, <1>3, <3>2, <3>4, <4>1 DEF Slots
    <3>6. stack[Ones[b] - 1] = h.cv_stack[Ones[b] - 1]
      BY <2>1, <3>5
    <3>7. SlotHolds(stack, mode, m, (level + 1) + i, b)
      BY <3>1, <3>6 DEF SlotHolds
    <3>8. QED
      BY <3>7 DEF b
  <2>4. QED
    BY <1>1, <2>2, <2>3, TowerDown
<1>5. DOMAIN h.cv_stack = Slots
  BY <1>2 DEF Struct
<1>6. Ones[n] = Ones[t]
  BY <1>2, OnesOfMultiple
<1>7. len \in Slots /\ len2 = Ones[n] /\ len2 <= MaxDepth
  <2>1. Ones[n] <= MaxDepth /\ len \in Nat /\ Ones[n] = len + 1
    BY <1>2, <1>3, <1>6
  <2> HIDE DEF len, n
  <2>2. len \in Slots /\ (len + 1) % 256 = len + 1
    BY <2>1, DepthAssumption DEF Slots
  <2>3. QED
    BY <2>1, <2>2 DEF len
<1>8. Tower(stack, mode, m, 0, n)
  <2>1. Tower(stack, mode, m, level, t)
    BY <1>4, <1>5, <1>7
  <2> HIDE DEF stack, n
  <2>2. Tower(stack, mode, m, 0, t * w)
    BY <2>1, TowerFromGround
  <2>3. QED
    BY <1>2, <2>2
<1>9. g = [ cv |-> h.cv, key_words |-> h.key_words, chunk_counter |-> n,
            chunk_buf |-> <<>>, cv_stack |-> stack, cv_stack_len |-> len2,
            flags |-> h.flags ]
  <2>1. p = [h EXCEPT !.cv_stack = stack, !.cv_stack_len = len2]
    BY DEF PushTop
  <2> HIDE DEF p, stack, len2
  <2>2. p = [ cv |-> h.cv, key_words |-> h.key_words,
              chunk_counter |-> h.chunk_counter, chunk_buf |-> h.chunk_buf,
              cv_stack |-> stack, cv_stack_len |-> len2, flags |-> h.flags ]
    BY <1>2, <2>1 DEF Struct
  <2>3. g = [p EXCEPT !.chunk_counter = n, !.chunk_buf = <<>>]
    BY DEF NextChunk
  <2> HIDE DEF n
  <2>4. QED
    BY <2>2, <2>3, Zenon
<1>10. DOMAIN stack = Slots
  BY <1>5
<1>11. n \in Nat
  BY <1>2 DEF Struct
<1>12. Settled(g, mode, m) /\ g.chunk_counter = n /\ g.chunk_buf = <<>>
  <2> HIDE DEF g, n, stack, len2
  <2> QED BY <1>2, <1>7, <1>8, <1>9, <1>10, <1>11
          DEF Settled, Struct, HasMode
<1>13. QED
  BY <1>12

-----------------------------------------------------------------------------
(* The hasher and the message.                                             *)

(* Appending to the message leaves the tree of its full chunks as it is.   *)
LEMMA SettledStable ==
  ASSUME NEW h, NEW mode, NEW m \in Seq(Nat), NEW x \in Seq(Nat),
         Settled(h, mode, m), h.chunk_counter * ChunkLen <= Len(m)
  PROVE  Settled(h, mode, m \o x)
<1> DEFINE c == h.chunk_counter
           longer == m \o x
<1>1. c \in Nat /\ ChunkLen \in Nat \ {0}
  BY LengthAssumption DEF Settled, Struct
<1>2. Tower(h.cv_stack, mode, longer, 0, c)
  <2> SUFFICES ASSUME NEW i \in Nat, Halved(c)[i] % 2 = 1
               PROVE  SlotHolds(h.cv_stack, mode, longer, 0 + i, Halved(c)[i])
    BY DEF Tower
  <2> DEFINE k == Halved(c)[i]
             w == Pow2[i]
             j == 0 + i
  <2>1. SlotHolds(h.cv_stack, mode, m, j, k)
    BY DEF Settled, Tower
  <2>2. j = i
    OBVIOUS
  <2>3. k \in Nat /\ k % 2 = 1 /\ w \in Nat /\ w # 0 /\ k * w <= c
    <3> HIDE DEF c
    <3>1. k \in Nat
      BY <1>1, HalvedFacts
    <3>2. k * w <= c
      BY <1>1, HalvedBounds
    <3>3. w \in Nat /\ w > 0
      BY Pow2Facts
    <3>4. QED
      BY <3>1, <3>2, <3>3
  <2> HIDE DEF k, w, j, c, longer
  <2>4. k - 1 \in Nat /\ (k - 1) * w \in Nat /\ (k - 1) * w + w = k * w
        /\ k * w \in Nat
    BY <2>3
  <2> DEFINE f == (k - 1) * w
  <2>5. f \in Nat /\ f + w \in Nat /\ f + w <= c
    BY <2>3, <2>4
  <2> HIDE DEF f
  <2>6. (f + w) * ChunkLen <= c * ChunkLen
    BY <1>1, <2>5, Multiples
  <2>7. (f + w) * ChunkLen <= Len(m)
    <3>1. (f + w) * ChunkLen \in Nat /\ c * ChunkLen \in Nat
      BY <1>1, <2>5, Multiples
    <3>2. c * ChunkLen <= Len(m)
      BY DEF c
    <3>3. Len(m) \in Nat
      BY LenProperties
    <3>4. QED
      BY <2>6, <3>1, <3>2, <3>3
  <2>8. TreeNode(mode, longer, w, f) = TreeNode(mode, m, w, f)
    <3>1. w \in Nat \ {0}
      BY <2>3
    <3>2. QED
      BY <2>5, <2>7, <3>1, SubtreeStable DEF longer
  <2>9. SlotHolds(h.cv_stack, mode, longer, j, k)
    BY <2>1, <2>2, <2>8 DEF SlotHolds, TreeCV, f, w
  <2>10. QED
    BY <2>9 DEF j, k
<1>3. QED
  BY <1>2 DEF Settled

(* The hasher has taken in the first p bytes of m, and a chunk that may be *)
(* the last one is still in its buffer.                                    *)
Reading(h, mode, m, p) ==
  /\ Settled(h, mode, m)
  /\ m \in Seq(Nat)
  /\ p \in Nat /\ p <= Len(m)
  /\ p = h.chunk_counter * ChunkLen + Len(h.chunk_buf)
  /\ h.chunk_buf = SubSeq(m, h.chunk_counter * ChunkLen + 1, p)
  /\ Len(h.chunk_buf) <= ChunkLen
  /\ p = Len(m) /\ p # 0 => Len(h.chunk_buf) # 0

LEMMA ReadingFacts ==
  ASSUME NEW h, NEW mode, NEW m, NEW p, Reading(h, mode, m, p)
  PROVE  /\ h.chunk_counter \in Nat
         /\ h.chunk_counter * ChunkLen \in Nat
         /\ (h.chunk_counter + 1) * ChunkLen
              = h.chunk_counter * ChunkLen + ChunkLen
         /\ ChunkLen \in Nat /\ ChunkLen >= 1
         /\ Len(m) \in Nat
         /\ Len(h.chunk_buf) \in Nat
         /\ h.chunk_buf \in Seq(Nat)
<1> DEFINE c == h.chunk_counter
           a == c * ChunkLen
<1>1. c \in Nat
  BY DEF Reading, Settled, Struct
<1>2. ChunkLen \in Nat \ {0} /\ ChunkLen >= 1
  BY LengthAssumption
<1> HIDE DEF c
<1>3. a \in Nat /\ (c + 1) * ChunkLen = a + ChunkLen
  BY <1>1, <1>2, Multiples
<1>4. Len(m) \in Nat
  BY LenProperties DEF Reading
<1>5. h.chunk_buf \in Seq(Nat)
  <2>1. m \in Seq(Nat) /\ p \in Nat /\ p <= Len(m)
        /\ h.chunk_buf = SubSeq(m, a + 1, p)
    BY DEF Reading, c
  <2> HIDE DEF a
  <2>2. \A i \in (a + 1)..p : m[i] \in Nat
    <3> SUFFICES ASSUME NEW i \in (a + 1)..p PROVE m[i] \in Nat
      OBVIOUS
    <3>1. i \in 1..Len(m)
      BY <1>3, <1>4, <2>1
    <3>2. QED
      BY <2>1, <3>1, ElementOfSeq
  <2>3. SubSeq(m, a + 1, p) \in Seq(Nat)
    <3>1. a + 1 \in Int /\ p \in Int
      BY <1>3, <2>1
    <3>2. QED
      BY <2>2, <3>1, SubSeqProperties
  <2>4. QED
    BY <2>1, <2>3
<1>6. Len(h.chunk_buf) \in Nat
  BY <1>5, LenProperties
<1>7. QED
  BY <1>1, <1>2, <1>3, <1>4, <1>5, <1>6 DEF c

(* A full chunk, or the last one, compressed as the tree has it.           *)
LEMMA ChunkOutputIs ==
  ASSUME NEW h, NEW mode, NEW m, NEW p, Reading(h, mode, m, p),
         Len(h.chunk_buf) = ChunkLen \/ p = Len(m)
  PROVE  ChunkOutput(h) = TreeNode(mode, m, 1, h.chunk_counter)
<1> DEFINE c == h.chunk_counter
           a == c * ChunkLen
           e == (c + 1) * ChunkLen
           buf == h.chunk_buf
<1>1. /\ c \in Nat /\ a \in Nat /\ e = a + ChunkLen /\ ChunkLen \in Nat
      /\ Len(m) \in Nat /\ Len(buf) \in Nat /\ buf \in Seq(Nat)
  BY ReadingFacts
<1>2. /\ p \in Nat /\ p <= Len(m) /\ p = a + Len(buf) /\ Len(buf) <= ChunkLen
      /\ buf = SubSeq(m, a + 1, p) /\ HasMode(h, mode)
  BY DEF Reading, Settled
<1>3. Min({e, Len(m)}) = p
  <2> DEFINE all == Len(m)
             n == Len(buf)
  <2>1. n = ChunkLen \/ p = all
    OBVIOUS
  <2>0. /\ all \in Nat /\ a \in Nat /\ n \in Nat /\ ChunkLen \in Nat
        /\ e = a + ChunkLen /\ p \in Nat /\ p <= all /\ p = a + n /\ n <= ChunkLen
    BY <1>1, <1>2, Zenon
  <2> HIDE DEF all, n, a, e
  <2>2. /\ e \in Nat /\ all \in Nat /\ a \in Nat /\ n \in Nat /\ ChunkLen \in Nat
        /\ e = a + ChunkLen /\ p \in Nat /\ p <= all /\ p = a + n /\ n <= ChunkLen
    BY <2>0
  <2>3. (IF e <= all THEN e ELSE all) = p
    BY <2>1, <2>2
  <2>4. Min({e, all}) = p
    BY <2>2, <2>3, MinOfTwo
  <2>5. QED
    BY <2>4 DEF all
<1>4. Piece(m, c, ChunkLen) = buf
  BY <1>2, <1>3 DEF Piece
<1>5. ChunkOutput(h) = ChunkNode(mode, buf, c)
  <2>1. ChunkOutput(h) = ChunkStateOutput(ChunkStateUpdate(
                           ChunkStateInit(mode.key, c, mode.flags), buf))
    BY <1>2 DEF ChunkOutput, HasMode
  <2> HIDE DEF buf, c
  <2>2. QED
    BY <1>1, <2>1, ChunkAgrees
<1>6. TreeNode(mode, m, 1, c) = ChunkNode(mode, Piece(m, c, ChunkLen), c)
  <2>1. 1 \in Nat /\ 1 # 0
    OBVIOUS
  <2> HIDE DEF c
  <2>2. QED
    BY <1>1, <2>1, SubtreeEquation
<1>7. QED
  BY <1>4, <1>5, <1>6

LEMMA NumChunksIs ==
  ASSUME NEW h, NEW mode, NEW m, Reading(h, mode, m, Len(m))
  PROVE  NumChunks(m) = h.chunk_counter + 1
<1> DEFINE c == h.chunk_counter
           a == c * ChunkLen
           e == (c + 1) * ChunkLen
           n == Len(h.chunk_buf)
           all == Len(m)
<1>1. /\ c \in Nat /\ a \in Nat /\ e = a + ChunkLen /\ ChunkLen \in Nat
      /\ ChunkLen >= 1 /\ all \in Nat /\ n \in Nat
  BY ReadingFacts
<1>2. all = a + n /\ n <= ChunkLen /\ (all # 0 => n # 0) /\ m \in Seq(Nat)
  BY DEF Reading
<1>3. m = <<>> <=> all = 0
  BY <1>2, EmptySeq
<1> HIDE DEF n, all
<1>4. CASE all = 0
  <2>1. c = 0
    <3>1. a = 0
      <4> HIDE DEF a
      <4> QED BY <1>1, <1>2, <1>4
    <3>2. c > 0 => c * ChunkLen >= 1
      <4>1. ASSUME c > 0 PROVE c * ChunkLen >= ChunkLen
        <5>1. 1 * ChunkLen <= c * ChunkLen
          <6>1. 1 \in Nat /\ 1 <= c /\ ChunkLen \in Nat \ {0}
            BY <1>1, <4>1
          <6> HIDE DEF c
          <6>2. QED
            BY <1>1, <6>1, Multiples
        <5>2. QED
          BY <1>1, <5>1
      <4>2. QED
        BY <1>1, <4>1
    <3> HIDE DEF c
    <3>3. ~(c > 0)
      BY <3>1, <3>2 DEF a
    <3>4. QED
      BY <1>1, <3>3
  <2>2. QED
    BY <1>3, <1>4, <2>1 DEF NumChunks
<1>5. CASE all # 0
  <2>1. a < all /\ all <= e
    <3> HIDE DEF a, e
    <3> QED BY <1>1, <1>2, <1>5
  <2>2. ChunkLen \in Nat \ {0}
    BY <1>1
  <2> HIDE DEF c
  <2>3. CeilDiv(all, ChunkLen) = c + 1
    BY <1>1, <2>1, <2>2, CeilDivIs
  <2>4. QED
    BY <1>3, <1>5, <2>3 DEF NumChunks, all, c
<1>6. QED
  BY <1>4, <1>5

-----------------------------------------------------------------------------
(* finalize folds the stack from its top down to slot 0.                   *)
FoldStepUp(h, node, i) ==
  ParentOutput(StackSlot(h, i), ChainingValue(node), h.key_words, h.flags)
Folding == INSTANCE Recursion WITH Step <- FoldStepUp

LEMMA RootNodeFolds ==
  ASSUME NEW h, h.cv_stack_len \in Nat
  PROVE  \E g : /\ g[h.cv_stack_len] = ChunkOutput(h)
                /\ \A i \in 0..(h.cv_stack_len - 1) : g[i] = FoldStepUp(h, g[i + 1], i)
                /\ RootNode(h) = g[0]
<1> DEFINE n == h.cv_stack_len
           base == ChunkOutput(h)
           Eq(g) == g = [i \in 0..n |-> IF i = n THEN base
                                        ELSE FoldStepUp(h, g[i + 1], i)]
           xs == [k \in 1..n |-> n - k]
           merged == CHOOSE g : Eq(g)
<1>1. RootNode(h) = merged[0]
  BY DEF RootNode, FoldStepUp
<1> HIDE DEF base
<1>2. PICK t : Folding!IsRun(t, h, base, xs, n)
  <2> HIDE DEF n, xs
  <2>1. n \in Nat
    BY DEF n
  <2>2. QED
    BY <2>1, Folding!RunExists
<1>3. /\ t[0] = base
      /\ \A k \in 1..n : t[k] = FoldStepUp(h, t[k - 1], n - k)
  <2>1. /\ t[0] = base
        /\ \A k \in 1..n : t[k] = FoldStepUp(h, t[k - 1], xs[k])
    BY <1>2 DEF Folding!IsRun
  <2>2. \A k \in 1..n : xs[k] = n - k
    OBVIOUS
  <2>3. QED
    BY <2>1, <2>2
<1> DEFINE G == [i \in 0..n |-> t[n - i]]
<1>4. n \in Nat
  OBVIOUS
<1> HIDE DEF n
<1>5. G[n] = base
  <2>1. n \in 0..n /\ n - n = 0
    BY <1>4
  <2>2. QED
    BY <1>3, <2>1
<1>6. ASSUME NEW i \in 0..n, i # n PROVE G[i] = FoldStepUp(h, G[i + 1], i)
  <2>1. /\ n - i \in 1..n /\ n - (n - i) = i /\ i + 1 \in 0..n
        /\ n - (i + 1) = (n - i) - 1
    BY <1>4, <1>6
  <2>2. G[i] = t[n - i] /\ G[i + 1] = t[(n - i) - 1]
    BY <2>1
  <2>3. t[n - i] = FoldStepUp(h, t[(n - i) - 1], n - (n - i))
    BY <1>3, <2>1
  <2>4. QED
    BY <2>1, <2>2, <2>3
<1>7. G = [i \in 0..n |-> G[i]]
  OBVIOUS
<1> HIDE DEF G
<1>8. Eq(G)
  <2>1. [i \in 0..n |-> G[i]] = [i \in 0..n |-> IF i = n THEN base
                                              ELSE FoldStepUp(h, G[i + 1], i)]
    BY <1>5, <1>6
  <2>2. QED
    BY <1>7, <2>1
<1>9. Eq(merged)
  <2> HIDE DEF Eq
  <2> QED BY <1>8
<1> HIDE DEF merged
<1>10. \A i \in 0..n : merged[i] = IF i = n THEN base
                                    ELSE FoldStepUp(h, merged[i + 1], i)
  BY <1>9
<1>11. n \in 0..n /\ \A i \in 0..(n - 1) : i \in 0..n /\ i # n
  BY <1>4
<1>12. merged[n] = base
       /\ \A i \in 0..(n - 1) : merged[i] = FoldStepUp(h, merged[i + 1], i)
  BY <1>10, <1>11
<1>13. QED
  BY <1>1, <1>12 DEF base, n

(* Folding down to level k gives the node of all chunks after those of the *)
(* subtrees that are still on the stack.                                   *)
LEMMA RootNodeIs ==
  ASSUME NEW h, NEW mode, NEW m, Reading(h, mode, m, Len(m))
  PROVE  RootNode(h) = Root(mode, m)
<1> DEFINE c == h.chunk_counter
           half(k) == Halved(c)[k]
           before(k) == half(k) * Pow2[k]
<1>1. c \in Nat
  BY ReadingFacts
<1>2. /\ HasMode(h, mode) /\ Tower(h.cv_stack, mode, m, 0, c)
      /\ h.cv_stack_len = Ones[c] /\ h.cv_stack_len <= MaxDepth
  BY DEF Reading, Settled
<1>3. h.cv_stack_len \in Nat
  BY <1>1, <1>2, OnesFacts
<1>4. PICK g : /\ g[h.cv_stack_len] = ChunkOutput(h)
               /\ \A i \in 0..(h.cv_stack_len - 1) :
                    g[i] = FoldStepUp(h, g[i + 1], i)
               /\ RootNode(h) = g[0]
  BY <1>3, RootNodeFolds
<1> DEFINE P(k) == g[Ones[half(k)]]
                     = TreeNode(mode, m, c + 1 - before(k), before(k))
           T == {k \in Nat : P(k)}
<1>5. 0 \in T
  <2>1. half(0) = c /\ Pow2[0] = 1
    <3>1. 0 \in Nat
      OBVIOUS
    <3>2. QED
      BY <1>1, <3>1, HalvedFacts, Pow2Equation
  <2>2. ChunkOutput(h) = TreeNode(mode, m, 1, c)
    BY ChunkOutputIs
  <2> DEFINE b == before(0)
             z == half(0)
  <2>3. b = c
    <3> HIDE DEF c, z
    <3>1. z * 1 = c
      BY <1>1, <2>1 DEF z
    <3>2. QED
      BY <2>1, <3>1 DEF z
  <2> HIDE DEF b, c, z
  <2>4. c + 1 - b = 1
    BY <1>1, <2>3
  <2>5. g[Ones[z]] = TreeNode(mode, m, c + 1 - b, b)
    BY <1>2, <1>4, <2>1, <2>2, <2>3, <2>4 DEF c, z
  <2>6. QED
    BY <2>5 DEF b, z
<1>6. ASSUME NEW k \in Nat, k \in T PROVE k + 1 \in T
  <2> DEFINE b == before(k)
             b2 == before(k + 1)
             v == half(k)
             v2 == half(k + 1)
             w == Pow2[k]
  <2>1. v \in Nat /\ v2 = v \div 2 /\ v2 \in Nat /\ w \in Nat /\ w > 0
    <3>1. v \in Nat /\ v2 = v \div 2
      BY <1>1, HalvedFacts
    <3>2. w \in Nat /\ w > 0
      BY Pow2Facts
    <3> HIDE DEF v, v2, w
    <3>3. QED
      BY <3>1, <3>2, HalfFacts
  <2>2. b = v * w /\ b \in Nat /\ b <= c /\ c < b + w
    BY <1>1, HalvedBounds
  <2>3. g[Ones[v]] = TreeNode(mode, m, c + 1 - b, b)
    BY <1>6
  <2>4. b2 = (2 * v2) * w
    <3>1. v2 \in Nat
      BY <2>1
    <3> HIDE DEF v2
    <3>2. v2 * Pow2[k + 1] = (2 * v2) * w
      BY <3>1, DoubleShift
    <3>3. QED
      BY <3>2 DEF v2
  <2>5. Tower(h.cv_stack, mode, m, 0, c) /\ v % 2 = 1 =>
          h.cv_stack[Ones[v] - 1] = TreeCV(mode, m, w, (v - 1) * w)
    <3> DEFINE j == 0 + k
    <3>1. j = k
      OBVIOUS
    <3>2. Tower(h.cv_stack, mode, m, 0, c) /\ v % 2 = 1 =>
            SlotHolds(h.cv_stack, mode, m, j, v)
      BY DEF Tower
    <3> HIDE DEF j, v
    <3>3. QED
      BY <3>1, <3>2 DEF SlotHolds
  <2>6. Ones[v] <= Ones[c]
    BY <1>1, HalvedOnes
  <2> HIDE DEF b, b2, v, v2, w
  <2>7. g[Ones[v2]] = TreeNode(mode, m, c + 1 - b2, b2)
    <3>1. CASE v % 2 = 0
      <4>1. v = 2 * v2 /\ b2 = b
        <5>1. v = 2 * v2
          BY <2>1, <3>1
        <5>2. QED
          BY <2>2, <2>4, <5>1
      <4>2. Ones[v2] = Ones[v]
        <5>1. CASE v = 0
          <6>1. v2 = v
            BY <2>1, <5>1
          <6>2. QED
            BY <6>1
        <5>2. CASE v > 0
          BY <2>1, <3>1, <5>2, OnesFacts
        <5>3. QED
          BY <2>1, <5>1, <5>2
      <4>3. QED
        BY <2>3, <4>1, <4>2
    <3>2. CASE v % 2 = 1
      <4>1. Ones[v] \in Nat /\ Ones[v2] \in Nat /\ Ones[v] = Ones[v2] + 1
        BY <2>1, <3>2, OnesFacts
      <4>2. Ones[v2] \in 0..(h.cv_stack_len - 1) /\ Ones[v2] \in Slots
        <5> DEFINE len == h.cv_stack_len
        <5>1. len \in Nat /\ Ones[v] <= len /\ len <= MaxDepth /\ MaxDepth \in Nat
          BY <1>2, <1>3, <2>6, DepthAssumption
        <5> HIDE DEF len
        <5>2. QED
          BY <4>1, <5>1 DEF Slots, len
      <4>3. g[Ones[v2]] = FoldStepUp(h, g[Ones[v2] + 1], Ones[v2])
        BY <1>4, <4>2
      <4>4. b2 \in Nat /\ b2 = (v - 1) * w /\ b2 + w = b
        <5>1. 2 * v2 = v - 1 /\ v - 1 \in Nat /\ v = (v - 1) + 1
          BY <2>1, <3>2
        <5> DEFINE u == v - 1
        <5>2. u \in Nat /\ v = u + 1 /\ b2 = u * w
          BY <2>4, <5>1
        <5> HIDE DEF u
        <5>3. u * w \in Nat /\ (u + 1) * w = u * w + w
          BY <2>1, <5>2
        <5>4. QED
          BY <2>2, <5>2, <5>3 DEF u
      <4>5. StackSlot(h, Ones[v2]) = TreeCV(mode, m, w, b2)
        <5>1. StackSlot(h, Ones[v2]) = h.cv_stack[Ones[v2]]
          BY <4>2 DEF StackSlot
        <5>2. Ones[v2] = Ones[v] - 1
          BY <4>1
        <5>3. QED
          BY <1>2, <2>5, <3>2, <4>4, <5>1, <5>2
      <4>6. ChainingValue(g[Ones[v2] + 1]) = TreeCV(mode, m, c + 1 - b, b)
        BY <2>3, <4>1 DEF TreeCV
      <4> DEFINE size == c + 1 - b2
                 first == b2
      <4>7. /\ size \in Nat /\ size # 0 /\ size # 1
            /\ w < size /\ size <= 2 * w
            /\ size - w = c + 1 - b /\ first + w = b /\ first \in Nat
        <5> HIDE DEF c
        <5> QED BY <1>1, <2>1, <2>2, <4>4
      <4> HIDE DEF size, first
      <4>8. LeftSize(size) = w
        BY <4>7, LeftSizeIsPower DEF w
      <4>9. TreeNode(mode, m, size, first) =
              ParentNode(mode, TreeCV(mode, m, w, first),
                         TreeCV(mode, m, c + 1 - b, b))
        <5>1. TreeNode(mode, m, size, first) =
                ParentNode(mode, TreeCV(mode, m, LeftSize(size), first),
                           TreeCV(mode, m, size - LeftSize(size),
                                  first + LeftSize(size)))
          BY <4>7, SubtreeEquation
        <5>2. QED
          BY <4>7, <4>8, <5>1
      <4>10. g[Ones[v2]] = TreeNode(mode, m, size, first)
        <5>1. FoldStepUp(h, g[Ones[v2] + 1], Ones[v2]) =
                ParentNode(mode, TreeCV(mode, m, w, b2),
                           TreeCV(mode, m, c + 1 - b, b))
          BY <1>2, <4>5, <4>6 DEF FoldStepUp, ParentOutput, ParentNode, HasMode
        <5>2. QED
          BY <4>3, <4>9, <5>1 DEF first
      <4>11. QED
        BY <4>10 DEF size, first
    <3>3. QED
      BY <2>1, <3>1, <3>2
  <2>8. QED
    BY <2>7 DEF v2, b2
<1>7. Nat \subseteq T
  <2> HIDE DEF T
  <2> QED BY <1>5, <1>6, SetInduction
<1>8. half(c) = 0
  <2> DEFINE v == half(c)
             w == Pow2[c]
  <2>1. v \in Nat /\ w \in Nat /\ c < w
    <3>1. v \in Nat
      BY <1>1, HalvedFacts
    <3>2. w \in Nat /\ c < w
      BY <1>1, Pow2Facts
    <3>3. QED
      BY <3>1, <3>2
  <2>2. v * w <= c
    BY <1>1, HalvedBounds
  <2> HIDE DEF v, w, c
  <2>3. v # 0 => w <= v * w /\ v * w \in Nat
    <3>1. 1 * w = w
      BY <2>1
    <3>2. v # 0 => 1 <= v /\ w \in Nat \ {0}
      BY <1>1, <2>1
    <3>3. v # 0 => 1 * w <= v * w /\ v * w \in Nat
      BY <2>1, <3>2, Multiples
    <3>4. QED
      BY <3>1, <3>3
  <2>4. v = 0
    BY <1>1, <2>1, <2>2, <2>3
  <2>5. QED
    BY <2>4 DEF v
<1>9. g[0] = TreeNode(mode, m, c + 1, 0)
  <2> DEFINE v == half(c)
             b == before(c)
  <2>1. g[Ones[v]] = TreeNode(mode, m, c + 1 - b, b)
    BY <1>1, <1>7
  <2>2. b = 0 /\ v = 0
    <3>1. v = 0
      BY <1>8
    <3>2. Pow2[c] \in Nat
      BY <1>1, Pow2Facts
    <3> HIDE DEF v
    <3>3. v * Pow2[c] = 0
      BY <3>1, <3>2
    <3>4. QED
      BY <3>1, <3>3 DEF v
  <2> HIDE DEF v, b, c
  <2>3. c + 1 - b = c + 1 /\ Ones[v] = 0
    BY <1>1, <2>2, OnesFacts
  <2>4. QED
    BY <2>1, <2>2, <2>3
<1>10. NumChunks(m) = c + 1
  BY NumChunksIs
<1>11. QED
  BY <1>4, <1>9, <1>10 DEF Root, TreeNode

-----------------------------------------------------------------------------
(* The output stream: output_root_bytes.                                   *)
OutputBytes(o) == {OutputByte(o, n) : n \in Nat}

LEMMA WindowIsSeq ==
  ASSUME NEW o, NEW seek \in Nat, NEW n \in Nat
  PROVE  /\ OutputWindow(o, seek, n) \in Seq(OutputBytes(o))
         /\ Len(OutputWindow(o, seek, n)) = n
         /\ \A i \in 1..n : OutputWindow(o, seek, n)[i] = OutputByte(o, seek + i - 1)
<1> DEFINE f == OutputWindow(o, seek, n)
           S == OutputBytes(o)
<1>1. f = [i \in 1..n |-> OutputByte(o, seek + i - 1)]
  BY DEF OutputWindow
<1>2. \A i \in 1..n : OutputByte(o, seek + i - 1) \in S
  <2>1. \A i \in 1..n : seek + i - 1 \in Nat
    OBVIOUS
  <2>2. QED
    BY <2>1 DEF OutputBytes
<1> HIDE DEF f, S
<1>3. f \in [1..n -> S]
  BY <1>1, <1>2
<1>4. f \in Seq(S) /\ Len(f) = n
  BY <1>3
<1>5. QED
  BY <1>1, <1>4 DEF f, S

LEMMA WindowExtends ==
  ASSUME NEW o, NEW seek \in Nat, NEW done \in Nat, NEW take \in Nat
  PROVE  OutputWindow(o, seek, done) \o OutputWindow(o, seek + done, take)
           = OutputWindow(o, seek, done + take)
<1> DEFINE S == OutputBytes(o)
           piece == OutputWindow(o, seek + done, take)
           u == OutputWindow(o, seek, done)
           v == OutputWindow(o, seek, done + take)
           s2 == seek + done
           w == u \o piece
<1>1. u \in Seq(S) /\ Len(u) = done
      /\ \A i \in 1..done : u[i] = OutputByte(o, seek + i - 1)
  BY WindowIsSeq
<1>2. v \in Seq(S) /\ Len(v) = done + take
      /\ \A i \in 1..(done + take) : v[i] = OutputByte(o, seek + i - 1)
  <2> DEFINE n == done + take
  <2>1. n \in Nat
    OBVIOUS
  <2> HIDE DEF n
  <2>2. OutputWindow(o, seek, n) \in Seq(S) /\ Len(OutputWindow(o, seek, n)) = n
        /\ \A i \in 1..n : OutputWindow(o, seek, n)[i] = OutputByte(o, seek + i - 1)
    BY <2>1, WindowIsSeq
  <2>3. QED
    BY <2>2 DEF n
<1>3. piece \in Seq(S) /\ Len(piece) = take
      /\ \A i \in 1..take : piece[i] = OutputByte(o, s2 + i - 1)
  <2>1. s2 \in Nat
    OBVIOUS
  <2>2. piece = OutputWindow(o, s2, take)
    OBVIOUS
  <2> HIDE DEF s2, S, piece
  <2>3. /\ OutputWindow(o, s2, take) \in Seq(OutputBytes(o))
        /\ Len(OutputWindow(o, s2, take)) = take
        /\ \A i \in 1..take :
             OutputWindow(o, s2, take)[i] = OutputByte(o, s2 + i - 1)
    BY <2>1, WindowIsSeq
  <2>4. QED
    BY <2>2, <2>3 DEF S
<1> HIDE DEF S, u, v, piece
<1>4. /\ w \in Seq(S) /\ Len(w) = done + take
      /\ \A i \in 1..(done + take) :
           w[i] = IF i <= done THEN u[i] ELSE piece[i - done]
  <2>1. u \in Seq(S) /\ piece \in Seq(S) /\ Len(u) = done /\ Len(piece) = take
    BY <1>1, <1>3
  <2>2. /\ w \in Seq(S) /\ Len(w) = Len(u) + Len(piece)
        /\ \A i \in 1..(Len(u) + Len(piece)) :
             w[i] = IF i <= Len(u) THEN u[i] ELSE piece[i - Len(u)]
    BY <2>1, ConcatProperties
  <2>3. QED
    BY <2>1, <2>2
<1>5. ASSUME NEW i \in 1..(done + take) PROVE w[i] = v[i]
  <2>1. CASE i <= done
    <3>1. i \in 1..done
      BY <2>1
    <3> HIDE DEF w
    <3>2. w[i] = u[i]
      BY <1>4, <2>1
    <3>3. QED
      BY <1>1, <1>2, <3>1, <3>2
  <2>2. CASE ~(i <= done)
    <3>1. i - done \in 1..take /\ s2 + (i - done) - 1 = seek + i - 1
      BY <2>2
    <3> HIDE DEF w, s2
    <3>2. w[i] = piece[i - done]
      BY <1>4, <2>2
    <3>3. piece[i - done] = OutputByte(o, s2 + (i - done) - 1)
      BY <1>3, <3>1
    <3>4. QED
      BY <1>2, <3>1, <3>2, <3>3
  <2>3. QED
    BY <2>1, <2>2
<1> HIDE DEF w
<1>6. w = v
  BY <1>2, <1>4, <1>5, SeqEqual
<1>7. QED
  BY <1>6 DEF w, u, v, piece

(* The state of the loop when all but p.left bytes have been written.      *)
Emitted(o, seek, out_len, p) ==
  /\ p.left \in Nat /\ p.left <= out_len
  /\ p.k \in Nat /\ p.offset \in 0..(BlockLen - 1)
  /\ p.left # 0 => p.k * BlockLen + p.offset = seek + (out_len - p.left)
  /\ p.out = OutputWindow(o, seek, out_len - p.left)

LEMMA TurnEmits ==
  ASSUME NEW o, NEW seek \in Nat, NEW out_len \in Nat, NEW p,
         Emitted(o, seek, out_len, p)
  PROVE  /\ Emitted(o, seek, out_len, OutputTurn(o, p))
         /\ p.left # 0 => OutputTurn(o, p).left < p.left
         /\ p.left = 0 => OutputTurn(o, p).left = 0
<1>1. CASE p.left = 0
  BY <1>1 DEF OutputTurn
<1>2. CASE p.left # 0
  <2> DEFINE left == p.left
             k == p.k
             offset == p.offset
             room == BlockLen - offset
             done == out_len - left
             take == Min({room, left})
             piece == [i \in 1..take |-> <<RootBlock(o, k), offset + i - 1>>]
             q == OutputTurn(o, p)
  <2>1. /\ left \in Nat /\ left <= out_len /\ left # 0
        /\ k \in Nat /\ offset \in 0..(BlockLen - 1)
        /\ k * BlockLen + offset = seek + done
        /\ p.out = OutputWindow(o, seek, done)
        /\ BlockLen \in Nat \ {0}
    BY <1>2, LengthAssumption DEF Emitted
  <2>2. q = [out |-> p.out \o piece, left |-> left - take, k |-> k + 1,
             offset |-> 0]
    BY <1>2 DEF OutputTurn
  <2> HIDE DEF q, piece, left, k, offset
  <2>3. room \in Nat /\ room >= 1 /\ room <= BlockLen /\ done \in Nat
    BY <2>1
  <2>4. /\ take \in Nat /\ take >= 1 /\ take <= left /\ take <= room
        /\ take = room \/ take = left
    <3> HIDE DEF room
    <3>1. take = IF room <= left THEN room ELSE left
      BY <2>1, <2>3, MinOfTwo
    <3> HIDE DEF take
    <3>2. QED
      BY <2>1, <2>3, <3>1
  <2> HIDE DEF take
  <2>5. piece = [i \in 1..take |-> OutputByte(o, seek + done + i - 1)]
    <3>1. ASSUME NEW i \in 1..take
          PROVE  <<RootBlock(o, k), offset + i - 1>>
                   = OutputByte(o, seek + done + i - 1)
      <4> DEFINE r == offset + i - 1
      <4>1. r \in 0..(BlockLen - 1)
        BY <2>1, <2>4
      <4>2. seek + done + i - 1 = k * BlockLen + r
        <5>1. k * BlockLen \in Nat
          BY <2>1
        <5> DEFINE kb == k * BlockLen
        <5> HIDE DEF kb
        <5>2. kb \in Nat /\ kb + offset = seek + done
          BY <2>1, <5>1 DEF kb
        <5>3. seek + done + i - 1 = kb + r
          BY <2>1, <2>3, <5>2
        <5>4. QED
          BY <5>3 DEF kb
      <4> HIDE DEF r
      <4>3. (k * BlockLen + r) \div BlockLen = k
            /\ (k * BlockLen + r) % BlockLen = r
        BY <2>1, <4>1, DivisionIs
      <4>4. <<RootBlock(o, k), r>> = OutputByte(o, k * BlockLen + r)
        BY <4>3 DEF OutputByte
      <4>5. QED
        BY <4>2, <4>4 DEF r
    <3>2. QED
      BY <3>1 DEF piece
  <2>6. p.out \o piece = OutputWindow(o, seek, done + take)
    <3> HIDE DEF done
    <3>0. piece = OutputWindow(o, seek + done, take)
      BY <2>5 DEF OutputWindow
    <3>1. OutputWindow(o, seek, done) \o OutputWindow(o, seek + done, take)
            = OutputWindow(o, seek, done + take)
      BY <2>3, <2>4, WindowExtends
    <3>2. QED
      BY <2>1, <3>0, <3>1
  <2>7. out_len - (left - take) = done + take
    BY <2>1, <2>4
  <2>8. q.left \in Nat /\ q.left <= out_len /\ q.left < left
    BY <2>1, <2>2, <2>4
  <2>9. q.left # 0 => q.k * BlockLen + q.offset = seek + (out_len - q.left)
    <3> SUFFICES ASSUME q.left # 0
                 PROVE  q.k * BlockLen + q.offset = seek + (out_len - q.left)
      OBVIOUS
    <3>1. take = room
      BY <2>1, <2>2, <2>4
    <3>2. (k + 1) * BlockLen = k * BlockLen + BlockLen /\ k * BlockLen \in Nat
          /\ (k + 1) * BlockLen \in Nat
      BY <2>1
    <3> DEFINE kb == k * BlockLen
               kb2 == (k + 1) * BlockLen
    <3> HIDE DEF kb, kb2
    <3>3. /\ kb \in Nat /\ kb2 \in Nat /\ kb2 = kb + BlockLen
          /\ kb + offset = seek + done
      BY <2>1, <3>2 DEF kb, kb2
    <3>4. kb2 + 0 = seek + (done + take)
      BY <2>1, <2>3, <3>1, <3>3
    <3>5. q.k = k + 1 /\ q.offset = 0 /\ q.left = left - take
      BY <2>2
    <3>6. QED
      BY <2>7, <3>4, <3>5 DEF kb2
  <2>10. q.out = OutputWindow(o, seek, out_len - q.left)
    BY <2>2, <2>6, <2>7
  <2>11. q.k \in Nat /\ q.offset \in 0..(BlockLen - 1)
    BY <2>1, <2>2
  <2>12. QED
    BY <1>2, <2>8, <2>9, <2>10, <2>11 DEF Emitted, left, q
<1>3. QED
  BY <1>1, <1>2

EmitStep(o, p, i) == OutputTurn(o, p)
Emitting == INSTANCE Recursion WITH Step <- EmitStep

LEMMA OutputIs ==
  ASSUME NEW o, NEW seek \in Nat, NEW out_len \in Nat
  PROVE  OutputRootBytes(o, seek, out_len) = OutputWindow(o, seek, out_len)
<1> DEFINE base == [out |-> <<>>, left |-> out_len,
                    k |-> seek \div BlockLen, offset |-> seek % BlockLen]
           turn == CHOOSE g : g = [i \in 0..out_len |->
                     IF i = 0 THEN base ELSE EmitStep(o, g[i - 1], i)]
<1>1. OutputRootBytes(o, seek, out_len) = turn[out_len].out
  BY DEF OutputRootBytes, EmitStep
<1>2. Emitting!IsRecursion(turn, o, base, out_len)
  BY DEF Emitting!IsRecursion
<1>3. Emitted(o, seek, out_len, base)
  <2>1. OutputWindow(o, seek, out_len - out_len) = <<>>
    <3> DEFINE u == OutputWindow(o, seek, 0)
    <3>1. u \in Seq(OutputBytes(o)) /\ Len(u) = 0
      BY WindowIsSeq
    <3> HIDE DEF u
    <3>2. u = <<>>
      BY <3>1, EmptySeq
    <3>3. out_len - out_len = 0
      OBVIOUS
    <3>4. QED
      BY <3>2, <3>3 DEF u
  <2> DEFINE k == seek \div BlockLen
             r == seek % BlockLen
  <2>2. k \in Nat /\ r \in 0..(BlockLen - 1) /\ k * BlockLen + r = seek
    BY LengthAssumption
  <2>3. base.left = out_len /\ base.k = k /\ base.offset = r /\ base.out = <<>>
    OBVIOUS
  <2> HIDE DEF k, r, base
  <2>4. seek + (out_len - out_len) = seek
    OBVIOUS
  <2>5. QED
    BY <2>1, <2>2, <2>3, <2>4 DEF Emitted
<1> HIDE DEF base, turn
<1>4. /\ turn[0] = base
      /\ \A i \in 1..out_len : turn[i] = OutputTurn(o, turn[i - 1])
  BY <1>2, Emitting!RecursionRuns DEF EmitStep
<1> DEFINE P(i) == i <= out_len =>
                     /\ Emitted(o, seek, out_len, turn[i])
                     /\ turn[i].left = 0 \/ turn[i].left <= out_len - i
           T == {i \in Nat : P(i)}
<1>5. 0 \in T
  BY <1>3, <1>4 DEF Emitted
<1>6. ASSUME NEW i \in Nat, i \in T PROVE i + 1 \in T
  <2> SUFFICES ASSUME i + 1 <= out_len
               PROVE  /\ Emitted(o, seek, out_len, turn[i + 1])
                      /\ turn[i + 1].left = 0
                         \/ turn[i + 1].left <= out_len - (i + 1)
    OBVIOUS
  <2> DEFINE p == turn[i]
             q == turn[i + 1]
  <2>1. q = OutputTurn(o, p)
    <3>1. i + 1 \in 1..out_len /\ (i + 1) - 1 = i
      OBVIOUS
    <3>2. QED
      BY <1>4, <3>1
  <2>2. Emitted(o, seek, out_len, p) /\ (p.left = 0 \/ p.left <= out_len - i)
    BY <1>6
  <2> HIDE DEF p, q
  <2>3. /\ Emitted(o, seek, out_len, q)
        /\ p.left # 0 => q.left < p.left
        /\ p.left = 0 => q.left = 0
    BY <2>1, <2>2, TurnEmits
  <2>4. p.left \in Nat /\ q.left \in Nat
    BY <2>2, <2>3 DEF Emitted
  <2>5. q.left = 0 \/ q.left <= out_len - (i + 1)
    BY <2>2, <2>3, <2>4
  <2>6. QED
    BY <2>3, <2>5 DEF q
<1>7. Nat \subseteq T
  <2> HIDE DEF T
  <2> QED BY <1>5, <1>6, SetInduction
<1>8. /\ Emitted(o, seek, out_len, turn[out_len])
      /\ turn[out_len].left = 0 \/ turn[out_len].left <= out_len - out_len
  BY <1>7
<1> DEFINE p == turn[out_len]
<1>9. p.left = 0 /\ out_len - p.left = out_len
  <2>1. p.left \in Nat
    BY <1>8 DEF Emitted
  <2> HIDE DEF p
  <2>2. p.left = 0
    BY <1>8, <2>1 DEF p
  <2>3. QED
    BY <2>2
<1>10. p.out = OutputWindow(o, seek, out_len - p.left)
  BY <1>8 DEF Emitted
<1>11. QED
  BY <1>1, <1>9, <1>10

-----------------------------------------------------------------------------
(* Taking in the message.                                                  *)
LEMMA WindowsJoin ==
  ASSUME NEW s \in Seq(Nat), NEW a \in Nat, NEW b \in Nat, NEW c \in Nat,
         a >= 1, a <= b + 1, b <= c, c <= Len(s)
  PROVE  SubSeq(s, a, b) \o SubSeq(s, b + 1, c) = SubSeq(s, a, c)
<1> DEFINE u == SubSeq(s, a, b)
           v == SubSeq(s, b + 1, c)
           t == SubSeq(s, a, c)
           w == u \o v
           n == b - a + 1
           k == c - b
<1>0. n \in Nat /\ k \in Nat /\ n + k = c - a + 1
  OBVIOUS
<1>1. u \in Seq(Nat) /\ Len(u) = n /\ \A i \in 1..n : u[i] = s[a + i - 1]
  <2>1. b <= Len(s)
    <3>1. Len(s) \in Nat
      BY LenProperties
    <3>2. QED
      BY <3>1
  <2>2. QED
    BY <2>1, WindowFacts
<1>2. v \in Seq(Nat) /\ Len(v) = k /\ \A i \in 1..k : v[i] = s[(b + 1) + i - 1]
  <2> DEFINE a2 == b + 1
  <2>1. a2 \in Nat /\ a2 >= 1 /\ a2 <= c + 1 /\ c - a2 + 1 = k
    OBVIOUS
  <2> HIDE DEF a2, k
  <2>2. /\ SubSeq(s, a2, c) \in Seq(Nat) /\ Len(SubSeq(s, a2, c)) = c - a2 + 1
        /\ \A i \in 1..(c - a2 + 1) : SubSeq(s, a2, c)[i] = s[a2 + i - 1]
    BY <2>1, WindowFacts
  <2>3. QED
    BY <2>1, <2>2 DEF a2
<1>3. t \in Seq(Nat) /\ Len(t) = n + k /\ \A i \in 1..(n + k) : t[i] = s[a + i - 1]
  <2>1. a <= c + 1
    OBVIOUS
  <2>2. /\ SubSeq(s, a, c) \in Seq(Nat) /\ Len(SubSeq(s, a, c)) = c - a + 1
        /\ \A i \in 1..(c - a + 1) : SubSeq(s, a, c)[i] = s[a + i - 1]
    BY <2>1, WindowFacts
  <2> HIDE DEF n, k
  <2>3. QED
    BY <1>0, <2>2
<1> HIDE DEF u, v, t
<1>4. /\ w \in Seq(Nat) /\ Len(w) = n + k
      /\ \A i \in 1..(n + k) : w[i] = IF i <= n THEN u[i] ELSE v[i - n]
  <2> HIDE DEF n, k
  <2>1. u \in Seq(Nat) /\ v \in Seq(Nat) /\ Len(u) = n /\ Len(v) = k
    BY <1>1, <1>2
  <2>2. /\ w \in Seq(Nat) /\ Len(w) = Len(u) + Len(v)
        /\ \A i \in 1..(Len(u) + Len(v)) :
             w[i] = IF i <= Len(u) THEN u[i] ELSE v[i - Len(u)]
    BY <2>1, ConcatProperties
  <2>3. QED
    BY <2>1, <2>2
<1>5. ASSUME NEW i \in 1..(n + k) PROVE w[i] = t[i]
  <2>1. CASE i <= n
    <3>1. i \in 1..n
      BY <2>1
    <3> HIDE DEF w, n, k
    <3>2. QED
      BY <1>1, <1>3, <1>4, <2>1, <3>1
  <2>2. CASE ~(i <= n)
    <3>1. i - n \in 1..k /\ (b + 1) + (i - n) - 1 = a + i - 1
      BY <2>2
    <3> HIDE DEF w, n, k
    <3>2. w[i] = v[i - n]
      BY <1>4, <2>2
    <3>3. v[i - n] = s[(b + 1) + (i - n) - 1]
      BY <1>2, <3>1
    <3>4. QED
      BY <1>3, <3>1, <3>2, <3>3
  <2>3. QED
    BY <2>1, <2>2
<1> HIDE DEF w, n, k
<1>6. w = t
  BY <1>3, <1>4, <1>5, SeqEqual
<1>7. QED
  BY <1>6 DEF w, u, v, t

(* Two sequences that agree up to b have the same windows there.           *)
LEMMA SameWindow ==
  ASSUME NEW s \in Seq(Nat), NEW t \in Seq(Nat), NEW a \in Nat, NEW b \in Nat,
         a >= 1, a <= b + 1, b <= Len(s), b <= Len(t),
         \A i \in 1..b : t[i] = s[i]
  PROVE  SubSeq(t, a, b) = SubSeq(s, a, b)
<1> DEFINE u == SubSeq(s, a, b)
           v == SubSeq(t, a, b)
           n == b - a + 1
<1>1. n \in Nat
  OBVIOUS
<1>2. u \in Seq(Nat) /\ Len(u) = n /\ \A i \in 1..n : u[i] = s[a + i - 1]
  BY WindowFacts
<1>3. v \in Seq(Nat) /\ Len(v) = n /\ \A i \in 1..n : v[i] = t[a + i - 1]
  BY WindowFacts
<1>4. ASSUME NEW i \in 1..n PROVE v[i] = u[i]
  <2>1. a + i - 1 \in 1..b
    OBVIOUS
  <2> HIDE DEF u, v, n
  <2>2. QED
    BY <1>2, <1>3, <2>1
<1> HIDE DEF u, v, n
<1>5. v = u
  BY <1>2, <1>3, <1>4, SeqEqual
<1>6. QED
  BY <1>5 DEF u, v

(* A hasher just initialised has taken in nothing of any message.          *)
LEMMA HalvedZero == \A i \in Nat : Halved(0)[i] = 0
<1> DEFINE T == {i \in Nat : Halved(0)[i] = 0}
<1>0. 0 \in Nat
  OBVIOUS
<1>1. 0 \in T
  BY <1>0, HalvedFacts
<1>2. ASSUME NEW i \in Nat, i \in T PROVE i + 1 \in T
  <2>1. Halved(0)[i + 1] = Halved(0)[i] \div 2
    BY <1>0, HalvedFacts
  <2>2. QED
    BY <1>2, <2>1
<1>3. Nat \subseteq T
  <2> HIDE DEF T
  <2> QED BY <1>1, <1>2, SetInduction
<1>4. QED
  BY <1>3

LEMMA InitReads ==
  ASSUME NEW mode, NEW m \in Seq(Nat)
  PROVE  Reading(InitHasher(mode.key, mode.flags), mode, m, 0)
<1> DEFINE h == InitHasher(mode.key, mode.flags)
<1>1. /\ Struct(h) /\ HasMode(h, mode) /\ h.chunk_counter = 0
      /\ h.chunk_buf = <<>> /\ h.cv_stack_len = 0
  BY DEF InitHasher, Struct, HasMode
<1>2. Tower(h.cv_stack, mode, m, 0, 0)
  BY HalvedZero DEF Tower
<1> HIDE DEF h
<1>3. Settled(h, mode, m)
  BY <1>1, <1>2, OnesFacts, DepthAssumption DEF Settled
<1>4. Len(<<>>) = 0 /\ 0 * ChunkLen = 0 /\ ChunkLen >= 0
  BY EmptySeq, LengthAssumption
<1>5. SubSeq(m, 0 * ChunkLen + 1, 0) = <<>>
  BY <1>4, SubSeqEmpty
<1>6. Len(m) \in Nat
  BY LenProperties
<1>7. Reading(h, mode, m, 0)
  BY <1>1, <1>3, <1>4, <1>5, <1>6 DEF Reading
<1>8. QED
  BY <1>7 DEF h

(* A message may grow at any time.                                         *)
LEMMA GrowthReads ==
  ASSUME NEW h, NEW mode, NEW m, NEW x \in Seq(Nat),
         Reading(h, mode, m, Len(m))
  PROVE  Reading(h, mode, m \o x, Len(m))
<1> DEFINE c == h.chunk_counter
           a == c * ChunkLen
           p == Len(m)
           longer == m \o x
<1>1. /\ c \in Nat /\ a \in Nat /\ p \in Nat /\ Len(h.chunk_buf) \in Nat
  BY ReadingFacts
<1>2. /\ Settled(h, mode, m) /\ m \in Seq(Nat)
      /\ p = a + Len(h.chunk_buf) /\ h.chunk_buf = SubSeq(m, a + 1, p)
      /\ Len(h.chunk_buf) <= ChunkLen
      /\ p # 0 => Len(h.chunk_buf) # 0
  BY DEF Reading
<1>3. /\ longer \in Seq(Nat) /\ Len(longer) = p + Len(x) /\ Len(x) \in Nat
      /\ \A i \in 1..p : longer[i] = m[i]
  <2>1. /\ longer \in Seq(Nat) /\ Len(longer) = Len(m) + Len(x)
        /\ \A i \in 1..(Len(m) + Len(x)) :
             longer[i] = IF i <= Len(m) THEN m[i] ELSE x[i - Len(m)]
    BY <1>2, ConcatProperties
  <2>2. Len(x) \in Nat
    BY LenProperties
  <2> HIDE DEF longer
  <2>3. QED
    BY <1>1, <2>1, <2>2
<1>4. Settled(h, mode, longer)
  <2>1. c * ChunkLen <= Len(m)
    <3> HIDE DEF a, c
    <3>1. a <= p
      BY <1>1, <1>2
    <3>2. QED
      BY <3>1 DEF a
  <2>2. QED
    BY <1>2, <2>1, SettledStable
<1> HIDE DEF longer
<1>5. SubSeq(longer, a + 1, p) = SubSeq(m, a + 1, p)
  <2> DEFINE a1 == a + 1
  <2>1. a1 \in Nat /\ a1 >= 1 /\ a1 <= p + 1 /\ p <= Len(longer)
    <3> HIDE DEF a, p, c
    <3> QED BY <1>1, <1>2, <1>3
  <2>2. p <= Len(m)
    BY <1>1
  <2> HIDE DEF a, p, c, a1
  <2>3. SubSeq(longer, a1, p) = SubSeq(m, a1, p)
    <3>1. m \in Seq(Nat) /\ longer \in Seq(Nat) /\ p \in Nat
          /\ \A i \in 1..p : longer[i] = m[i]
      BY <1>1, <1>2, <1>3, Zenon
    <3>2. QED
      BY <2>1, <2>2, <3>1, SameWindow
  <2>4. QED
    BY <2>3 DEF a1
<1>6. p <= Len(longer)
  <2> HIDE DEF p
  <2> QED BY <1>1, <1>3
<1>7. Reading(h, mode, longer, p)
  <2> HIDE DEF p
  <2> QED BY <1>1, <1>2, <1>3, <1>4, <1>5, <1>6 DEF Reading
<1>8. QED
  BY <1>7 DEF longer

(* A full chunk is pushed.                                                 *)
LEMMA FlushReads ==
  ASSUME NEW h, NEW mode, NEW m, NEW p, Reading(h, mode, m, p), p < Len(m),
         Len(h.chunk_buf) = ChunkLen,
         NEW g, Settled(g, mode, m), g.chunk_counter = h.chunk_counter + 1,
         g.chunk_buf = <<>>
  PROVE  Reading(g, mode, m, p)
<1> DEFINE c == h.chunk_counter
           d == g.chunk_counter
           a2 == d * ChunkLen
<1>1. /\ c \in Nat /\ c * ChunkLen \in Nat /\ ChunkLen \in Nat
      /\ (c + 1) * ChunkLen = c * ChunkLen + ChunkLen
      /\ Len(m) \in Nat /\ ChunkLen >= 1
  BY ReadingFacts
<1>2. m \in Seq(Nat) /\ p \in Nat /\ p <= Len(m) /\ p = c * ChunkLen + ChunkLen
  BY DEF Reading
<1>3. d = c + 1
  OBVIOUS
<1> HIDE DEF c, d
<1>4. a2 = p
  BY <1>1, <1>2, <1>3
<1> HIDE DEF a2
<1>5. Len(<<>>) = 0 /\ a2 + Len(<<>>) = p
  BY <1>2, <1>4, EmptySeq
<1>6. SubSeq(m, a2 + 1, p) = <<>>
  BY <1>2, <1>4, SubSeqEmpty
<1>7. p # Len(m)
  BY <1>1, <1>2
<1>8. /\ p = g.chunk_counter * ChunkLen + Len(g.chunk_buf)
      /\ g.chunk_buf = SubSeq(m, g.chunk_counter * ChunkLen + 1, p)
  BY <1>5, <1>6 DEF a2, d
<1>9. Len(g.chunk_buf) <= ChunkLen
  BY <1>1, <1>5
<1>10. Settled(g, mode, m) /\ m \in Seq(Nat) /\ p \in Nat /\ p <= Len(m)
  BY <1>2
<1>11. QED
  BY <1>7, <1>8, <1>9, <1>10, Zenon DEF Reading

(* Bytes that fit in the chunk buffer are copied to it.                    *)
LEMMA FillReads ==
  ASSUME NEW h, NEW mode, NEW m, NEW p, Reading(h, mode, m, p),
         NEW k \in Nat \ {0}, p + k <= Len(m),
         Len(h.chunk_buf) + k <= ChunkLen
  PROVE  Reading(Buffer(h, SubSeq(m, p + 1, p + k)), mode, m, p + k)
<1> DEFINE c == h.chunk_counter
           a == c * ChunkLen
           n == Len(h.chunk_buf)
           q == p + k
           x == SubSeq(m, p + 1, q)
           g == Buffer(h, x)
           buf == h.chunk_buf \o x
<1>1. c \in Nat /\ a \in Nat /\ ChunkLen \in Nat /\ Len(m) \in Nat /\ n \in Nat
      /\ h.chunk_buf \in Seq(Nat)
  BY ReadingFacts
<1>2. /\ Settled(h, mode, m) /\ m \in Seq(Nat) /\ p \in Nat /\ p <= Len(m)
      /\ p = a + n /\ h.chunk_buf = SubSeq(m, a + 1, p)
  BY DEF Reading
<1>3. q \in Nat /\ q <= Len(m) /\ q # 0 /\ q = a + (n + k) /\ n + k <= ChunkLen
      /\ n + k # 0
  <2>1. q <= Len(m) /\ n + k <= ChunkLen
    OBVIOUS
  <2> HIDE DEF a, n
  <2>2. QED
    BY <1>1, <1>2, <2>1
<1>4. x \in Seq(Nat) /\ Len(x) = k
  <2> DEFINE p1 == p + 1
  <2>0. p \in Nat /\ k \in Nat \ {0}
    BY <1>2
  <2> HIDE DEF x, a, n
  <2>1. p1 \in Nat /\ p1 >= 1 /\ p1 <= q + 1 /\ q - p1 + 1 = k
    BY <2>0
  <2>3. m \in Seq(Nat) /\ q \in Nat /\ q <= Len(m)
    BY <1>2, <1>3, Zenon
  <2> HIDE DEF p1, q
  <2>2. SubSeq(m, p1, q) \in Seq(Nat) /\ Len(SubSeq(m, p1, q)) = q - p1 + 1
    BY <2>1, <2>3, WindowFacts
  <2>4. QED
    BY <2>1, <2>2, Zenon DEF p1, x
<1>5. buf = SubSeq(m, a + 1, q)
  <2> DEFINE a1 == a + 1
  <2>1. p <= q
    <3>1. p \in Nat /\ k \in Nat \ {0}
      BY <1>2, Zenon
    <3>2. QED
      BY <3>1, SMT
  <2>4. n \in Nat
    BY <1>1
  <2> HIDE DEF a, n
  <2>5. a1 \in Nat /\ a1 >= 1 /\ a1 <= p + 1
    BY <1>1, <1>2, <2>4
  <2>6. m \in Seq(Nat) /\ p \in Nat /\ q \in Nat /\ q <= Len(m)
    BY <1>2, <1>3, Zenon
  <2> HIDE DEF a1, q
  <2>2. SubSeq(m, a1, p) \o SubSeq(m, p + 1, q) = SubSeq(m, a1, q)
    BY <2>1, <2>5, <2>6, WindowsJoin
  <2>7. h.chunk_buf = SubSeq(m, a1, p)
    BY <1>2 DEF a1
  <2>3. QED
    BY <2>2, <2>7, Zenon DEF a1, x
<1>6. Len(buf) = n + k
  <2> HIDE DEF x
  <2>1. Len(buf) = Len(h.chunk_buf) + Len(x)
    BY <1>1, <1>4, ConcatProperties
  <2>2. QED
    BY <1>4, <2>1
<1> HIDE DEF x
<1>7. g = [h EXCEPT !.chunk_buf = buf]
  BY DEF Buffer
<1> HIDE DEF g, buf
<1>8. /\ Struct(g) /\ g.key_words = h.key_words /\ g.flags = h.flags
      /\ g.chunk_counter = h.chunk_counter /\ g.chunk_buf = buf
      /\ g.cv_stack = h.cv_stack /\ g.cv_stack_len = h.cv_stack_len
  <2>1. Struct(h)
    BY <1>2 DEF Settled
  <2>2. QED
    BY <1>7, <2>1 DEF Struct
<1>9. Settled(g, mode, m)
  BY <1>2, <1>8 DEF Settled, HasMode
<1>10. Reading(g, mode, m, q)
  <2> HIDE DEF q, n
  <2>1. g.chunk_counter * ChunkLen = a
    BY <1>8
  <2> HIDE DEF a, c
  <2>2. QED
    BY <1>2, <1>3, <1>5, <1>6, <1>8, <1>9, <2>1 DEF Reading
<1>11. QED
  BY <1>10 DEF g, x

-----------------------------------------------------------------------------
(* A whole push: hasher_push_cv from its first turn to its last.           *)
PushStep(h, p, i) == PushTurn(p)
Pushing_ == INSTANCE Recursion WITH Step <- PushStep

(* After i turns of the loop: it is over, or has climbed i levels.         *)
Climbed(h, mode, m, i, p) ==
  /\ p.total \in Nat \ {0}
  /\ p.hasher.chunk_counter = h.chunk_counter
  /\ \E level \in Nat : /\ Climbing(p.hasher, mode, m, level, p.total, p.cv)
                        /\ p.total % 2 = 1 \/ level = i

LEMMA ClimbTurns ==
  ASSUME NEW h, NEW mode, NEW m, NEW i \in Nat, NEW p,
         Climbed(h, mode, m, i, p)
  PROVE  Climbed(h, mode, m, i + 1, PushTurn(p))
<1> DEFINE q == PushTurn(p)
           t == p.total
<1>1. /\ t \in Nat \ {0} /\ p.hasher.chunk_counter = h.chunk_counter
  BY DEF Climbed
<1>2. PICK level \in Nat : /\ Climbing(p.hasher, mode, m, level, t, p.cv)
                           /\ t % 2 = 1 \/ level = i
  BY DEF Climbed
<1>3. CASE t % 2 = 1
  <2>1. q = p
    BY <1>3 DEF PushTurn
  <2>2. QED
    BY <1>1, <1>2, <1>3, <2>1 DEF Climbed
<1>4. CASE t % 2 = 0
  <2>1. /\ q.hasher = PopTop(p.hasher)
        /\ q.cv = MergedCV(p.hasher, p.cv)
        /\ q.total = t \div 2
    BY <1>4 DEF PushTurn
  <2>2. level = i
    BY <1>2, <1>4
  <2> HIDE DEF t, q
  <2>3. /\ t \div 2 \in Nat \ {0}
        /\ PopTop(p.hasher).chunk_counter = p.hasher.chunk_counter
        /\ Climbing(PopTop(p.hasher), mode, m, level + 1, t \div 2,
                    MergedCV(p.hasher, p.cv))
    BY <1>1, <1>2, <1>4, ClimbMerges
  <2>4. /\ q.total \in Nat \ {0}
        /\ q.hasher.chunk_counter = h.chunk_counter
        /\ Climbing(q.hasher, mode, m, i + 1, q.total, q.cv)
    BY <1>1, <2>1, <2>2, <2>3
  <2>5. i + 1 \in Nat
    OBVIOUS
  <2>6. Climbed(h, mode, m, i + 1, q)
    BY <2>4, <2>5 DEF Climbed
  <2>7. QED
    BY <2>6 DEF q
<1>5. t % 2 = 1 \/ t % 2 = 0
  <2> HIDE DEF t
  <2> QED BY <1>1
<1>6. QED
  BY <1>3, <1>4, <1>5

LEMMA PushSettles ==
  ASSUME NEW h, NEW mode, NEW m, NEW cv, Settled(h, mode, m),
         cv = TreeCV(mode, m, 1, h.chunk_counter),
         Ones[h.chunk_counter + 1] <= MaxDepth
  PROVE  LET n == h.chunk_counter + 1
             g == NextChunk(HasherPushCV(h, cv, n), n)
         IN  Settled(g, mode, m) /\ g.chunk_counter = n /\ g.chunk_buf = <<>>
<1> DEFINE c == h.chunk_counter
           n == c + 1
           base == [hasher |-> h, cv |-> cv, total |-> n]
           turn == CHOOSE f : f = [i \in 0..n |->
                     IF i = 0 THEN base ELSE PushStep(h, f[i - 1], i)]
           last == turn[n]
<1>1. HasherPushCV(h, cv, n) = PushTop(last.hasher, last.cv)
  BY DEF HasherPushCV, PushStep
<1>2. c \in Nat
  BY DEF Settled, Struct
<1>3. n \in Nat \ {0}
  BY <1>2
<1>4. Pushing_!IsRecursion(turn, h, base, n)
  BY DEF Pushing_!IsRecursion
<1>5. Climbed(h, mode, m, 0, base)
  <2>1. Climbing(h, mode, m, 0, n, cv)
    BY ClimbStarts
  <2>2. base.hasher = h /\ base.cv = cv /\ base.total = n
    OBVIOUS
  <2>3. 0 \in Nat
    OBVIOUS
  <2> HIDE DEF base, n
  <2>4. QED
    BY <1>3, <2>1, <2>2, <2>3 DEF Climbed
<1> HIDE DEF base, turn, n
<1>6. turn[0] = base /\ \A i \in 1..n : turn[i] = PushTurn(turn[i - 1])
  <2>1. n \in Nat
    BY <1>3
  <2>2. QED
    BY <1>4, <2>1, Pushing_!RecursionRuns DEF PushStep
<1> DEFINE T == {i \in Nat : i <= n => Climbed(h, mode, m, i, turn[i])}
<1>7. 0 \in T
  BY <1>5, <1>6
<1>8. ASSUME NEW i \in Nat, i \in T PROVE i + 1 \in T
  <2> SUFFICES ASSUME i + 1 <= n PROVE Climbed(h, mode, m, i + 1, turn[i + 1])
    OBVIOUS
  <2>1. i + 1 \in 1..n /\ (i + 1) - 1 = i /\ i <= n
    BY <1>3
  <2>2. Climbed(h, mode, m, i, turn[i])
    BY <1>8, <2>1
  <2>3. turn[i + 1] = PushTurn(turn[i])
    BY <1>6, <2>1
  <2>4. QED
    BY <2>2, <2>3, ClimbTurns
<1>9. Nat \subseteq T
  <2> HIDE DEF T
  <2> QED BY <1>7, <1>8, SetInduction
<1>10. Climbed(h, mode, m, n, last)
  BY <1>3, <1>9
<1> DEFINE t == last.total
<1>11. t \in Nat \ {0} /\ last.hasher.chunk_counter = c
  BY <1>10 DEF Climbed, c
<1> HIDE DEF t, last
<1>12. PICK level \in Nat : /\ Climbing(last.hasher, mode, m, level, t, last.cv)
                            /\ t % 2 = 1 \/ level = n
  BY <1>10 DEF Climbed, t
<1>13. t % 2 = 1
  <2> SUFFICES ASSUME level = n PROVE FALSE
    BY <1>12
  <2>1. t * Pow2[n] = n
    BY <1>11, <1>12 DEF Climbing, n
  <2> DEFINE w == Pow2[n]
  <2>2. w \in Nat /\ n < w
    BY <1>3, Pow2Facts
  <2> HIDE DEF w
  <2>3. t * w = n
    BY <2>1 DEF w
  <2>4. w <= t * w
    <3>1. 1 \in Nat /\ 1 <= t /\ w \in Nat \ {0}
      BY <1>3, <1>11, <2>2
    <3>2. 1 * w <= t * w
      BY <1>11, <3>1, Multiples
    <3>3. QED
      BY <2>2, <3>2
  <2>5. QED
    BY <1>3, <2>2, <2>3, <2>4
<1> DEFINE g == NextChunk(PushTop(last.hasher, last.cv), n)
<1>14. Settled(g, mode, m) /\ g.chunk_counter = n /\ g.chunk_buf = <<>>
  <2>1. Ones[last.hasher.chunk_counter + 1] <= MaxDepth
        /\ last.hasher.chunk_counter + 1 = n
    BY <1>11 DEF c, n
  <2>2. QED
    BY <1>11, <1>12, <1>13, <2>1, ClimbEnds
<1>15. QED
  BY <1>1, <1>14 DEF n, c

-----------------------------------------------------------------------------
(* blake4_hasher_update.                                                   *)

(* The stack has a slot for each one bit of every chunk count reached.     *)
Fits(m) == \A n \in Nat : n * ChunkLen <= Len(m) => Ones[n] <= MaxDepth

OneByte(m, p) == <<m[p + 1]>>

LEMMA OneByteWindow ==
  ASSUME NEW m \in Seq(Nat), NEW p \in Nat, p + 1 <= Len(m)
  PROVE  SubSeq(m, p + 1, p + 1) = OneByte(m, p)
<1> DEFINE q == p + 1
           u == SubSeq(m, q, q)
           v == OneByte(m, p)
<1>1. q \in Nat /\ q >= 1 /\ q <= q + 1 /\ q - q + 1 = 1 /\ Len(m) \in Nat
      /\ q \in 1..Len(m)
  BY LenProperties
<1>2. m[q] \in Nat
  BY <1>1, ElementOfSeq
<1>3. u \in Seq(Nat) /\ Len(u) = 1 /\ \A i \in 1..1 : u[i] = m[q + i - 1]
  <2> HIDE DEF q
  <2>1. u \in Seq(Nat) /\ Len(u) = q - q + 1
        /\ \A i \in 1..(q - q + 1) : u[i] = m[q + i - 1]
    BY <1>1, WindowFacts DEF q
  <2>2. QED
    BY <1>1, <2>1
<1>4. v \in Seq(Nat) /\ Len(v) = 1 /\ v[1] = m[q]
  BY <1>2 DEF OneByte
<1> HIDE DEF v
<1>5. \A i \in 1..1 : u[i] = v[i]
  <2> HIDE DEF u, q
  <2>1. q + 1 - 1 = q /\ 1 \in 1..1 /\ \A i \in 1..1 : i = 1
    BY <1>1
  <2>2. QED
    BY <1>3, <1>4, <2>1
<1> HIDE DEF u
<1>6. u = v
  <2>1. 1 \in Nat
    OBVIOUS
  <2>2. QED
    BY <1>3, <1>4, <1>5, SeqEqual
<1>7. QED
  BY <1>6 DEF u, v, q

(* The chunk in a full buffer is flushed.                                  *)
FlushFull(h) ==
  NextChunk(HasherPushCV(h, ChainingValue(ChunkOutput(h)), h.chunk_counter + 1),
            h.chunk_counter + 1)

LEMMA FlushFullReads ==
  ASSUME NEW h, NEW mode, NEW m, NEW p, Reading(h, mode, m, p), p < Len(m),
         Len(h.chunk_buf) = ChunkLen, Fits(m)
  PROVE  Reading(FlushFull(h), mode, m, p) /\ FlushFull(h).chunk_buf = <<>>
<1> DEFINE c == h.chunk_counter
           n == c + 1
           cv == ChainingValue(ChunkOutput(h))
           g == FlushFull(h)
<1>1. /\ c \in Nat /\ ChunkLen \in Nat /\ Len(m) \in Nat
      /\ (c + 1) * ChunkLen = c * ChunkLen + ChunkLen
  BY ReadingFacts
<1>2. p \in Nat /\ p = c * ChunkLen + ChunkLen /\ Settled(h, mode, m)
  BY DEF Reading
<1>3. cv = TreeCV(mode, m, 1, c)
  BY ChunkOutputIs DEF TreeCV
<1>4. Ones[n] <= MaxDepth
  <2>1. n \in Nat /\ n * ChunkLen <= Len(m)
    BY <1>1, <1>2
  <2> HIDE DEF n
  <2>2. QED
    BY <2>1 DEF Fits
<1>5. Settled(g, mode, m) /\ g.chunk_counter = n /\ g.chunk_buf = <<>>
  BY <1>2, <1>3, <1>4, PushSettles DEF FlushFull
<1> HIDE DEF g
<1>6. Reading(g, mode, m, p)
  BY <1>5, FlushReads
<1>7. QED
  BY <1>5, <1>6 DEF g

LEMMA AbsorbByteReads ==
  ASSUME NEW h, NEW mode, NEW m, NEW p, Reading(h, mode, m, p), p < Len(m),
         Fits(m)
  PROVE  Reading(AbsorbByte(h, m[p + 1]), mode, m, p + 1)
<1>0. /\ Len(m) \in Nat /\ Len(h.chunk_buf) \in Nat /\ ChunkLen \in Nat
      /\ ChunkLen >= 1
  BY ReadingFacts
<1>1. p \in Nat /\ m \in Seq(Nat) /\ Len(h.chunk_buf) <= ChunkLen
  BY DEF Reading
<1>2. p + 1 <= Len(m)
  BY <1>0, <1>1
<1>3. SubSeq(m, p + 1, p + 1) = OneByte(m, p)
  BY <1>1, <1>2, OneByteWindow
<1>4. PICK f : /\ Reading(f, mode, m, p) /\ Len(f.chunk_buf) + 1 <= ChunkLen
               /\ AbsorbByte(h, m[p + 1]) = Buffer(f, OneByte(m, p))
  <2>1. CASE Len(h.chunk_buf) < ChunkLen
    <3>1. AbsorbByte(h, m[p + 1]) = Buffer(h, OneByte(m, p))
      BY <2>1 DEF AbsorbByte, OneByte
    <3>2. Len(h.chunk_buf) + 1 <= ChunkLen
      BY <1>0, <2>1
    <3>3. QED
      BY <3>1, <3>2
  <2>2. CASE Len(h.chunk_buf) = ChunkLen
    <3>1. ~(Len(h.chunk_buf) < ChunkLen)
      BY <1>0, <2>2
    <3>2. AbsorbByte(h, m[p + 1]) = Buffer(FlushFull(h), OneByte(m, p))
      BY <3>1 DEF AbsorbByte, OneByte, FlushFull
    <3>3. Reading(FlushFull(h), mode, m, p) /\ FlushFull(h).chunk_buf = <<>>
      BY <2>2, FlushFullReads
    <3>4. Len(FlushFull(h).chunk_buf) + 1 <= ChunkLen
      <4>1. Len(<<>>) = 0
        BY EmptySeq
      <4>2. QED
        BY <1>0, <3>3, <4>1
    <3>5. QED
      BY <3>2, <3>3, <3>4
  <2>3. QED
    BY <1>0, <1>1, <2>1, <2>2
<1>5. 1 \in Nat \ {0}
  OBVIOUS
<1>6. Reading(Buffer(f, SubSeq(m, p + 1, p + 1)), mode, m, p + 1)
  BY <1>2, <1>4, <1>5, FillReads
<1>7. QED
  BY <1>3, <1>4, <1>6

AbsorbByteStep(x, h, byte) == AbsorbByte(h, byte)
Updating == INSTANCE Recursion WITH Step <- AbsorbByteStep

LEMMA UpdateFolds ==
  ASSUME NEW h, NEW x
  PROVE  Updating!IsFold(HasherUpdate(h, x), 0, h, x)
BY DEF Updating!IsFold, Updating!FoldTable, Updating!FoldStep, AbsorbByteStep,
       HasherUpdate, FoldLeft, MapThenFoldSet, Max, Updating!Max

(* However a message is cut in updates, the hasher reads all of it.        *)
THEOREM UpdateReads ==
  ASSUME NEW h, NEW mode, NEW m, NEW x \in Seq(Nat),
         Reading(h, mode, m, Len(m)), Fits(m \o x)
  PROVE  Reading(HasherUpdate(h, x), mode, m \o x, Len(m \o x))
<1> DEFINE p == Len(m)
           n == Len(x)
           longer == m \o x
<1>1. p \in Nat /\ m \in Seq(Nat) /\ n \in Nat /\ DOMAIN x = 1..n
  BY ReadingFacts, LenProperties DEF Reading
<1>2. Reading(h, mode, longer, p)
  BY GrowthReads
<1>3. /\ Len(longer) = p + n
      /\ \A i \in 1..n : longer[p + i] = x[i]
  <2>1. /\ Len(longer) = Len(m) + Len(x)
        /\ \A i \in 1..(Len(m) + Len(x)) :
             longer[i] = IF i <= Len(m) THEN m[i] ELSE x[i - Len(m)]
    BY <1>1, ConcatProperties
  <2> HIDE DEF longer
  <2>2. \A i \in 1..n : p + i \in 1..(p + n) /\ ~(p + i <= p) /\ (p + i) - p = i
    BY <1>1
  <2>3. QED
    BY <2>1, <2>2
<1>4. PICK t : Updating!IsRun(t, 0, h, x, n) /\ HasherUpdate(h, x) = t[n]
  <2> HIDE DEF n
  <2> QED BY <1>1, UpdateFolds, Updating!FoldRuns
<1>5. /\ t[0] = h
      /\ \A i \in 1..n : t[i] = AbsorbByte(t[i - 1], x[i])
  BY <1>4 DEF Updating!IsRun, AbsorbByteStep
<1> HIDE DEF longer, p, n
<1> DEFINE T == {i \in Nat : i <= n => Reading(t[i], mode, longer, p + i)}
<1>6. 0 \in T
  <2>1. p + 0 = p
    BY <1>1
  <2>2. QED
    BY <1>2, <1>5, <2>1
<1>7. ASSUME NEW i \in Nat, i \in T PROVE i + 1 \in T
  <2> SUFFICES ASSUME i + 1 <= n
               PROVE  Reading(t[i + 1], mode, longer, p + (i + 1))
    OBVIOUS
  <2>1. /\ i + 1 \in 1..n /\ (i + 1) - 1 = i /\ i <= n
        /\ p + (i + 1) = (p + i) + 1 /\ p + i < p + n
    BY <1>1
  <2>2. Reading(t[i], mode, longer, p + i)
    BY <1>7, <2>1
  <2>3. t[i + 1] = AbsorbByte(t[i], x[i + 1]) /\ x[i + 1] = longer[p + (i + 1)]
    BY <1>3, <1>5, <2>1
  <2>4. t[i + 1] = AbsorbByte(t[i], longer[(p + i) + 1])
    BY <2>1, <2>3
  <2>5. p + i < Len(longer) /\ Fits(longer)
    BY <1>3, <2>1 DEF longer
  <2> DEFINE r == p + i
  <2> HIDE DEF r
  <2>6. Reading(t[i], mode, longer, r) /\ r < Len(longer)
        /\ t[i + 1] = AbsorbByte(t[i], longer[r + 1])
    BY <2>2, <2>4, <2>5 DEF r
  <2>7. Reading(t[i + 1], mode, longer, r + 1)
    BY <2>5, <2>6, AbsorbByteReads
  <2>8. QED
    BY <2>1, <2>7 DEF r
<1>8. Nat \subseteq T
  <2> HIDE DEF T
  <2> QED BY <1>6, <1>7, SetInduction
<1>9. Reading(t[n], mode, longer, p + n)
  BY <1>1, <1>8
<1>10. QED
  BY <1>3, <1>4, <1>9 DEF longer

(* blake4_hasher_init, update, finalize_seek: the digest is the window of  *)
(* the output of the tree of the message, for every message the stack has  *)
(* slots for, every mode, position and length.                             *)
THEOREM HasherHashesMessage ==
  ASSUME NEW mode, NEW m \in Seq(Nat), Fits(m),
         NEW seek \in Nat, NEW out_len \in Nat
  PROVE  FinalizeSeek(HasherUpdate(InitHasher(mode.key, mode.flags), m),
                      seek, out_len)
           = XOF(mode, m, seek, out_len)
<1> DEFINE h == InitHasher(mode.key, mode.flags)
           none == <<>>
<1>1. none \in Seq(Nat) /\ Len(none) = 0 /\ none \o m = m
  BY EmptySeq, ConcatEmptySeq
<1>2. Reading(h, mode, none, Len(none))
  BY <1>1, InitReads
<1> HIDE DEF h, none
<1>3. Reading(HasherUpdate(h, m), mode, m, Len(m))
  BY <1>1, <1>2, UpdateReads
<1>4. RootNode(HasherUpdate(h, m)) = Root(mode, m)
  BY <1>3, RootNodeIs
<1>5. QED
  BY <1>4, OutputIs DEF FinalizeSeek, XOF, h

(* blake4_hasher_init_derive_key_raw hashes under the key that is derived  *)
(* from its context.                                                       *)
THEOREM DeriveKeyIs ==
  ASSUME NEW c \in Seq(Nat), Fits(c)
  PROVE  InitDeriveKey(c) = InitHasher(DeriveMode(c).key, DeriveMode(c).flags)
<1> DEFINE h == InitHasher(ContextMode.key, ContextMode.flags)
           none == <<>>
<1>1. none \in Seq(Nat) /\ Len(none) = 0 /\ none \o c = c
  BY EmptySeq, ConcatEmptySeq
<1>2. Reading(h, ContextMode, none, Len(none))
  BY <1>1, InitReads
<1> HIDE DEF h, none
<1>3. Reading(HasherUpdate(h, c), ContextMode, c, Len(c))
  BY <1>1, <1>2, UpdateReads
<1>4. RootNode(HasherUpdate(h, c)) = Root(ContextMode, c)
  BY <1>3, RootNodeIs
<1>5. h = InitHasher(IV, {"DERIVE_KEY_CONTEXT"})
  BY DEF h, ContextMode
<1>6. InitDeriveKey(c) = InitHasher(RootBlock(RootNode(HasherUpdate(h, c)), 0),
                                    {"DERIVE_KEY_MATERIAL"})
  BY <1>5 DEF InitDeriveKey
<1>7. QED
  BY <1>4, <1>6 DEF DeriveMode
-----------------------------------------------------------------------------
(* What the tree hash tells apart.  A message is its pieces.               *)

Pieces(s, size) == IF s = <<>> THEN 1 ELSE CeilDiv(Len(s), size)

LEMMA LastPiece ==
  ASSUME NEW s \in Seq(Nat), NEW size \in Nat \ {0},
         NEW d \in Nat, Pieces(s, size) = d + 1
  PROVE  d * size <= Len(s) /\ Len(s) <= d * size + size
<1>1. Len(s) \in Nat /\ (s = <<>> <=> Len(s) = 0)
  BY LenProperties, EmptySeq
<1>2. d * size \in Nat /\ (d + 1) * size = d * size + size
  BY Multiples
<1>3. CASE s = <<>>
  <2>1. d = 0
    BY <1>3 DEF Pieces
  <2>2. 0 * size = 0
    OBVIOUS
  <2>3. QED
    BY <1>1, <1>3, <2>1, <2>2
<1>4. CASE s # <<>>
  <2> DEFINE e == Len(s)
             k == d + 1
  <2>1. CeilDiv(e, size) = k
    BY <1>4 DEF Pieces
  <2>2. e \in Nat
    BY <1>1
  <2> HIDE DEF e, k
  <2>3. e <= k * size /\ k * size <= e + size - 1
    BY <2>1, <2>2, CeilDivCovers
  <2>4. k * size = d * size + size
    BY <1>2 DEF k
  <2> DEFINE p == d * size
  <2>5. p \in Nat /\ e <= p + size /\ p + size <= e + size - 1
    BY <1>2, <2>3, <2>4
  <2> HIDE DEF p
  <2>6. p <= e /\ e <= p + size
    BY <2>2, <2>5
  <2>7. QED
    BY <2>6 DEF p, e
<1>5. QED
  BY <1>3, <1>4

LEMMA PieceFacts ==
  ASSUME NEW s \in Seq(Nat), NEW size \in Nat \ {0}, NEW b \in Nat,
         b * size <= Len(s)
  PROVE  LET end == IF b * size + size <= Len(s) THEN b * size + size
                    ELSE Len(s)
         IN  /\ Piece(s, b, size) \in Seq(Nat)
             /\ Len(Piece(s, b, size)) = end - b * size
             /\ \A r \in 1..(end - b * size) :
                  Piece(s, b, size)[r] = s[b * size + r]
<1> DEFINE p == b * size
           e == Len(s)
           end == IF p + size <= e THEN p + size ELSE e
<1>1. e \in Nat /\ p \in Nat /\ (b + 1) * size = p + size
  BY LenProperties, Multiples
<1>2. Min({p + size, e}) = end
  BY <1>1, MinOfTwo
<1>3. Piece(s, b, size) = SubSeq(s, p + 1, end)
  BY <1>1, <1>2 DEF Piece
<1>4. p <= e
  OBVIOUS
<1> HIDE DEF p
<1>5. end \in Nat /\ p <= end /\ end <= Len(s)
  BY <1>1, <1>4
<1> HIDE DEF e, end
<1> DEFINE a == p + 1
<1>6. a \in Nat /\ a >= 1 /\ a <= end + 1 /\ end - a + 1 = end - p
      /\ \A r \in 1..(end - p) : a + r - 1 = p + r
  BY <1>1, <1>5
<1> HIDE DEF a
<1>7. /\ SubSeq(s, a, end) \in Seq(Nat)
      /\ Len(SubSeq(s, a, end)) = end - a + 1
      /\ \A i \in 1..(end - a + 1) : SubSeq(s, a, end)[i] = s[a + i - 1]
  BY <1>5, <1>6, WindowFacts
<1>8. /\ SubSeq(s, a, end) \in Seq(Nat)
      /\ Len(SubSeq(s, a, end)) = end - p
      /\ \A r \in 1..(end - p) : SubSeq(s, a, end)[r] = s[p + r]
  BY <1>6, <1>7
<1>9. QED
  BY <1>3, <1>8 DEF a, p, e, end

LEMMA PiecesSeparate ==
  ASSUME NEW x \in Seq(Nat), NEW y \in Seq(Nat), NEW size \in Nat \ {0},
         NEW d \in Nat, Pieces(x, size) = d + 1, Pieces(y, size) = d + 1,
         \A b \in 0..d : Piece(x, b, size) = Piece(y, b, size)
  PROVE  x = y
<1> DEFINE p == d * size
           lx == Len(x)
           ly == Len(y)
<1>1. lx \in Nat /\ ly \in Nat /\ p \in Nat
  BY LenProperties, Multiples
<1>2. p <= lx /\ lx <= p + size /\ p <= ly /\ ly <= p + size
  BY LastPiece
<1>3. /\ Len(Piece(x, d, size)) = (IF p + size <= lx THEN p + size ELSE lx) - p
      /\ Len(Piece(y, d, size)) = (IF p + size <= ly THEN p + size ELSE ly) - p
  BY <1>2, PieceFacts
<1>4. Piece(x, d, size) = Piece(y, d, size)
  OBVIOUS
<1>5. lx = ly
  <2> HIDE DEF p, lx, ly
  <2> QED BY <1>1, <1>2, <1>3, <1>4
<1>6. ASSUME NEW i \in 1..lx PROVE x[i] = y[i]
  <2> DEFINE b == (i - 1) \div size
             r == (i - 1) % size
             q == b * size
             k == r + 1
  <2>1. b \in Nat /\ r \in 0..(size - 1) /\ i - 1 = q + r
    <3> DEFINE j == i - 1
    <3>1. j \in Nat /\ size \in Nat /\ size > 0
      BY <1>1
    <3> HIDE DEF j
    <3>2. j \div size \in Nat /\ j % size \in 0..(size - 1)
          /\ j = (j \div size) * size + (j % size)
      BY <3>1, Division
    <3>3. QED
      BY <3>2 DEF j
  <2> HIDE DEF b, r
  <2>2. q \in Nat
    BY <2>1, Multiples
  <2>3. b <= d
    <3>1. SUFFICES ASSUME d < b PROVE FALSE
      BY <2>1
    <3>2. p + size <= q
      BY <2>1, <3>1, Multiples
    <3> HIDE DEF p, q, lx
    <3>3. QED
      BY <1>1, <1>2, <2>1, <2>2, <3>2
  <2>4. Piece(x, b, size) = Piece(y, b, size)
    BY <2>1, <2>3
  <2>5. q <= lx /\ q <= ly /\ k \in Nat /\ i = q + k
    <3> HIDE DEF q, lx, ly
    <3> QED BY <1>1, <1>5, <2>1, <2>2
  <2>6. k \in 1..((IF q + size <= lx THEN q + size ELSE lx) - q)
    <3> HIDE DEF q, lx
    <3> QED BY <1>1, <2>1, <2>2, <2>5 
  <2> HIDE DEF k
  <2>7. Piece(x, b, size)[k] = x[q + k]
    BY <2>1, <2>5, <2>6, PieceFacts
  <2>8. Piece(y, b, size)[k] = y[q + k]
    <3>1. k \in 1..((IF q + size <= ly THEN q + size ELSE ly) - q)
      BY <1>5, <2>6
    <3>2. QED
      BY <2>1, <2>5, <3>1, PieceFacts
  <2>9. QED
    BY <2>4, <2>5, <2>7, <2>8
<1>7. QED
  BY <1>5, <1>6, SeqEqual

LEMMA BlockCountPositive ==
  ASSUME NEW x \in Seq(Nat)
  PROVE  \E p \in Nat : BlockCount(x) = p + 1
<1>1. Len(x) \in Nat /\ (x = <<>> <=> Len(x) = 0) /\ BlockLen \in Nat \ {0}
  BY LenProperties, EmptySeq, LengthAssumption
<1>2. CASE x = <<>>
  BY <1>2 DEF BlockCount
<1>3. CASE x # <<>>
  <2> DEFINE n == CeilDiv(Len(x), BlockLen)
  <2>1. n \in Nat /\ Len(x) <= n * BlockLen
    BY <1>1, CeilDivCovers
  <2> HIDE DEF n
  <2>2. 0 * BlockLen = 0
    BY <1>1
  <2>3. n # 0
    BY <1>1, <1>3, <2>1, <2>2
  <2>4. n - 1 \in Nat /\ n = (n - 1) + 1
    BY <2>1, <2>3
  <2>5. BlockCount(x) = (n - 1) + 1
    BY <1>3, <2>4 DEF BlockCount, n
  <2>6. QED
    BY <2>4, <2>5
<1>4. QED
  BY <1>2, <1>3

LEMMA PadSeparates ==
  ASSUME NEW a \in Seq(Nat), NEW b \in Seq(Nat), Len(a) = Len(b),
         Len(a) <= BlockLen, ZeroPad(a) = ZeroPad(b)
  PROVE  a = b
<1>1. Len(a) \in Nat /\ BlockLen \in Nat
  BY LenProperties, LengthAssumption
<1>2. ASSUME NEW i \in 1..Len(a) PROVE a[i] = b[i]
  <2>1. i \in 1..BlockLen /\ i <= Len(a) /\ i <= Len(b)
    BY <1>1
  <2>2. ZeroPad(a)[i] = a[i] /\ ZeroPad(b)[i] = b[i]
    BY <2>1 DEF ZeroPad
  <2>3. QED
    BY <2>2
<1>3. QED
  BY <1>2, SeqEqual

(* Flags of a mode are never those that mark a node's place in the tree.   *)
Markers == {"CHUNK_START", "CHUNK_END", "PARENT", "ROOT"}

ModeIs(mode, key, flags) ==
  mode = [key |-> key, flags |-> flags] /\ flags \cap Markers = {}

IsMode(mode) == ModeIs(mode, mode.key, mode.flags)

LEMMA ModesEqual ==
  ASSUME NEW a, NEW b, IsMode(a), IsMode(b), a.key = b.key, a.flags = b.flags
  PROVE  a = b
BY DEF IsMode, ModeIs

(* What a node shows to the compression function but for its counter.      *)
SameInputs(o, q) ==
  /\ o.input_cv = q.input_cv /\ o.block = q.block
  /\ o.block_len = q.block_len /\ o.flags = q.flags

LEMMA BlockFlagsFacts ==
  ASSUME NEW mode, IsMode(mode), NEW bytes, NEW b
  PROVE  /\ "CHUNK_START" \in BlockFlags(mode, bytes, b) <=> b = 0
         /\ "PARENT" \notin BlockFlags(mode, bytes, b)
         /\ "ROOT" \notin BlockFlags(mode, bytes, b)
         /\ BlockFlags(mode, bytes, b) \ Markers = mode.flags
BY DEF BlockFlags, IsMode, ModeIs, Markers

LEMMA BlockFacts ==
  ASSUME NEW x \in Seq(Nat), NEW d \in Nat, BlockCount(x) = d + 1,
         NEW b \in 0..d
  PROVE  BlockAt(x, b) \in Seq(Nat) /\ Len(BlockAt(x, b)) <= BlockLen
<1>1. Pieces(x, BlockLen) = d + 1 /\ BlockLen \in Nat \ {0}
  BY LengthAssumption DEF Pieces, BlockCount
<1>2. d * BlockLen <= Len(x)
  BY <1>1, LastPiece
<1>3. b * BlockLen <= d * BlockLen /\ b * BlockLen \in Nat /\ d * BlockLen \in Nat
  BY <1>1, Multiples
<1> DEFINE p == b * BlockLen
           e == Len(x)
<1>4. p <= e /\ p \in Nat /\ e \in Nat
  BY <1>2, <1>3, LenProperties
<1>5. /\ Piece(x, b, BlockLen) \in Seq(Nat)
      /\ Len(Piece(x, b, BlockLen))
           = (IF p + BlockLen <= e THEN p + BlockLen ELSE e) - p
  BY <1>1, <1>4, PieceFacts
<1> HIDE DEF p, e
<1>6. Len(Piece(x, b, BlockLen)) <= BlockLen
  BY <1>1, <1>4, <1>5
<1>7. QED
  BY <1>5, <1>6 DEF BlockAt

(* Going down two equal chains from their ends, block by block.            *)
ChainsAgree(mode, x, i, p, nu, y, j, q, k) ==
  /\ ChunkChain(mode, x, i)[p - k] = ChunkChain(nu, y, j)[q - k]
  /\ BlockAt(x, p - k) = BlockAt(y, q - k)
  /\ BlockFlags(mode, x, p - k) = BlockFlags(nu, y, q - k)

LEMMA ChainStep ==
  ASSUME NEW mode, NEW x \in Seq(Nat), NEW i, NEW p \in Nat,
         NEW nu, NEW y \in Seq(Nat), NEW j, NEW q \in Nat, NEW k \in Nat,
         BlockCount(x) = p + 1, BlockCount(y) = q + 1,
         ChainsAgree(mode, x, i, p, nu, y, j, q, k), k + 1 <= p, k + 1 <= q
  PROVE  ChainsAgree(mode, x, i, p, nu, y, j, q, k + 1)
<1> DEFINE b == p - (k + 1)
           c == q - (k + 1)
           b1 == p - k
           c1 == q - k
<1>1. /\ b \in 0..p /\ c \in 0..q /\ b1 \in 1..(p + 1) /\ c1 \in 1..(q + 1)
      /\ b1 - 1 = b /\ c1 - 1 = c /\ p + 1 \in Nat /\ q + 1 \in Nat
  OBVIOUS
<1>2. ChunkChain(mode, x, i)[b1] = ChunkChain(nu, y, j)[c1]
  BY DEF ChainsAgree
<1> HIDE DEF b, c, b1, c1
<1>3. ChunkChain(mode, x, i)[b1] =
        Compress(ChunkChain(mode, x, i)[b], ZeroPad(BlockAt(x, b)),
                 Len(BlockAt(x, b)), i, BlockFlags(mode, x, b))
  <2>1. ChunkChain(mode, x, i)[b1] =
          Compress(ChunkChain(mode, x, i)[b1 - 1], ZeroPad(BlockAt(x, b1 - 1)),
                   Len(BlockAt(x, b1 - 1)), i, BlockFlags(mode, x, b1 - 1))
    BY <1>1, ChainFacts
  <2>2. QED
    BY <1>1, <2>1
<1>4. ChunkChain(nu, y, j)[c1] =
        Compress(ChunkChain(nu, y, j)[c], ZeroPad(BlockAt(y, c)),
                 Len(BlockAt(y, c)), j, BlockFlags(nu, y, c))
  <2>1. ChunkChain(nu, y, j)[c1] =
          Compress(ChunkChain(nu, y, j)[c1 - 1], ZeroPad(BlockAt(y, c1 - 1)),
                   Len(BlockAt(y, c1 - 1)), j, BlockFlags(nu, y, c1 - 1))
    BY <1>1, ChainFacts
  <2>2. QED
    BY <1>1, <2>1
<1>5. /\ ChunkChain(mode, x, i)[b] = ChunkChain(nu, y, j)[c]
      /\ ZeroPad(BlockAt(x, b)) = ZeroPad(BlockAt(y, c))
      /\ Len(BlockAt(x, b)) = Len(BlockAt(y, c))
      /\ BlockFlags(mode, x, b) = BlockFlags(nu, y, c)
  <2> DEFINE v1 == ChunkChain(mode, x, i)[b]
             z1 == ZeroPad(BlockAt(x, b))
             l1 == Len(BlockAt(x, b))
             f1 == BlockFlags(mode, x, b)
             v2 == ChunkChain(nu, y, j)[c]
             z2 == ZeroPad(BlockAt(y, c))
             l2 == Len(BlockAt(y, c))
             f2 == BlockFlags(nu, y, c)
  <2>1. Compress(v1, z1, l1, i, f1) = Compress(v2, z2, l2, j, f2)
    BY <1>2, <1>3, <1>4
  <2> HIDE DEF v1, z1, l1, f1, v2, z2, l2, f2
  <2>2. v1 = v2 /\ z1 = z2 /\ l1 = l2 /\ f1 = f2
    BY <2>1 DEF Compress
  <2>3. QED
    BY <2>2 DEF v1, z1, l1, f1, v2, z2, l2, f2
<1>6. BlockAt(x, b) = BlockAt(y, c)
  <2>1. BlockAt(x, b) \in Seq(Nat) /\ Len(BlockAt(x, b)) <= BlockLen
    BY <1>1, BlockFacts
  <2>2. BlockAt(y, c) \in Seq(Nat)
    BY <1>1, BlockFacts
  <2>3. QED
    BY <1>5, <2>1, <2>2, PadSeparates
<1>7. QED
  BY <1>5, <1>6 DEF ChainsAgree, b, c

LEMMA ChainsMeet ==
  ASSUME NEW mode, NEW x \in Seq(Nat), NEW i, NEW p \in Nat,
         NEW nu, NEW y \in Seq(Nat), NEW j, NEW q \in Nat,
         BlockCount(x) = p + 1, BlockCount(y) = q + 1,
         ChainsAgree(mode, x, i, p, nu, y, j, q, 0)
  PROVE  \A k \in Nat : k <= p /\ k <= q =>
           ChainsAgree(mode, x, i, p, nu, y, j, q, k)
<1> DEFINE T == {k \in Nat : k <= p /\ k <= q =>
                   ChainsAgree(mode, x, i, p, nu, y, j, q, k)}
<1>1. 0 \in T
  OBVIOUS
<1>2. ASSUME NEW n \in Nat, n \in T PROVE n + 1 \in T
  <2>1. SUFFICES ASSUME n + 1 <= p, n + 1 <= q
                 PROVE  ChainsAgree(mode, x, i, p, nu, y, j, q, n + 1)
    OBVIOUS
  <2>2. n <= p /\ n <= q
    BY <2>1
  <2>3. ChainsAgree(mode, x, i, p, nu, y, j, q, n)
    BY <1>2, <2>2
  <2>4. QED
    BY <2>1, <2>3, ChainStep
<1>3. Nat \subseteq T
  <2> HIDE DEF T
  <2> QED BY <1>1, <1>2, SetInduction
<1>4. QED
  BY <1>3

(* CHUNK_START tells where the chain of a chunk begins, so chunks whose    *)
(* last blocks agree agree in all.                                         *)
LEMMA ChunksSeparate ==
  ASSUME NEW mode, IsMode(mode), NEW x \in Seq(Nat), NEW i,
         NEW nu, IsMode(nu), NEW y \in Seq(Nat), NEW j,
         SameInputs(ChunkNode(mode, x, i), ChunkNode(nu, y, j))
  PROVE  mode = nu /\ x = y
<1>1. PICK p \in Nat : BlockCount(x) = p + 1
  BY BlockCountPositive
<1>2. PICK q \in Nat : BlockCount(y) = q + 1
  BY BlockCountPositive
<1>3. ChainsAgree(mode, x, i, p, nu, y, j, q, 0)
  <2>1. p + 1 - 1 = p /\ q + 1 - 1 = q /\ p - 0 = p /\ q - 0 = q
        /\ p \in 0..p /\ q \in 0..q
    OBVIOUS
  <2>2. /\ ChunkChain(mode, x, i)[p] = ChunkChain(nu, y, j)[q]
        /\ ZeroPad(BlockAt(x, p)) = ZeroPad(BlockAt(y, q))
        /\ Len(BlockAt(x, p)) = Len(BlockAt(y, q))
        /\ BlockFlags(mode, x, p) = BlockFlags(nu, y, q)
    BY <1>1, <1>2, <2>1 DEF SameInputs, ChunkNode, Node
  <2>3. BlockAt(x, p) = BlockAt(y, q)
    <3>1. BlockAt(x, p) \in Seq(Nat) /\ Len(BlockAt(x, p)) <= BlockLen
      BY <1>1, <2>1, BlockFacts
    <3>2. BlockAt(y, q) \in Seq(Nat)
      BY <1>2, <2>1, BlockFacts
    <3>3. QED
      BY <2>2, <3>1, <3>2, PadSeparates
  <2>4. QED
    BY <2>1, <2>2, <2>3 DEF ChainsAgree
<1>4. \A k \in Nat : k <= p /\ k <= q =>
        ChainsAgree(mode, x, i, p, nu, y, j, q, k)
  BY <1>1, <1>2, <1>3, ChainsMeet
<1>5. \A k \in Nat : k <= p /\ k <= q => (p - k = 0 <=> q - k = 0)
  BY <1>4, BlockFlagsFacts DEF ChainsAgree
<1>6. p = q
  <2>1. p <= q => q - p = 0
    BY <1>5
  <2>2. q <= p => p - q = 0
    BY <1>5
  <2>3. QED
    BY <2>1, <2>2
<1>7. \A b \in 0..p : BlockAt(x, b) = BlockAt(y, b)
  <2> TAKE b \in 0..p
  <2> DEFINE k == p - b
  <2>1. k \in Nat /\ k <= p /\ k <= q /\ p - k = b /\ q - k = b
    BY <1>6
  <2> HIDE DEF k
  <2>2. QED
    BY <1>4, <2>1 DEF ChainsAgree
<1>8. x = y
  <2>1. /\ Pieces(x, BlockLen) = p + 1 /\ Pieces(y, BlockLen) = p + 1
        /\ BlockLen \in Nat \ {0}
        /\ \A b \in 0..p : Piece(x, b, BlockLen) = Piece(y, b, BlockLen)
    BY <1>1, <1>2, <1>6, <1>7, LengthAssumption DEF Pieces, BlockCount, BlockAt
  <2>2. QED
    BY <2>1, PiecesSeparate
<1>9. mode.flags = nu.flags
  <2>1. BlockFlags(mode, x, p - 0) = BlockFlags(nu, y, q - 0)
    BY <1>3 DEF ChainsAgree
  <2>2. QED
    BY <2>1, BlockFlagsFacts
<1>10. mode.key = nu.key
  <2>1. p - p = 0 /\ q - p = 0 /\ p \in Nat /\ p <= p /\ p <= q
        /\ p + 1 \in Nat /\ q + 1 \in Nat
    BY <1>6
  <2>2. ChainsAgree(mode, x, i, p, nu, y, j, q, p)
    BY <1>4, <2>1
  <2>3. ChunkChain(mode, x, i)[0] = ChunkChain(nu, y, j)[0]
    BY <2>1, <2>2 DEF ChainsAgree
  <2>4. ChunkChain(mode, x, i)[0] = mode.key
    BY <1>1, <2>1, ChainFacts
  <2>5. ChunkChain(nu, y, j)[0] = nu.key
    BY <1>2, <2>1, ChainFacts
  <2>6. QED
    BY <2>3, <2>4, <2>5
<1>11. QED
  BY <1>8, <1>9, <1>10, ModesEqual

(* Nodes over n chunks of m from f on, and over l chunks of w from g on,   *)
(* that are the same only if they hash the same chunks in the same mode.   *)
SameSubtree(mode, m, n, f, nu, w, l, g) ==
  n = l /\ f = g /\ mode = nu /\ SameChunks(m, w, f, n)

CVsSeparate(mode, m, n, nu, w) ==
  \A l \in Nat \ {0} : \A f, g \in Nat :
    TreeCV(mode, m, n, f) = TreeCV(nu, w, l, g)
      => SameSubtree(mode, m, n, f, nu, w, l, g)

LEMMA PieceIsSeq ==
  ASSUME NEW s \in Seq(Nat), NEW size \in Nat \ {0}, NEW b \in Nat
  PROVE  Piece(s, b, size) \in Seq(Nat)
<1> DEFINE p == b * size
           e == Len(s)
           end == Min({p + size, e})
<1>1. e \in Nat /\ p \in Nat /\ (b + 1) * size = p + size
  BY LenProperties, Multiples
<1>2. CASE p <= e
  BY <1>2, PieceFacts
<1>3. CASE p > e
  <2> HIDE DEF p
  <2>1. end = e
    BY <1>1, <1>3, MinOfTwo
  <2>2. Piece(s, b, size) = SubSeq(s, p + 1, e)
    BY <1>1, <2>1 DEF Piece, p
  <2> HIDE DEF e
  <2>3. p + 1 \in Int /\ e \in Int /\ e < p + 1
    BY <1>1, <1>3
  <2>4. SubSeq(s, p + 1, e) = <<>>
    BY <2>3, SubSeqEmpty
  <2>5. QED
    BY <2>2, <2>4, EmptySeq
<1>4. QED
  BY <1>1, <1>2, <1>3

LEMMA LeavesSeparate ==
  ASSUME NEW mode, IsMode(mode), NEW m \in Seq(Nat),
         NEW nu, IsMode(nu), NEW w \in Seq(Nat), NEW f \in Nat,
         SameInputs(TreeNode(mode, m, 1, f), TreeNode(nu, w, 1, f))
  PROVE  SameSubtree(mode, m, 1, f, nu, w, 1, f)
<1>1. /\ TreeNode(mode, m, 1, f) = ChunkNode(mode, Piece(m, f, ChunkLen), f)
      /\ TreeNode(nu, w, 1, f) = ChunkNode(nu, Piece(w, f, ChunkLen), f)
  BY SubtreeEquation
<1>2. Piece(m, f, ChunkLen) \in Seq(Nat) /\ Piece(w, f, ChunkLen) \in Seq(Nat)
  BY PieceIsSeq, LengthAssumption
<1>3. mode = nu /\ Piece(m, f, ChunkLen) = Piece(w, f, ChunkLen)
  BY <1>1, <1>2, ChunksSeparate
<1>4. \A i \in f..(f + 1 - 1) : i = f
  OBVIOUS
<1>5. QED
  BY <1>3, <1>4 DEF SameSubtree, SameChunks

(* PARENT tells a leaf from a parent.                                      *)
LEMMA LeafOrParent ==
  ASSUME NEW mode, IsMode(mode), NEW m, NEW n \in Nat \ {0}, NEW f \in Nat
  PROVE  /\ "PARENT" \in TreeNode(mode, m, n, f).flags <=> n # 1
         /\ "ROOT" \notin TreeNode(mode, m, n, f).flags
         /\ n # 1 => /\ LeftSize(n) \in 1..(n - 1)
                     /\ TreeNode(mode, m, n, f) =
                          ParentNode(mode, TreeCV(mode, m, LeftSize(n), f),
                            TreeCV(mode, m, n - LeftSize(n), f + LeftSize(n)))
<1>1. CASE n = 1
  <2>1. TreeNode(mode, m, n, f) = ChunkNode(mode, Piece(m, f, ChunkLen), f)
    BY <1>1, SubtreeEquation
  <2>2. \E b : TreeNode(mode, m, n, f).flags =
                 BlockFlags(mode, Piece(m, f, ChunkLen), b)
    BY <2>1 DEF ChunkNode, Node
  <2>3. QED
    BY <1>1, <2>2, BlockFlagsFacts
<1>2. CASE n # 1
  <2>1. TreeNode(mode, m, n, f) =
          ParentNode(mode, TreeCV(mode, m, LeftSize(n), f),
            TreeCV(mode, m, n - LeftSize(n), f + LeftSize(n)))
    BY <1>2, SubtreeEquation
  <2>2. LeftSize(n) \in 1..(n - 1)
    BY <1>2, LeftSizeIsSmaller
  <2>3. TreeNode(mode, m, n, f).flags = mode.flags \cup {"PARENT"}
    BY <2>1 DEF ParentNode, Node
  <2>4. QED
    BY <1>2, <2>1, <2>2, <2>3 DEF IsMode, ModeIs, Markers
<1>3. QED
  BY <1>1, <1>2

LEMMA NodesSeparate ==
  ASSUME NEW mode, IsMode(mode), NEW m \in Seq(Nat), NEW n \in Nat \ {0},
         NEW nu, IsMode(nu), NEW w \in Seq(Nat), NEW l \in Nat \ {0},
         NEW f \in Nat, NEW g \in Nat,
         SameInputs(TreeNode(mode, m, n, f), TreeNode(nu, w, l, g)),
         n = 1 /\ l = 1 => f = g,
         \A k \in 1..(n - 1) : CVsSeparate(mode, m, k, nu, w)
  PROVE  SameSubtree(mode, m, n, f, nu, w, l, g)
<1>1. n = 1 <=> l = 1
  BY LeafOrParent DEF SameInputs
<1>2. CASE n = 1
  BY <1>1, <1>2, LeavesSeparate
<1>3. CASE n # 1
  <2> DEFINE a == LeftSize(n)
             b == LeftSize(l)
  <2>1. /\ a \in 1..(n - 1) /\ b \in 1..(l - 1)
        /\ TreeNode(mode, m, n, f) =
             ParentNode(mode, TreeCV(mode, m, a, f), TreeCV(mode, m, n - a, f + a))
        /\ TreeNode(nu, w, l, g) =
             ParentNode(nu, TreeCV(nu, w, b, g), TreeCV(nu, w, l - b, g + b))
    BY <1>1, <1>3, LeafOrParent
  <2> HIDE DEF a, b
  <2>2. /\ TreeCV(mode, m, a, f) = TreeCV(nu, w, b, g)
        /\ TreeCV(mode, m, n - a, f + a) = TreeCV(nu, w, l - b, g + b)
    BY <2>1 DEF SameInputs, ParentNode, Node
  <2>3. /\ a \in Nat \ {0} /\ b \in Nat \ {0} /\ a \in 1..(n - 1)
        /\ n - a \in 1..(n - 1) /\ l - b \in Nat \ {0}
        /\ f + a \in Nat /\ g + b \in Nat
    BY <2>1
  <2>4. SameSubtree(mode, m, a, f, nu, w, b, g)
    BY <2>2, <2>3 DEF CVsSeparate
  <2>5. SameSubtree(mode, m, n - a, f + a, nu, w, l - b, g + b)
    BY <2>2, <2>3 DEF CVsSeparate
  <2>6. mode = nu /\ f = g /\ a = b /\ n - a = l - b
    BY <2>4, <2>5 DEF SameSubtree
  <2>7. n = l
    BY <2>3, <2>6
  <2>8. \A i \in f..(f + n - 1) :
          i \in f..(f + a - 1) \/ i \in (f + a)..((f + a) + (n - a) - 1)
    BY <2>3
  <2>9. SameChunks(m, w, f, n)
    BY <2>4, <2>5, <2>8 DEF SameSubtree, SameChunks
  <2>10. QED
    BY <2>6, <2>7, <2>9 DEF SameSubtree
<1>4. QED
  BY <1>2, <1>3

LEMMA SubtreesSeparate ==
  ASSUME NEW mode, IsMode(mode), NEW m \in Seq(Nat),
         NEW nu, IsMode(nu), NEW w \in Seq(Nat)
  PROVE  \A n \in Nat \ {0} : CVsSeparate(mode, m, n, nu, w)
<1> DEFINE T == {n \in Nat : n # 0 => CVsSeparate(mode, m, n, nu, w)}
<1>1. ASSUME NEW n \in Nat, (0..(n - 1)) \subseteq T PROVE n \in T
  <2> SUFFICES ASSUME n # 0, NEW l \in Nat \ {0}, NEW f \in Nat, NEW g \in Nat,
                      TreeCV(mode, m, n, f) = TreeCV(nu, w, l, g)
               PROVE  SameSubtree(mode, m, n, f, nu, w, l, g)
    BY DEF CVsSeparate
  <2>1. \A k \in 1..(n - 1) : CVsSeparate(mode, m, k, nu, w)
    BY <1>1
  <2>2. SameInputs(TreeNode(mode, m, n, f), TreeNode(nu, w, l, g))
        /\ TreeNode(mode, m, n, f).counter = TreeNode(nu, w, l, g).counter
    BY DEF TreeCV, ChainingValue, Compress, SameInputs
  <2>3. n = 1 /\ l = 1 => f = g
    <3>1. SUFFICES ASSUME n = 1, l = 1 PROVE f = g
      OBVIOUS
    <3>2. /\ TreeNode(mode, m, n, f) = ChunkNode(mode, Piece(m, f, ChunkLen), f)
          /\ TreeNode(nu, w, l, g) = ChunkNode(nu, Piece(w, g, ChunkLen), g)
      BY <3>1, SubtreeEquation
    <3>3. QED
      BY <2>2, <3>2 DEF ChunkNode, Node
  <2>4. QED
    BY <2>1, <2>2, <2>3, NodesSeparate
<1>2. Nat \subseteq T
  <2> HIDE DEF T
  <2> QED BY <1>1, StrongSetInduction
<1>3. QED
  BY <1>2

LEMMA WithoutMark ==
  ASSUME NEW F, NEW G, NEW r, r \notin F, r \notin G,
         F \cup {r} = G \cup {r}
  PROVE  F = G
<1>1. \A x : x \in F <=> x \in G
  OBVIOUS
<1>2. QED
  BY <1>1

LEMMA NumChunksPositive ==
  ASSUME NEW m \in Seq(Nat)
  PROVE  \E d \in Nat : NumChunks(m) = d + 1 /\ Pieces(m, ChunkLen) = d + 1
<1>1. Len(m) \in Nat /\ (m = <<>> <=> Len(m) = 0) /\ ChunkLen \in Nat \ {0}
  BY LenProperties, EmptySeq, LengthAssumption
<1>2. CASE m = <<>>
  BY <1>2 DEF NumChunks, Pieces
<1>3. CASE m # <<>>
  <2> DEFINE n == CeilDiv(Len(m), ChunkLen)
  <2>1. n \in Nat /\ Len(m) <= n * ChunkLen
    BY <1>1, CeilDivCovers
  <2> HIDE DEF n
  <2>2. 0 * ChunkLen = 0
    BY <1>1
  <2>3. n # 0
    BY <1>1, <1>3, <2>1, <2>2
  <2>4. n - 1 \in Nat /\ n = (n - 1) + 1
    BY <2>1, <2>3
  <2>5. NumChunks(m) = (n - 1) + 1 /\ Pieces(m, ChunkLen) = (n - 1) + 1
    BY <1>3, <2>4 DEF NumChunks, Pieces, n
  <2>6. QED
    BY <2>4, <2>5
<1>4. QED
  BY <1>2, <1>3

(* With an ideal compression function the tree hash is one to one: the     *)
(* flags, counters, lengths and shapes of blake4.c keep apart the roots of *)
(* any two messages of any length and of any two modes, whatever their     *)
(* keys are.                                                               *)
THEOREM RootsSeparate ==
  ASSUME NEW mode, IsMode(mode), NEW m \in Seq(Nat),
         NEW nu, IsMode(nu), NEW w \in Seq(Nat),
         RootBlock(Root(mode, m), 0) = RootBlock(Root(nu, w), 0)
  PROVE  mode = nu /\ m = w
<1>1. PICK d \in Nat : NumChunks(m) = d + 1 /\ Pieces(m, ChunkLen) = d + 1
  BY NumChunksPositive
<1>2. PICK e \in Nat : NumChunks(w) = e + 1 /\ Pieces(w, ChunkLen) = e + 1
  BY NumChunksPositive
<1> DEFINE n == d + 1
           l == e + 1
           o == TreeNode(mode, m, n, 0)
           q == TreeNode(nu, w, l, 0)
<1>3. n \in Nat \ {0} /\ l \in Nat \ {0} /\ 0 \in Nat
  OBVIOUS
<1>4. Root(mode, m) = o /\ Root(nu, w) = q
  BY <1>1, <1>2 DEF Root, TreeNode
<1>5. SameInputs(o, q)
  <2>1. "ROOT" \notin o.flags /\ "ROOT" \notin q.flags
    BY <1>3, LeafOrParent
  <2>2. RootBlock(o, 0) = RootBlock(q, 0)
    BY <1>4
  <2> HIDE DEF o, q
  <2>3. /\ o.input_cv = q.input_cv /\ o.block = q.block
        /\ o.block_len = q.block_len
        /\ o.flags \cup {"ROOT"} = q.flags \cup {"ROOT"}
    BY <2>2 DEF RootBlock, Compress
  <2>4. o.flags = q.flags
    BY <2>1, <2>3, WithoutMark
  <2>5. QED
    BY <2>3, <2>4 DEF SameInputs
<1>6. \A k \in 1..(n - 1) : CVsSeparate(mode, m, k, nu, w)
  BY SubtreesSeparate
<1> HIDE DEF n, l
<1>7. SameSubtree(mode, m, n, 0, nu, w, l, 0)
  BY <1>3, <1>5, <1>6, NodesSeparate
<1>8. mode = nu /\ n = l /\ SameChunks(m, w, 0, n)
  BY <1>7 DEF SameSubtree
<1>9. d = e /\ \A b \in 0..d : Piece(m, b, ChunkLen) = Piece(w, b, ChunkLen)
  <2>1. d = e /\ 0 + n - 1 = d
    BY <1>8 DEF n, l
  <2>2. QED
    BY <1>8, <2>1 DEF SameChunks
<1>10. m = w
  BY <1>1, <1>2, <1>9, LengthAssumption, PiecesSeparate
<1>11. QED
  BY <1>8, <1>10
=============================================================================
