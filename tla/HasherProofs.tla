---------------------------- MODULE HasherProofs ----------------------------
(***************************************************************************)
(* Theorems about Hasher, for every block and chunk length, every depth    *)
(* that covers MaxLen and every set of inputs: the CV stack is never       *)
(* popped when empty nor pushed when full, its length is the number of one *)
(* bits of the chunk counter, no byte is lost or counted twice, and each   *)
(* digest is the window of the reference tree hash that HashSpec promises, *)
(* which no other mode and message give.                                   *)
(***************************************************************************)
EXTENDS Hasher, TreeProofs

-----------------------------------------------------------------------------
(* The struct operations, field by field.                                  *)

LEMMA TypeFacts ==
  ASSUME NEW h, HasherType(h)
  PROVE  /\ h.chunk_counter \in Nat
         /\ h.cv_stack_len \in 0..255
         /\ h.cv_stack_len \in Nat
         /\ h.chunk_buf \in Seq(Nat)
         /\ Len(h.chunk_buf) \in Nat
<1>1. h.chunk_counter \in Nat /\ h.cv_stack_len \in 0..255
      /\ h.chunk_buf \in Seq(Nat)
  BY Zenon DEF HasherType
<1> HIDE DEF HasherType
<1>2. Len(h.chunk_buf) \in Nat
  BY <1>1, LenProperties
<1>3. \A x \in 0..255 : x \in Nat
  OBVIOUS
<1>4. QED
  BY <1>1, <1>2, <1>3, Zenon

LEMMA InitHasherFacts ==
  ASSUME NEW key, NEW flags
  PROVE  LET h == InitHasher(key, flags)
         IN  /\ HasherType(h)
             /\ h.chunk_counter = 0
             /\ h.chunk_buf = <<>>
             /\ h.cv_stack_len = 0
BY DEF InitHasher, HasherType, Slots

LEMMA FreshFacts ==
  ASSUME NEW f \in Fresh
  PROVE  \E key, flags : f.hasher = InitHasher(key, flags)
BY DEF Fresh, InitPlain, InitKeyed, InitDeriveKey

LEMMA PopTopFacts ==
  ASSUME NEW h, HasherType(h), h.cv_stack_len > 0
  PROVE  /\ HasherType(PopTop(h))
         /\ PopTop(h).cv_stack_len = h.cv_stack_len - 1
         /\ PopTop(h).chunk_counter = h.chunk_counter
         /\ PopTop(h).chunk_buf = h.chunk_buf
<1> DEFINE len == PopLen(h)
<1>1. h.cv_stack_len \in 1..255
  BY DEF HasherType
<1>2. len = h.cv_stack_len - 1 /\ len \in 0..255
  BY <1>1 DEF PopLen
<1>3. PopTop(h) = [h EXCEPT !.cv_stack_len = len]
  BY DEF PopTop
<1> HIDE DEF len
<1>4. QED
  BY <1>2, <1>3 DEF HasherType

LEMMA Wraps == \A x \in 0..255 : (x + 255) % 256 \in 0..255
                              /\ (x + 1) % 256 \in 0..255
OBVIOUS

(* Also of an empty stack: the index wraps to 255.                         *)
LEMMA PopTopType ==
  ASSUME NEW h, HasherType(h)
  PROVE  HasherType(PopTop(h))
<1> DEFINE len == PopLen(h)
<1>1. len \in 0..255
  <2>1. h.cv_stack_len \in 0..255
    BY Zenon DEF HasherType
  <2>2. QED
    BY <2>1, Wraps, Zenon DEF PopLen
<1>2. PopTop(h) = [h EXCEPT !.cv_stack_len = len]
  BY DEF PopTop
<1> HIDE DEF len
<1>3. QED
  BY <1>1, <1>2 DEF HasherType

LEMMA PushTopFacts ==
  ASSUME NEW h, NEW cv, NEW n \in Nat, HasherType(h), h.cv_stack_len < MaxDepth
  PROVE  LET g == NextChunk(PushTop(h, cv), n)
         IN  /\ HasherType(g)
             /\ g.cv_stack_len = h.cv_stack_len + 1
             /\ g.chunk_counter = n
             /\ g.chunk_buf = <<>>
<1> DEFINE p == PushTop(h, cv)
           stack == [h.cv_stack EXCEPT ![h.cv_stack_len] = cv]
           len == (h.cv_stack_len + 1) % 256
<1>1. DOMAIN stack = Slots
  BY DEF HasherType
<1>2. len = h.cv_stack_len + 1 /\ len \in 0..255
  <2>1. h.cv_stack_len \in 0..255
    BY DEF HasherType
  <2>2. h.cv_stack_len < 254
    BY <2>1, DepthAssumption
  <2>3. QED
    BY <2>1, <2>2
<1>3. p = [h EXCEPT !.cv_stack = stack, !.cv_stack_len = len]
  BY DEF PushTop
<1> HIDE DEF p, stack, len
<1>4. p = [ cv |-> h.cv, key_words |-> h.key_words,
            chunk_counter |-> h.chunk_counter, chunk_buf |-> h.chunk_buf,
            cv_stack |-> stack, cv_stack_len |-> len, flags |-> h.flags ]
  BY <1>3, Zenon DEF HasherType
<1>5. NextChunk(p, n) =
        [ cv |-> h.cv, key_words |-> h.key_words,
          chunk_counter |-> n, chunk_buf |-> <<>>,
          cv_stack |-> stack, cv_stack_len |-> len, flags |-> h.flags ]
  <2>1. NextChunk(p, n) = [p EXCEPT !.chunk_counter = n, !.chunk_buf = <<>>]
    BY DEF NextChunk
  <2>2. QED
    BY <1>4, <2>1, Zenon
<1>6. QED
  BY <1>1, <1>2, <1>5 DEF HasherType, p

(* Also on a stack that is full, or has left its array.                    *)
LEMMA PushedType ==
  ASSUME NEW h, HasherType(h), NEW cv, NEW g \in Pushed(h, cv), NEW n \in Nat
  PROVE  HasherType(NextChunk(g, n))
<1>1. CASE h.cv_stack_len < MaxDepth
  <2>1. g = PushTop(h, cv)
    BY <1>1 DEF Pushed
  <2>2. QED
    BY <1>1, <2>1, PushTopFacts
<1>2. CASE ~(h.cv_stack_len < MaxDepth)
  <2>1. PICK len, flags :
          /\ len \in 0..255
          /\ g = [h EXCEPT !.cv_stack_len = len, !.flags = flags]
    <3>1. CASE h.cv_stack_len = MaxDepth
      <4>1. PICK o \in Overruns :
              g = [h EXCEPT !.cv_stack_len = o.cv_stack_len, !.flags = o.flags]
        BY <1>2, <3>1 DEF Pushed
      <4>2. o.cv_stack_len \in 0..255
        BY OthersAssumption
      <4>3. QED
        BY <4>1, <4>2
    <3>2. CASE h.cv_stack_len # MaxDepth
      <4> DEFINE len == (h.cv_stack_len + 1) % 256
      <4>1. len \in 0..255
        <5>1. h.cv_stack_len \in 0..255
          BY Zenon DEF HasherType
        <5>2. QED
          BY <5>1, Wraps, Zenon
      <4>2. g = [h EXCEPT !.cv_stack_len = len]
        BY <1>2, <3>2 DEF Pushed
      <4> HIDE DEF len
      <4>3. g = [h EXCEPT !.cv_stack_len = len, !.flags = h.flags]
        BY <4>2 DEF HasherType
      <4>4. QED
        BY <4>1, <4>3
    <3>3. QED
      BY <3>1, <3>2
  <2>2. g = [ cv |-> h.cv, key_words |-> h.key_words,
              chunk_counter |-> h.chunk_counter, chunk_buf |-> h.chunk_buf,
              cv_stack |-> h.cv_stack, cv_stack_len |-> len, flags |-> flags ]
    BY <2>1, Zenon DEF HasherType
  <2>3. NextChunk(g, n) =
          [ cv |-> h.cv, key_words |-> h.key_words,
            chunk_counter |-> n, chunk_buf |-> <<>>,
            cv_stack |-> h.cv_stack, cv_stack_len |-> len, flags |-> flags ]
    <3>1. NextChunk(g, n) = [g EXCEPT !.chunk_counter = n, !.chunk_buf = <<>>]
      BY DEF NextChunk
    <3>2. QED
      BY <2>2, <3>1, Zenon
  <2>4. DOMAIN h.cv_stack = Slots /\ len \in 0..255 /\ <<>> \in Seq(Nat)
    BY <2>1, EmptySeq DEF HasherType
  <2> DEFINE e == <<>>
  <2> HIDE DEF e
  <2>5. NextChunk(g, n) =
          [ cv |-> h.cv, key_words |-> h.key_words,
            chunk_counter |-> n, chunk_buf |-> e,
            cv_stack |-> h.cv_stack, cv_stack_len |-> len, flags |-> flags ]
        /\ e \in Seq(Nat)
    BY <2>3, <2>4 DEF e
  <2>6. QED
    BY <2>4, <2>5 DEF HasherType
<1>3. QED
  BY <1>1, <1>2

LEMMA BufferFacts ==
  ASSUME NEW h, HasherType(h), NEW in \in Seq(Nat), in # <<>>,
         Len(h.chunk_buf) < ChunkLen
  PROVE  LET g == Buffer(h, SubSeq(in, 1, Take(h, in)))
             rest == SubSeq(in, Take(h, in) + 1, Len(in))
         IN  /\ HasherType(g)
             /\ rest \in Seq(Nat)
             /\ g.cv_stack_len = h.cv_stack_len
             /\ g.chunk_counter = h.chunk_counter
             /\ Len(rest) <= Len(in)
             /\ Len(g.chunk_buf) + Len(rest) = Len(h.chunk_buf) + Len(in)
             /\ Len(g.chunk_buf) \in 1..ChunkLen
<1> DEFINE k == Take(h, in)
<1>1. k \in 1..Len(in) /\ k <= ChunkLen - Len(h.chunk_buf)
  <2> DEFINE S == {ChunkLen - Len(h.chunk_buf), Len(in)}
  <2>1. Len(h.chunk_buf) \in Nat /\ Len(in) \in Nat /\ Len(in) > 0
        /\ ChunkLen \in Nat
    BY LengthAssumption, EmptySeq, LenProperties DEF HasherType
  <2>2. k = CHOOSE x \in S : \A y \in S : x <= y
    BY DEF Take, Min
  <2>3. \E x \in S : \A y \in S : x <= y
    BY <2>1
  <2>4. k \in S /\ \A y \in S : k <= y
    BY <2>2, <2>3
  <2>5. QED
    BY <2>1, <2>4
<1> HIDE DEF k
<1>2. SubSeq(in, 1, k) \in Seq(Nat) /\ Len(SubSeq(in, 1, k)) = k
  BY <1>1, SubSeqProperties
<1>3. /\ SubSeq(in, k + 1, Len(in)) \in Seq(Nat)
      /\ Len(SubSeq(in, k + 1, Len(in))) = Len(in) - k
  BY <1>1, SubSeqProperties
<1>4. /\ h.chunk_buf \o SubSeq(in, 1, k) \in Seq(Nat)
      /\ Len(h.chunk_buf \o SubSeq(in, 1, k)) = Len(h.chunk_buf) + k
  BY <1>2, ConcatProperties DEF HasherType
<1> DEFINE g == Buffer(h, SubSeq(in, 1, k))
           buf == h.chunk_buf \o SubSeq(in, 1, k)
<1>5. g = [h EXCEPT !.chunk_buf = buf]
  BY DEF Buffer
<1> HIDE DEF buf, g
<1>6. /\ HasherType(g)
      /\ g.chunk_buf = buf
      /\ g.cv_stack_len = h.cv_stack_len
      /\ g.chunk_counter = h.chunk_counter
  BY <1>4, <1>5, Zenon DEF HasherType, buf
<1>7. /\ Len(g.chunk_buf) + (Len(in) - k) = Len(h.chunk_buf) + Len(in)
      /\ Len(g.chunk_buf) \in 1..ChunkLen
      /\ Len(in) - k <= Len(in)
  <2>1. Len(h.chunk_buf) \in Nat /\ Len(in) \in Nat /\ ChunkLen \in Nat
    BY LengthAssumption, LenProperties DEF HasherType
  <2>2. Len(g.chunk_buf) = Len(h.chunk_buf) + k
    BY <1>4, <1>6 DEF buf
  <2>3. QED
    BY <1>1, <2>1, <2>2
<1>8. QED
  BY <1>3, <1>6, <1>7 DEF g, k

-----------------------------------------------------------------------------
(* The inductive invariant.                                                *)

(* What holds of a hasher that has taken in len bytes, between pushes.     *)
Consistent(h, len) ==
  /\ h.cv_stack_len = Ones[h.chunk_counter]
  /\ len = h.chunk_counter * ChunkLen + Len(h.chunk_buf)
  /\ Len(h.chunk_buf) <= ChunkLen

(* The last chunk is held back.                                            *)
Held(h, len) == len # 0 => Len(h.chunk_buf) # 0

(* During an update the hasher has taken in all but the pending input.     *)
Absorbed == Len(message) - Len(input)

(* While chunk number chunk_counter is pushed, total has the one bits of   *)
(* the new count, and the stack those of total - 1: a turn of the merge    *)
(* loop removes one from both.                                             *)
Pushing ==
  /\ input # <<>>
  /\ total > 0
  /\ Len(hasher.chunk_buf) = ChunkLen
  /\ Absorbed = hasher.chunk_counter * ChunkLen + ChunkLen
  /\ hasher.cv_stack_len = Ones[total - 1]
  /\ Ones[total] = Ones[hasher.chunk_counter + 1]

(* What holds whatever the hasher was restored from.                       *)
Typed ==
  /\ TypeOK
  /\ Len(message) <= MaxLen
  /\ Len(input) <= Len(message)
  /\ pc \in {"idle", "refused"} => input = <<>>
  /\ state # None => /\ savedAs.message \in Seq(Nat)
                     /\ Len(savedAs.message) <= MaxLen

Counted ==
  /\ pc \in {"idle", "update"} =>
       /\ Consistent(hasher, Absorbed)
       /\ input = <<>> => Held(hasher, Absorbed)
  /\ pc = "push" => Pushing

SavedCounted ==
  state # None /\ savedAs.mode # None =>
    /\ Consistent(state, Len(savedAs.message))
    /\ Held(state, Len(savedAs.message))

IInv ==
  /\ Typed
  /\ Own => Counted
  /\ SavedCounted

LEMMA Multiple ==
  ASSUME NEW n \in Nat, NEW k \in Nat \ {0}
  PROVE  /\ (n + 1) * k = n * k + k
         /\ n * k \in Nat
         /\ n + 1 <= n * k + k
<1>1. (n + 1) * k = n * k + k /\ n * k \in Nat
  OBVIOUS
<1>2. n <= n * k
  <2>1. n * k = n + n * (k - 1) /\ n * (k - 1) \in Nat
    OBVIOUS
  <2>2. QED
    BY <2>1
<1>3. QED
  BY <1>1, <1>2

LEMMA InitIInv == Init => IInv
<1> SUFFICES ASSUME Init PROVE IInv
  OBVIOUS
<1>1. PICK f \in Fresh : hasher = f.hasher
  BY DEF Init
<1>2. PICK key, flags : hasher = InitHasher(key, flags)
  BY <1>1, FreshFacts
<1>3. /\ HasherType(hasher)
      /\ hasher.chunk_counter = 0
      /\ hasher.chunk_buf = <<>>
      /\ hasher.cv_stack_len = 0
  BY <1>2, InitHasherFacts
<1>4. Len(<<>>) = 0 /\ <<>> \in Seq(Nat)
  BY EmptySeq
<1>5. Consistent(hasher, 0)
  BY <1>3, <1>4, OnesFacts, LengthAssumption DEF Consistent
<1>6. Typed
  BY <1>3, <1>4, InputAssumption DEF Init, Typed, TypeOK
<1>7. Counted
  BY <1>4, <1>5 DEF Init, Counted, Absorbed, Held
<1>8. QED
  BY <1>6, <1>7 DEF Init, IInv, SavedCounted

(* The safety properties follow from the invariant in each state.          *)
LEMMA IInvImpliesStackInBounds == IInv => StackInBounds
<1> SUFFICES ASSUME IInv, Own, pc = "push"
             PROVE  IF total % 2 = 0 THEN hasher.cv_stack_len > 0
                                     ELSE hasher.cv_stack_len < MaxDepth
  BY DEF StackInBounds
<1>0. TypeOK /\ Pushing
  BY DEF IInv, Typed, Counted
<1>1. total \in Nat \ {0} /\ total - 1 \in Nat
  BY <1>0 DEF TypeOK, Pushing
<1>2. CASE total % 2 = 0
  <2>1. (total - 1) % 2 = 1 /\ (total - 1) \div 2 \in Nat
    BY <1>1, <1>2
  <2>2. Ones[total - 1] = Ones[(total - 1) \div 2] + 1
        /\ Ones[(total - 1) \div 2] \in Nat
    BY <1>1, <2>1, OnesFacts, Zenon
  <2>3. QED
    BY <1>0, <1>2, <2>2 DEF Pushing
<1>3. CASE total % 2 # 0
  <2> DEFINE c == hasher.chunk_counter
  <2>1. total % 2 = 1
    BY <1>1, <1>3
  <2>2. c \in Nat /\ hasher.cv_stack_len \in Nat
    <3>1. HasherType(hasher)
      BY <1>0 DEF TypeOK
    <3>2. QED
      BY <3>1, TypeFacts
  <2>3. Ones[c + 1] = hasher.cv_stack_len + 1
    BY <1>0, <1>1, <2>1, OnesFacts DEF Pushing
  <2>4. Len(message) \in Nat /\ Len(input) \in Nat /\ Len(message) <= MaxLen
    BY <1>0, LenProperties DEF TypeOK, IInv, Typed
  <2>5. c * ChunkLen + ChunkLen <= MaxLen
    <3>1. c * ChunkLen \in Nat /\ ChunkLen \in Nat
      BY <2>2, LengthAssumption
    <3>2. Len(message) - Len(input) = c * ChunkLen + ChunkLen
      BY <1>0 DEF Pushing, Absorbed
    <3>3. QED
      BY <2>4, <3>1, <3>2, InputAssumption
  <2>6. (c + 1) * ChunkLen <= MaxLen /\ c + 1 \in 0..MaxLen
    BY <2>2, <2>5, LengthAssumption, InputAssumption, Multiple
  <2>7. Ones[c + 1] <= MaxDepth
    BY <2>6, DepthCoversMaxLen
  <2>8. QED
    BY <2>1, <2>2, <2>3, <2>7, DepthAssumption
<1>4. QED
  BY <1>2, <1>3

LEMMA IInvImpliesStackMatchesCounter == IInv => StackMatchesCounter
BY DEF IInv, Counted, Consistent, StackMatchesCounter

(* A chunk count below the bound needs no more slots than there are.       *)
LEMMA IInvImpliesSavesRestore == IInv => SavesRestore
<1> SUFFICES ASSUME IInv, Own, pc = "idle" PROVE Accepts(hasher)
  BY DEF SavesRestore
<1> DEFINE c == hasher.chunk_counter
           held == Len(hasher.chunk_buf)
<1>1. /\ c \in Nat /\ held \in Nat /\ Len(message) \in Nat /\ Len(input) \in Nat
      /\ ChunkLen \in Nat \ {0} /\ Len(message) <= MaxLen /\ MaxLen \in Nat
  BY LenProperties, LengthAssumption, InputAssumption
  DEF IInv, Typed, TypeOK, HasherType
<1>2. /\ hasher.cv_stack_len = Ones[c] /\ held <= ChunkLen
      /\ Len(message) - Len(input) = c * ChunkLen + held
  BY DEF IInv, Counted, Consistent, Absorbed
<1> HIDE DEF c, held
<1>3. c * ChunkLen \in Nat /\ c <= c * ChunkLen
  <2>1. c * ChunkLen = c + c * (ChunkLen - 1) /\ c * (ChunkLen - 1) \in Nat
    BY <1>1
  <2>2. QED
    BY <1>1, <2>1
<1> DEFINE pushed == c * ChunkLen
<1>4. pushed <= MaxLen /\ c \in 0..MaxLen
  <2>1. pushed \in Nat /\ c <= pushed
        /\ Len(message) - Len(input) = pushed + held
    BY <1>2, <1>3
  <2> HIDE DEF pushed
  <2>2. QED
    BY <1>1, <2>1
<1>5. Ones[c] <= MaxDepth
  BY <1>4, DepthCoversMaxLen
<1>6. QED
  BY <1>2, <1>5 DEF Accepts, held

LEMMA IInvImpliesBytesAccounted == IInv => BytesAccounted
<1> SUFFICES ASSUME IInv, Own, pc # "refused"
             PROVE  /\ Len(message) = hasher.chunk_counter * ChunkLen
                                      + Len(hasher.chunk_buf) + Len(input)
                    /\ Len(hasher.chunk_buf) <= ChunkLen
                    /\ message # <<>> => hasher.chunk_buf # <<>> \/ input # <<>>
  BY DEF BytesAccounted
<1> DEFINE taken == hasher.chunk_counter * ChunkLen + Len(hasher.chunk_buf)
<1>1. /\ Len(message) \in Nat /\ Len(input) \in Nat
      /\ Len(hasher.chunk_buf) \in Nat /\ hasher.chunk_counter \in Nat
      /\ ChunkLen \in Nat
  BY LenProperties, LengthAssumption DEF IInv, Typed, TypeOK, HasherType
<1>2. /\ Absorbed = taken
      /\ Len(hasher.chunk_buf) <= ChunkLen
      /\ Absorbed # 0 => Len(hasher.chunk_buf) # 0 \/ input # <<>>
  <2>1. CASE pc \in {"idle", "update"}
    BY <2>1 DEF IInv, Counted, Consistent, Held
  <2>2. CASE pc = "push"
    BY <2>2, <1>1, LengthAssumption DEF IInv, Counted, Pushing
  <2>3. QED
    BY <2>1, <2>2 DEF IInv, Typed, TypeOK
<1>3. hasher.chunk_counter * ChunkLen \in Nat
  BY <1>1
<1>4. Len(message) = taken + Len(input)
  <2>1. taken \in Nat
    BY <1>1, <1>3
  <2>2. Len(message) - Len(input) = taken
    BY <1>2 DEF Absorbed
  <2> HIDE DEF taken
  <2>3. QED
    BY <1>1, <2>1, <2>2
<1>5. message # <<>> => Len(message) # 0
  BY EmptySeq DEF IInv, Typed, TypeOK
<1>6. Len(<<>>) = 0
  BY EmptySeq
<1>7. message # <<>> => hasher.chunk_buf # <<>> \/ input # <<>>
  BY <1>1, <1>2, <1>5, <1>6 DEF Absorbed
<1>8. QED
  BY <1>2, <1>4, <1>7
-----------------------------------------------------------------------------
(* Every step preserves the invariant: first the part about types, whatever*)
(* the hasher was restored from.                                           *)

LEMMA FreshType ==
  ASSUME NEW key, NEW flags, Typed, hasher' = InitHasher(key, flags),
         pc' = "idle", input' = <<>>, message' = <<>>, total' \in Nat,
         state' = state, savedAs' = savedAs
  PROVE  Typed'
<1>1. HasherType(hasher')
  BY InitHasherFacts
<1>2. <<>> \in Seq(Nat) /\ Len(<<>>) = 0
  BY EmptySeq
<1>3. QED
  BY <1>1, <1>2, InputAssumption DEF Typed, TypeOK, HasherType

LEMMA LoadedBeforeType ==
  ASSUME HasherType(hasher), NEW b, HasherType(b),
         NEW damage \in {"buf_len", "chunk_buf_len", "cv_stack_len"}
  PROVE  HasherType(LoadedBefore(b, damage))
<1>1. CASE damage = "buf_len"
  BY <1>1, Zenon DEF LoadedBefore, HasherType
<1>2. CASE damage = "chunk_buf_len"
  <2>1. [i \in 1..(ChunkLen + 1) |-> 0] \in Seq(Nat)
    BY LengthAssumption
  <2> DEFINE z == [i \in 1..(ChunkLen + 1) |-> 0]
  <2>2. LoadedBefore(b, damage) =
          [ [hasher EXCEPT !.cv = b.cv, !.key_words = b.key_words,
                           !.chunk_counter = b.chunk_counter]
            EXCEPT !.chunk_buf = z ]
    BY <1>2 DEF LoadedBefore
  <2> HIDE DEF z
  <2>3. QED
    BY <2>1, <2>2, Zenon DEF HasherType, z
<1>3. CASE damage = "cv_stack_len"
  <2>1. MaxDepth + 1 \in 0..255
    BY DepthAssumption
  <2>2. QED
    BY <1>3, <2>1, Zenon DEF LoadedBefore, HasherType
<1>4. QED
  BY <1>1, <1>2, <1>3

(* The calls that store a whole struct, and leave nothing to read.         *)
LEMMA StoredType ==
  ASSUME Typed, HasherType(hasher'), pc \in {"idle", "refused"},
         pc' \in {"idle", "refused"}, input' = input, total' = total,
         message' \in Seq(Nat), Len(message') <= MaxLen,
         state' = state, savedAs' = savedAs
  PROVE  Typed'
<1>1. input' = <<>> /\ Len(<<>>) = 0
  BY EmptySeq DEF Typed
<1>2. Len(message') \in Nat
  BY LenProperties
<1>3. Len(input') <= Len(message')
  BY <1>1, <1>2
<1>4. state' # None => HasherType(state')
  BY DEF Typed, TypeOK, HasherType
<1>5. QED
  BY <1>1, <1>3, <1>4 DEF Typed, TypeOK

LEMMA StepTyped ==
  ASSUME Typed, [Next]_vars
  PROVE  Typed'
<1> USE DEF calling, history
<1>e. <<>> \in Seq(Nat) /\ Len(<<>>) = 0 /\ Len(<<>>) <= MaxLen
  BY EmptySeq, InputAssumption
<1>1. CASE Start
  <2>1. PICK f \in Fresh : hasher' = f.hasher
    BY <1>1 DEF Start
  <2>2. PICK key, flags : hasher' = InitHasher(key, flags)
    BY <2>1, FreshFacts
  <2>3. input' = <<>> /\ total' \in Nat
    BY <1>1 DEF Start, Typed, TypeOK
  <2>4. QED
    BY <1>1, <2>2, <2>3, FreshType DEF Start
<1>2. ASSUME NEW in \in InputsAt(Len(message)), BeginUpdate(in)
      PROVE  Typed'
  <2>1. Len(message) \in 0..MaxLen
    BY LenProperties, InputAssumption DEF Typed, TypeOK
  <2>2. in \in Seq(Nat) /\ Len(in) \in Nat
    BY <2>1, InputAssumption, LenProperties
  <2>3. message' \in Seq(Nat) /\ Len(message') = Len(message) + Len(in)
    BY <1>2, <2>2, ConcatProperties DEF BeginUpdate, Typed, TypeOK
  <2>4. Len(in) <= Len(message') /\ Len(message') <= MaxLen
    BY <1>2, <2>1, <2>2, <2>3 DEF BeginUpdate
  <2>5. QED
    BY <1>2, <2>2, <2>3, <2>4 DEF BeginUpdate, Typed, TypeOK, HasherType
<1>3. CASE FlushChunk
  <2>1. total' \in Nat
    BY <1>3, TypeFacts DEF FlushChunk, Typed, TypeOK
  <2>2. QED
    BY <1>3, <2>1 DEF FlushChunk, Typed, TypeOK, HasherType
<1>4. CASE MergeCV
  <2>1. HasherType(hasher')
    BY <1>4, PopTopType DEF MergeCV, Typed, TypeOK
  <2>2. total' \in Nat
    BY <1>4 DEF MergeCV, Typed, TypeOK
  <2>3. state' # None => HasherType(state')
    BY <1>4 DEF MergeCV, Typed, TypeOK, HasherType
  <2>4. QED
    BY <1>4, <2>1, <2>2, <2>3 DEF MergeCV, Typed, TypeOK
<1>5. CASE EndPush
  <2>1. HasherType(hasher) /\ hasher.chunk_counter + 1 \in Nat
    BY TypeFacts DEF Typed, TypeOK
  <2>2. HasherType(hasher')
    BY <1>5, <2>1, PushedType DEF EndPush
  <2>3. state' # None => HasherType(state')
    BY <1>5 DEF EndPush, Typed, TypeOK, HasherType
  <2>4. QED
    BY <1>5, <2>2, <2>3 DEF EndPush, Typed, TypeOK
<1>6. CASE FillBuffer
  <2>1. /\ HasherType(hasher) /\ input \in Seq(Nat) /\ input # <<>>
        /\ Len(hasher.chunk_buf) < ChunkLen
    BY <1>6 DEF FillBuffer, Typed, TypeOK
  <2>2. /\ HasherType(hasher')
        /\ input' \in Seq(Nat)
        /\ Len(input') <= Len(input)
    BY <1>6, <2>1, BufferFacts DEF FillBuffer
  <2>3. Len(input') <= Len(message)
    <3>1. Len(input') \in Nat /\ Len(input) \in Nat /\ Len(message) \in Nat
      BY <2>1, <2>2, LenProperties DEF Typed, TypeOK
    <3>2. QED
      BY <2>2, <3>1 DEF Typed
  <2>4. state' # None => HasherType(state')
    BY <1>6 DEF FillBuffer, Typed, TypeOK, HasherType
  <2>5. QED
    BY <1>6, <2>2, <2>3, <2>4 DEF FillBuffer, Typed, TypeOK
<1>7. CASE EndUpdate
  BY <1>7 DEF EndUpdate, Typed, TypeOK, HasherType
<1>8. ASSUME UNCHANGED <<hasher, pc, calling, state, history>>
      PROVE  Typed'
  BY <1>8 DEF Typed, TypeOK, HasherType
<1>9. ASSUME NEW seek \in Seeks, NEW out_len \in OutLens,
             Finalize(seek, out_len)
      PROVE  Typed'
  BY <1>8, <1>9 DEF Finalize
<1>10. CASE Reset
  <2>1. input' = <<>> /\ total' \in Nat
    BY <1>10 DEF Reset, Typed, TypeOK
  <2>2. QED
    BY <1>10, <2>1, FreshType DEF Reset, ResetHasher
<1>11. CASE Serialize
  BY <1>11 DEF Serialize, Typed, TypeOK, HasherType
<1>12. CASE Deserialize
  <2>1. HasherType(hasher')
    BY <1>12 DEF Deserialize, Typed, TypeOK, HasherType
  <2>2. QED
    BY <1>12, <2>1, StoredType DEF Deserialize, Typed
<1>13. ASSUME NEW b \in Others, DeserializeOther(b)
       PROVE  Typed'
  <2>1. HasherType(hasher')
    BY <1>13, OthersAssumption DEF DeserializeOther
  <2>2. QED
    BY <1>e, <1>13, <2>1, StoredType DEF DeserializeOther
<1>14. CASE DeserializeNoState
  BY <1>8, <1>14 DEF DeserializeNoState
<1>15. ASSUME NEW b \in Buffers,
              NEW damage \in {"buf_len", "chunk_buf_len", "cv_stack_len"},
              DeserializeDamaged(b, damage)
       PROVE  Typed'
  <2>1. HasherType(b)
    BY OthersAssumption DEF Buffers, Typed, TypeOK
  <2>2. HasherType(hasher')
    BY <1>15, <2>1, LoadedBeforeType DEF DeserializeDamaged, Typed, TypeOK
  <2>3. QED
    BY <1>e, <1>15, <2>2, StoredType DEF DeserializeDamaged
<1>16. CASE UNCHANGED vars
  BY <1>8, <1>16 DEF vars
<1>17. QED
  BY <1>1, <1>2, <1>3, <1>4, <1>5, <1>6, <1>7, <1>9, <1>10, <1>11,
     <1>12, <1>13, <1>14, <1>15, <1>16
  DEF Next, UpdateStep

-----------------------------------------------------------------------------
(* Then the part about a hasher whose bytes are all known, and the copy of *)
(* one.                                                                    *)

LEMMA SavedCountedKept ==
  ASSUME SavedCounted, state' = state, savedAs' = savedAs
  PROVE  SavedCounted'
BY DEF SavedCounted, Consistent, Held

(* A hasher just initialised, under any key and flags.                     *)
LEMMA FreshCounted ==
  ASSUME NEW key, NEW flags, hasher' = InitHasher(key, flags),
         pc' = "idle", input' = <<>>, message' = <<>>
  PROVE  Counted'
<1>1. /\ hasher'.chunk_counter = 0
      /\ hasher'.chunk_buf = <<>>
      /\ hasher'.cv_stack_len = 0
  BY InitHasherFacts
<1>2. Len(<<>>) = 0
  BY EmptySeq
<1>3. Consistent(hasher', 0)
  BY <1>1, <1>2, OnesFacts, LengthAssumption DEF Consistent
<1>4. Absorbed' = 0
  BY <1>2 DEF Absorbed
<1>5. QED
  BY <1>3, <1>4 DEF Counted, Held

LEMMA StepCounted ==
  ASSUME IInv, Typed', Own', [Next]_vars
  PROVE  Counted'
<1> USE DEF calling, history
<1>t. Typed /\ TypeOK /\ TypeOK'
  BY DEF IInv, Typed
<1>o. ASSUME mode' = mode PROVE Own /\ Counted
  BY <1>o DEF IInv, Own
<1>1. CASE Start
  <2>1. PICK f \in Fresh : hasher' = f.hasher
    BY <1>1 DEF Start
  <2>2. PICK key, flags : hasher' = InitHasher(key, flags)
    BY <2>1, FreshFacts
  <2>3. input' = <<>>
    BY <1>1, <1>t DEF Start, Typed
  <2>4. QED
    BY <1>1, <2>2, <2>3, FreshCounted DEF Start
<1>2. ASSUME NEW in \in InputsAt(Len(message)), BeginUpdate(in)
      PROVE  Counted'
  <2>1. Len(message) \in 0..MaxLen
    BY <1>t, LenProperties, InputAssumption DEF Typed, TypeOK
  <2>2. in \in Seq(Nat) /\ Len(in) \in Nat
    BY <2>1, InputAssumption, LenProperties
  <2>3. Len(message') = Len(message) + Len(in)
    BY <1>2, <1>t, <2>2, ConcatProperties DEF BeginUpdate, TypeOK
  <2>4. /\ Consistent(hasher, Len(message) - Len(input))
        /\ Held(hasher, Len(message) - Len(input))
        /\ Len(input) = 0
    BY <1>2, <1>o, <1>t, EmptySeq DEF BeginUpdate, Counted, Typed, Absorbed
  <2>5. Len(message') - Len(input') = Len(message) - Len(input)
    BY <1>2, <2>1, <2>2, <2>3, <2>4 DEF BeginUpdate
  <2>6. Consistent(hasher, Absorbed)' /\ Held(hasher, Absorbed)'
    BY <1>2, <2>4, <2>5 DEF BeginUpdate, Consistent, Held, Absorbed
  <2>7. QED
    BY <1>2, <2>6 DEF BeginUpdate, Counted
<1>3. CASE FlushChunk
  <2>1. UNCHANGED <<hasher, input, message>>
    BY <1>3 DEF FlushChunk
  <2>2. Consistent(hasher, Absorbed) /\ HasherType(hasher)
    BY <1>3, <1>o, <1>t DEF FlushChunk, Counted, TypeOK
  <2>3. total' = hasher.chunk_counter + 1 /\ total' \in Nat /\ total' > 0
    BY <1>3, <2>2, TypeFacts DEF FlushChunk
  <2>4. total' - 1 = hasher.chunk_counter
    BY <2>2, <2>3, TypeFacts
  <2>5. Pushing'
    BY <1>3, <2>1, <2>2, <2>3, <2>4
    DEF FlushChunk, Pushing, Consistent, Absorbed
  <2>6. QED
    BY <1>3, <2>5 DEF FlushChunk, Counted
<1>4. CASE MergeCV
  <2>1. UNCHANGED <<input, message>> /\ pc' = "push"
    BY <1>4 DEF MergeCV
  <2>2. Pushing /\ HasherType(hasher) /\ hasher.cv_stack_len > 0
    BY <1>4, <1>o, <1>t, IInvImpliesStackInBounds
    DEF MergeCV, Counted, TypeOK, StackInBounds
  <2>3. /\ hasher'.cv_stack_len = hasher.cv_stack_len - 1
        /\ hasher'.chunk_counter = hasher.chunk_counter
        /\ hasher'.chunk_buf = hasher.chunk_buf
    BY <1>4, <2>2, PopTopFacts DEF MergeCV
  <2>4. total \in Nat /\ total > 0 /\ total % 2 = 0 /\ total' = total \div 2
    BY <1>4, <1>t, <2>2 DEF MergeCV, TypeOK, Pushing
  <2>5. /\ total' \in Nat /\ total' > 0
        /\ total - 1 \in Nat
        /\ (total - 1) % 2 = 1
        /\ (total - 1) \div 2 = total' - 1
        /\ total' - 1 \in Nat
    BY <2>4
  <2>6. Ones[total] = Ones[total']
    BY <2>4, OnesFacts
  <2>7. Ones[total - 1] = Ones[total' - 1] + 1 /\ Ones[total' - 1] \in Nat
    BY <2>5, OnesFacts
  <2>8. Pushing'
    BY <2>1, <2>2, <2>3, <2>5, <2>6, <2>7 DEF Pushing, Absorbed
  <2>9. QED
    BY <2>1, <2>8 DEF Counted
<1>5. CASE EndPush
  <2> DEFINE n == hasher.chunk_counter + 1
  <2>1. UNCHANGED <<input, message>> /\ pc' = "update"
    BY <1>5 DEF EndPush
  <2>2. Pushing /\ HasherType(hasher) /\ total \in Nat /\ total % 2 = 1
    BY <1>5, <1>o, <1>t DEF EndPush, Counted, TypeOK
  <2>3. n \in Nat /\ hasher.cv_stack_len < MaxDepth
    BY <1>5, <1>o, <2>2, TypeFacts, IInvImpliesStackInBounds
    DEF EndPush, StackInBounds
  <2>4. hasher' = NextChunk(PushTop(hasher, carry), n)
    BY <1>5, <2>3 DEF EndPush, Pushed
  <2>5. /\ hasher'.cv_stack_len = hasher.cv_stack_len + 1
        /\ hasher'.chunk_counter = n
        /\ hasher'.chunk_buf = <<>>
    BY <2>2, <2>3, <2>4, PushTopFacts
  <2>6. hasher'.cv_stack_len = Ones[n]
    <3>1. Ones[total] = Ones[total - 1] + 1
      BY <2>2, OnesFacts
    <3>2. QED
      BY <2>2, <2>5, <3>1 DEF Pushing
  <2>7. Absorbed' = n * ChunkLen + Len(hasher'.chunk_buf)
    <3>1. n * ChunkLen = hasher.chunk_counter * ChunkLen + ChunkLen
          /\ n * ChunkLen \in Nat
      BY <2>2, TypeFacts, Multiple, LengthAssumption
    <3>2. Absorbed' = Absorbed /\ Len(hasher'.chunk_buf) = 0
      BY <2>1, <2>5, EmptySeq DEF Absorbed
    <3> HIDE DEF n
    <3>3. Absorbed = n * ChunkLen
      BY <2>2, <3>1 DEF Pushing
    <3>4. QED
      BY <3>1, <3>2, <3>3
  <2>8. Consistent(hasher, Absorbed)'
    <3>1. Len(hasher'.chunk_buf) <= ChunkLen
      BY <2>5, EmptySeq, LengthAssumption
    <3>2. QED
      BY <2>5, <2>6, <2>7, <3>1 DEF Consistent
  <2>9. input' # <<>>
    BY <2>1, <2>2 DEF Pushing
  <2>10. QED
    BY <2>1, <2>8, <2>9 DEF Counted
<1>6. CASE FillBuffer
  <2>1. UNCHANGED message /\ pc = "update" /\ pc' = "update"
    BY <1>6 DEF FillBuffer
  <2>2. /\ HasherType(hasher) /\ input \in Seq(Nat) /\ input # <<>>
        /\ Len(hasher.chunk_buf) < ChunkLen
        /\ Consistent(hasher, Absorbed)
    BY <1>6, <1>o, <1>t DEF FillBuffer, Counted, TypeOK
  <2>3. /\ input' \in Seq(Nat)
        /\ hasher'.cv_stack_len = hasher.cv_stack_len
        /\ hasher'.chunk_counter = hasher.chunk_counter
        /\ Len(hasher'.chunk_buf) + Len(input')
             = Len(hasher.chunk_buf) + Len(input)
        /\ Len(hasher'.chunk_buf) \in 1..ChunkLen
    BY <1>6, <2>2, BufferFacts DEF FillBuffer
  <2> DEFINE b == hasher.chunk_counter * ChunkLen
  <2>4. /\ b \in Nat
        /\ Len(message) \in Nat /\ Len(input) \in Nat /\ Len(input') \in Nat
        /\ Len(hasher.chunk_buf) \in Nat
    <3>1. message \in Seq(Nat)
      BY <1>t DEF TypeOK
    <3>2. QED
      BY <2>2, <2>3, <3>1, TypeFacts, Multiple, LengthAssumption, LenProperties
  <2>5. Len(message) - Len(input) = b + Len(hasher.chunk_buf)
    BY <2>2 DEF Consistent, Absorbed
  <2> HIDE DEF b
  <2>6. Len(message) - Len(input') = b + Len(hasher'.chunk_buf)
    <3> DEFINE buf == Len(hasher.chunk_buf)
               buf2 == Len(hasher'.chunk_buf)
               in == Len(input)
               in2 == Len(input')
               all == Len(message)
    <3>1. /\ b \in Nat /\ buf \in Nat /\ in \in Nat /\ in2 \in Nat
          /\ all \in Nat /\ ChunkLen \in Nat /\ buf2 \in 1..ChunkLen
      BY <2>3, <2>4, LengthAssumption
    <3>2. buf2 + in2 = buf + in /\ all - in = b + buf
      BY <2>3, <2>5
    <3> HIDE DEF buf, buf2, in, in2, all
    <3>3. buf2 \in Nat  BY <3>1
    <3>4. all - in2 = b + buf2
      BY <3>1, <3>2, <3>3
    <3> QED  BY <3>4 DEF buf2, in2, all
  <2>7. Consistent(hasher, Absorbed)' /\ Held(hasher, Absorbed)'
    <3>1. hasher'.cv_stack_len = Ones[hasher'.chunk_counter]
      BY <2>2, <2>3 DEF Consistent
    <3>2. Absorbed' = hasher'.chunk_counter * ChunkLen + Len(hasher'.chunk_buf)
      BY <2>1, <2>3, <2>6 DEF Absorbed, b
    <3>3. QED
      BY <2>3, <3>1, <3>2, LengthAssumption DEF Consistent, Held
  <2>8. QED
    BY <2>1, <2>7 DEF Counted
<1>7. CASE EndUpdate
  BY <1>7, <1>o DEF EndUpdate, Counted, Consistent, Held, Absorbed
<1>8. ASSUME UNCHANGED <<hasher, pc, calling, state, history>>
      PROVE  Counted'
  BY <1>8, <1>o DEF Counted, Consistent, Held, Absorbed, Pushing
<1>9. ASSUME NEW seek \in Seeks, NEW out_len \in OutLens,
             Finalize(seek, out_len)
      PROVE  Counted'
  BY <1>8, <1>9 DEF Finalize
<1>10. CASE Reset
  <2>1. input' = <<>>
    BY <1>10, <1>t DEF Reset, Typed
  <2>2. QED
    BY <1>10, <2>1, FreshCounted DEF Reset, ResetHasher
<1>11. CASE Serialize
  BY <1>11, <1>o DEF Serialize, Counted, Consistent, Held, Absorbed
<1>12. CASE Deserialize
  <2>1. /\ state # None /\ savedAs.mode # None /\ SavedCounted
        /\ hasher' = state /\ message' = savedAs.message
        /\ pc' = "idle" /\ input' = <<>>
    BY <1>12, <1>t DEF Deserialize, Own, IInv, Typed
  <2>2. Len(message') \in Nat /\ Len(<<>>) = 0
    BY <1>t, EmptySeq, LenProperties DEF TypeOK
  <2>3. Absorbed' = Len(savedAs.message)
    BY <2>1, <2>2 DEF Absorbed
  <2>4. Consistent(hasher, Absorbed)' /\ Held(hasher, Absorbed)'
    BY <2>1, <2>3 DEF SavedCounted, Consistent, Held
  <2>5. QED
    BY <2>1, <2>4 DEF Counted
<1>13. ASSUME NEW b \in Others, DeserializeOther(b)
       PROVE  Counted'
  BY <1>13 DEF DeserializeOther, Own
<1>14. CASE DeserializeNoState
  BY <1>8, <1>14 DEF DeserializeNoState
<1>15. ASSUME NEW b \in Buffers,
              NEW damage \in {"buf_len", "chunk_buf_len", "cv_stack_len"},
              DeserializeDamaged(b, damage)
       PROVE  Counted'
  BY <1>15 DEF DeserializeDamaged, Counted
<1>16. CASE UNCHANGED vars
  BY <1>8, <1>16 DEF vars
<1>17. QED
  BY <1>1, <1>2, <1>3, <1>4, <1>5, <1>6, <1>7, <1>9, <1>10, <1>11,
     <1>12, <1>13, <1>14, <1>15, <1>16
  DEF Next, UpdateStep

LEMMA StepSaved ==
  ASSUME IInv, [Next]_vars
  PROVE  SavedCounted'
<1> USE DEF calling, history
<1>1. CASE Serialize
  <2>1. /\ pc = "idle" /\ input = <<>> /\ message \in Seq(Nat)
        /\ state' = hasher /\ savedAs' = [mode |-> mode, message |-> message]
    BY <1>1 DEF Serialize, IInv, Typed, TypeOK
  <2>2. savedAs'.mode = mode /\ savedAs'.message = message
    BY <2>1
  <2>3. Absorbed = Len(message)
    BY <2>1, EmptySeq, LenProperties DEF Absorbed
  <2>4. Own => Consistent(hasher, Len(message)) /\ Held(hasher, Len(message))
    BY <2>1, <2>3 DEF IInv, Counted
  <2>5. QED
    BY <2>1, <2>2, <2>4 DEF SavedCounted, Own, Consistent, Held
<1>2. CASE UNCHANGED <<state, savedAs>>
  BY <1>2, SavedCountedKept DEF IInv
<1>3. QED
  <2>1. CASE UNCHANGED vars
    BY <1>2, <2>1 DEF vars
  <2>2. CASE Next /\ ~Serialize
    BY <1>2, <2>2
    DEF Next, UpdateStep, Start, BeginUpdate, FlushChunk, MergeCV, EndPush,
        FillBuffer, EndUpdate, Finalize, Reset, Deserialize,
        DeserializeOther, DeserializeNoState, DeserializeDamaged
  <2>3. QED
    BY <1>1, <2>1, <2>2

LEMMA StepIInv ==
  ASSUME IInv, [Next]_vars
  PROVE  IInv'
<1>1. Typed'
  BY StepTyped DEF IInv
<1>2. QED
  BY <1>1, StepCounted, StepSaved DEF IInv

-----------------------------------------------------------------------------
(* The theorems.                                                           *)

LEMMA Invariance == Spec => []IInv
<1>1. IInv /\ [Next]_vars => IInv'
  BY StepIInv
<1>2. QED
  BY InitIInv, <1>1, PTL DEF Spec

(* The struct and its serialized copy keep their shape, and the 8-bit      *)
(* stack length its range, through every sequence of calls (blake4.c).     *)
THEOREM TypeCorrect == Spec => []TypeOK
<1>1. IInv => TypeOK
  BY DEF IInv, Typed
<1>2. QED
  BY Invariance, <1>1, PTL

(* In a hasher that was initialised, or restored from what serialize wrote *)
(* of such a hasher, hasher_push_cv (blake4.c:275) never decrements a      *)
(* stack length of zero and never writes past the last slot.               *)
THEOREM StackSafe == Spec => []StackInBounds
BY Invariance, IInvImpliesStackInBounds, PTL

(* Between pushes the stack of such a hasher holds one CV per one bit of   *)
(* chunk_counter (blake4.c:281-292), also after restores.                  *)
THEOREM StackCounts == Spec => []StackMatchesCounter
BY Invariance, IInvImpliesStackMatchesCounter, PTL

(* Every byte passed to blake4_hasher_update (blake4.c:295) of such a       *)
(* hasher is in a pushed chunk, in the chunk buffer or still pending,      *)
(* exactly once, and the last chunk of a non-empty message is never        *)
(* pushed.                                                                 *)
THEOREM NoByteLost == Spec => []BytesAccounted
BY Invariance, IInvImpliesBytesAccounted, PTL

(* deserialize (blake4.c:495, 506, 516) accepts whatever serialize writes  *)
(* of such a hasher: its ranges leave room for a full chunk and for the    *)
(* deepest stack.                                                          *)
THEOREM SavedIsAccepted == Spec => []SavesRestore
BY Invariance, IInvImpliesSavesRestore, PTL

-----------------------------------------------------------------------------
(* The refinement of HashSpec.                                             *)

(* What HashSpec computes is what TreeHash computes.                       *)
LEMMA SameTree ==
  /\ \A m : Promise!NumChunks(m) = NumChunks(m)
  /\ \A mo, m : Promise!Subtree(mo, m) = Subtree(mo, m)
BY DEF Promise!NumChunks, Promise!CeilDiv, NumChunks, CeilDiv,
       Promise!Subtree, Promise!ChunkNode, Promise!ChunkChain,
       Promise!BlockCount, Promise!BlockAt, Promise!BlockFlags, Promise!Piece,
       Promise!ParentNode, Promise!LeftSize, Promise!ChainingValue,
       Promise!Compress, Promise!Node, Promise!ZeroPad, Promise!Pow2,
       Promise!Min, Promise!Max,
       Subtree, ChunkNode, ChunkChain, BlockCount, BlockAt, BlockFlags, Piece,
       ParentNode, LeftSize, ChainingValue, Compress, Node, ZeroPad, Pow2,
       Min, Max

LEMMA SameRoot == \A mo, m : Promise!Root(mo, m) = Root(mo, m)
BY SameTree DEF Promise!Root, Root

LEMMA SameOutput ==
  \A mo, m, seek, len :
    Promise!XOF(mo, m, seek, len) = OutputWindow(Root(mo, m), seek, len)
BY SameRoot DEF Promise!XOF, Promise!OutputWindow, Promise!OutputByte,
                Promise!RootBlock, Promise!Compress,
                OutputWindow, OutputByte, RootBlock, Compress

LEMMA SameModes ==
  /\ Promise!PlainMode = PlainMode
  /\ \A k : Promise!KeyedMode(k) = KeyedMode(k)
  /\ \A c : Promise!DeriveMode(c) = DeriveMode(c)
BY SameRoot DEF Promise!PlainMode, Promise!KeyedMode, Promise!DeriveMode,
                Promise!ContextMode, Promise!IV, Promise!Key,
                Promise!RootBlock, Promise!Compress,
                PlainMode, KeyedMode, DeriveMode, ContextMode, IV, Key,
                RootBlock, Compress

(* A message that the bound allows fits in the stack.                      *)
LEMMA BoundedFits ==
  ASSUME NEW m \in Seq(Nat), Len(m) <= MaxLen
  PROVE  Fits(m)
<1> SUFFICES ASSUME NEW n \in Nat, n * ChunkLen <= Len(m)
             PROVE  Ones[n] <= MaxDepth
  BY DEF Fits
<1>1. Len(m) \in Nat /\ MaxLen \in Nat /\ ChunkLen \in Nat \ {0}
  BY LenProperties, LengthAssumption, InputAssumption
<1>2. n * ChunkLen \in Nat /\ n <= n * ChunkLen
  <2>1. 1 \in Nat /\ n * ChunkLen = n + n * (ChunkLen - 1)
        /\ n * (ChunkLen - 1) \in Nat
    BY <1>1
  <2>2. QED
    BY <2>1
<1> DEFINE k == n * ChunkLen
<1> HIDE DEF k
<1>3. k \in Nat /\ n <= k /\ k <= Len(m)
  BY <1>2 DEF k
<1>4. k <= MaxLen /\ n \in 0..MaxLen
  BY <1>1, <1>3
<1>5. QED
  BY <1>4, DepthCoversMaxLen DEF k

(* init, init_keyed and init_derive_key_raw: a hasher that has read        *)
(* nothing, in a mode of HashSpec.                                         *)
LEMMA FreshModes ==
  ASSUME NEW f \in Fresh
  PROVE  /\ f.hasher = InitHasher(f.mode.key, f.mode.flags)
         /\ f.mode \in Promise!Modes
<1>1. CASE f = [hasher |-> InitPlain, mode |-> [key |-> IV, flags |-> {}]]
  <2>1. f.mode = Promise!PlainMode
    BY <1>1, SameModes DEF PlainMode
  <2>2. QED
    BY <1>1, <2>1 DEF InitPlain, Promise!Modes
<1>2. ASSUME NEW k \in Keys,
             f = [hasher |-> InitKeyed(k),
                  mode |-> [key |-> Key(k), flags |-> {"KEYED_HASH"}]]
      PROVE  /\ f.hasher = InitHasher(f.mode.key, f.mode.flags)
             /\ f.mode \in Promise!Modes
  <2>1. f.mode = Promise!KeyedMode(k)
    BY <1>2, SameModes DEF KeyedMode
  <2>2. QED
    BY <1>2, <2>1 DEF InitKeyed, Promise!Modes
<1>3. ASSUME NEW c \in Contexts,
             f = [hasher |-> InitDeriveKey(c),
                  mode |-> [key |-> InitDeriveKey(c).key_words,
                            flags |-> {"DERIVE_KEY_MATERIAL"}]]
      PROVE  /\ f.hasher = InitHasher(f.mode.key, f.mode.flags)
             /\ f.mode \in Promise!Modes
  <2>1. c \in Seq(Nat) /\ Fits(c)
    BY ArgumentAssumption, BoundedFits
  <2>2. InitDeriveKey(c) = InitHasher(DeriveMode(c).key, DeriveMode(c).flags)
    BY <2>1, DeriveKeyIs
  <2>3. InitDeriveKey(c).key_words = DeriveMode(c).key
    BY <2>2 DEF InitHasher
  <2>4. DeriveMode(c) = [key |-> DeriveMode(c).key,
                         flags |-> {"DERIVE_KEY_MATERIAL"}]
    BY DEF DeriveMode
  <2>5. f.mode = DeriveMode(c) /\ f.hasher = InitDeriveKey(c)
    BY <1>3, <2>3, <2>4
  <2>6. DeriveMode(c) \in Promise!Modes
    BY SameModes DEF Promise!Modes
  <2>7. QED
    BY <2>2, <2>5, <2>6
<1>4. QED
  BY <1>1, <1>2, <1>3 DEF Fresh

-----------------------------------------------------------------------------
(* Windows of the pending input, which is itself the tail of the message.  *)
LEMMA WindowOfTail ==
  ASSUME NEW m \in Seq(Nat), NEW p \in Nat, p <= Len(m),
         NEW i \in Nat, NEW j \in Nat,
         i >= 1, i <= j + 1, p + j <= Len(m)
  PROVE  SubSeq(SubSeq(m, p + 1, Len(m)), i, j) = SubSeq(m, p + i, p + j)
<1> DEFINE e == Len(m)
           p1 == p + 1
           tail == SubSeq(m, p1, e)
           u == SubSeq(tail, i, j)
           a == p + i
           b == p + j
           v == SubSeq(m, a, b)
           n == j - i + 1
<1>1. /\ e \in Nat /\ p1 \in Nat /\ p1 >= 1 /\ p1 <= e + 1 /\ e <= Len(m)
      /\ n \in Nat /\ a \in Nat /\ b \in Nat /\ a >= 1 /\ a <= b + 1
      /\ b <= Len(m) /\ b - a + 1 = n /\ j <= e - p1 + 1
  <2>1. Len(m) \in Nat
    BY LenProperties
  <2>2. QED
    BY <2>1
<1>2. /\ tail \in Seq(Nat) /\ Len(tail) = e - p1 + 1
      /\ \A k \in 1..(e - p1 + 1) : tail[k] = m[p1 + k - 1]
  <2> HIDE DEF e, p1
  <2> QED BY <1>1, WindowFacts
<1>3. /\ v \in Seq(Nat) /\ Len(v) = n
      /\ \A k \in 1..n : v[k] = m[a + k - 1]
  <2> HIDE DEF a, b, n
  <2>1. /\ v \in Seq(Nat) /\ Len(v) = b - a + 1
        /\ \A k \in 1..(b - a + 1) : v[k] = m[a + k - 1]
    BY <1>1, WindowFacts
  <2>2. QED
    BY <1>1, <2>1
<1>4. /\ u \in Seq(Nat) /\ Len(u) = n
      /\ \A k \in 1..n : u[k] = tail[i + k - 1]
  <2>1. j <= Len(tail)
    BY <1>1, <1>2, Zenon
  <2> HIDE DEF tail
  <2>2. QED
    BY <1>2, <2>1, WindowFacts
<1>5. ASSUME NEW k \in 1..n PROVE u[k] = v[k]
  <2>1. i + k - 1 \in 1..(e - p1 + 1) /\ p1 + (i + k - 1) - 1 = a + k - 1
    BY <1>1
  <2> HIDE DEF u, v, tail, a, b, n, e, p1
  <2>2. tail[i + k - 1] = m[p1 + (i + k - 1) - 1]
    BY <1>2, <2>1
  <2>3. QED
    BY <1>3, <1>4, <2>1, <2>2
<1> HIDE DEF u, v, n
<1>6. u = v
  BY <1>1, <1>3, <1>4, <1>5, SeqEqual
<1>7. QED
  BY <1>6 DEF u, v, tail, e, p1, a, b

(* What is left of the message after the first p bytes of it.              *)
Rest(m, p) == SubSeq(m, p + 1, Len(m))

LEMMA RestFacts ==
  ASSUME NEW m \in Seq(Nat), NEW p \in Nat, p <= Len(m)
  PROVE  Rest(m, p) \in Seq(Nat) /\ Len(Rest(m, p)) = Len(m) - p
<1> DEFINE p1 == p + 1
           e == Len(m)
<1>1. /\ e \in Nat /\ p1 \in Nat /\ p1 >= 1 /\ p1 <= e + 1 /\ e <= Len(m)
      /\ e - p1 + 1 = e - p
  <2>1. Len(m) \in Nat
    BY LenProperties
  <2>2. QED
    BY <2>1
<1> HIDE DEF p1, e
<1>2. SubSeq(m, p1, e) \in Seq(Nat) /\ Len(SubSeq(m, p1, e)) = e - p1 + 1
  BY <1>1, WindowFacts
<1>3. QED
  BY <1>1, <1>2, Zenon DEF Rest, p1, e

LEMMA RestOfAppended ==
  ASSUME NEW m \in Seq(Nat), NEW x \in Seq(Nat)
  PROVE  Rest(m \o x, Len(m)) = x
<1> DEFINE longer == m \o x
           p == Len(m)
           p1 == p + 1
           e == Len(longer)
           n == Len(x)
           u == SubSeq(longer, p1, e)
<1>1. p \in Nat /\ n \in Nat
  BY LenProperties
<1>2. /\ longer \in Seq(Nat) /\ e = p + n
      /\ \A i \in 1..(p + n) : longer[i] = IF i <= p THEN m[i] ELSE x[i - p]
  BY ConcatProperties
<1> HIDE DEF longer, p, n
<1>3. /\ p1 \in Nat /\ p1 >= 1 /\ p1 <= e + 1 /\ e <= Len(longer)
      /\ e \in Nat /\ e - p1 + 1 = n
  BY <1>1, <1>2
<1>4. /\ u \in Seq(Nat) /\ Len(u) = n
      /\ \A k \in 1..n : u[k] = longer[p1 + k - 1]
  <2> HIDE DEF p1, e
  <2>1. /\ u \in Seq(Nat) /\ Len(u) = e - p1 + 1
        /\ \A k \in 1..(e - p1 + 1) : u[k] = longer[p1 + k - 1]
    <3>1. longer \in Seq(Nat)
      BY <1>2
    <3>2. QED
      BY <1>3, <3>1, WindowFacts
  <2>2. QED
    BY <1>3, <2>1
<1>5. ASSUME NEW k \in 1..n PROVE u[k] = x[k]
  <2>1. p1 + k - 1 \in 1..(p + n) /\ ~(p1 + k - 1 <= p) /\ (p1 + k - 1) - p = k
    BY <1>1
  <2> HIDE DEF u, p1, e
  <2>2. longer[p1 + k - 1] = x[k]
    BY <1>2, <2>1
  <2>3. QED
    BY <1>4, <2>2
<1> HIDE DEF u
<1>6. u = x
  BY <1>1, <1>4, <1>5, SeqEqual DEF n
<1>7. QED
  BY <1>6 DEF u, Rest, e, p1, p, longer

(* A chunk has been pushed and its buffer emptied.                         *)
LEMMA EmptyReads ==
  ASSUME NEW g, NEW mo, NEW m \in Seq(Nat), NEW p \in Nat,
         Settled(g, mo, m), g.chunk_buf = <<>>,
         p = g.chunk_counter * ChunkLen, p < Len(m)
  PROVE  Reading(g, mo, m, p)
<1>1. Len(<<>>) = 0 /\ Len(g.chunk_buf) = 0
  BY EmptySeq
<1>2. Len(m) \in Nat /\ ChunkLen \in Nat
  BY LenProperties, LengthAssumption
<1> DEFINE a == g.chunk_counter * ChunkLen
<1>3. a = p
  OBVIOUS
<1> HIDE DEF a
<1>4. p = a + Len(g.chunk_buf) /\ p <= Len(m) /\ p # Len(m)
      /\ Len(g.chunk_buf) <= ChunkLen
  BY <1>1, <1>2, <1>3
<1>5. g.chunk_buf = SubSeq(m, a + 1, p)
  <2>1. SubSeq(m, p + 1, p) = <<>>
    BY SubSeqEmpty
  <2>2. QED
    BY <1>3, <2>1
<1>6. QED
  BY <1>4, <1>5, Zenon DEF Reading, a

-----------------------------------------------------------------------------
(* The invariant that carries the refinement: between the turns of its     *)
(* loops the hasher has read a prefix of the message, and what it has not  *)
(* read is the pending input; during a push it climbs the tree; and the    *)
(* serialized state has read the message that was saved with it.           *)
Climbs(h, mo, m, t, cv) ==
  \E level \in Nat : Climbing(h, mo, m, level, t, cv)

SavedReads ==
  /\ state # None => savedAs # None
  /\ savedAs # None =>
    /\ savedAs \in [mode : ModesInUse \cup {None}, message : Seq(Nat)]
    /\ savedAs.mode # None =>
         Reading(state, savedAs.mode, savedAs.message, Len(savedAs.message))

Tracks ==
  /\ mode \in ModesInUse
  /\ pc \in {"idle", "update"} => Reading(hasher, mode, message, Absorbed)
  /\ pc = "push" => Climbs(hasher, mode, message, total, carry)
  /\ pc \in {"update", "push"} => input = Rest(message, Absorbed)

Follows ==
  /\ Own => Tracks
  /\ SavedReads

LEMMA TracksOwn ==
  ASSUME IInv, Tracks
  PROVE  Own /\ Counted /\ TypeOK
BY NoneAssumption DEF IInv, Typed, Tracks, Own

LEMMA AbsorbedFacts ==
  ASSUME IInv
  PROVE  /\ message \in Seq(Nat) /\ input \in Seq(Nat)
         /\ Len(message) \in Nat /\ Len(input) \in Nat
         /\ Absorbed \in Nat /\ Absorbed <= Len(message)
         /\ input = <<>> => Absorbed = Len(message)
         /\ input # <<>> => Absorbed < Len(message)
         /\ Fits(message)
<1>1. message \in Seq(Nat) /\ input \in Seq(Nat) /\ Len(input) <= Len(message)
      /\ Len(message) <= MaxLen
  BY DEF IInv, Typed, TypeOK
<1>2. /\ Len(message) \in Nat /\ Len(input) \in Nat
      /\ (input = <<>> <=> Len(input) = 0)
  BY <1>1, LenProperties, EmptySeq
<1>3. Fits(message)
  BY <1>1, BoundedFits
<1>4. QED
  BY <1>1, <1>2, <1>3 DEF Absorbed

LEMMA FreshReads ==
  ASSUME NEW mo, NEW h, h = InitHasher(mo.key, mo.flags)
  PROVE  Reading(h, mo, <<>>, Len(<<>>))
<1> DEFINE none == <<>>
<1>1. none \in Seq(Nat) /\ Len(none) = 0
  BY EmptySeq
<1> HIDE DEF none
<1>2. Reading(InitHasher(mo.key, mo.flags), mo, none, Len(none))
  BY <1>1, InitReads, Zenon
<1>3. QED
  BY <1>2 DEF none

LEMMA InitFollows == Init => Follows
<1> SUFFICES ASSUME Init PROVE Follows
  OBVIOUS
<1>1. PICK f \in Fresh : hasher = f.hasher /\ mode = f.mode
  BY DEF Init
<1>2. /\ pc = "idle" /\ message = <<>> /\ input = <<>>
      /\ state = None /\ savedAs = None
  BY DEF Init
<1>3. hasher = InitHasher(mode.key, mode.flags)
  BY <1>1, FreshModes
<1>4. Reading(hasher, mode, message, Len(message))
  BY <1>2, <1>3, FreshReads
<1>5. Absorbed = Len(message)
  BY <1>2, InitIInv, AbsorbedFacts
<1>6. mode \in ModesInUse
  BY <1>1 DEF ModesInUse
<1>7. QED
  BY <1>2, <1>4, <1>5, <1>6 DEF Follows, Tracks, SavedReads

(* The parts of the invariant a step leaves alone.                         *)
LEMMA SavedReadsKept ==
  ASSUME SavedReads, state' = state, savedAs' = savedAs
  PROVE  SavedReads'
BY DEF SavedReads

LEMMA IdleTracks ==
  ASSUME IInv', pc' = "idle", mode' \in ModesInUse,
         Reading(hasher', mode', message', Len(message'))
  PROVE  Tracks'
<1>1. input' = <<>>
  BY DEF IInv, Typed
<1>2. Absorbed' = Len(message')
  <2>1. message' \in Seq(Nat)
    BY DEF IInv, Typed, TypeOK
  <2>2. Len(message') \in Nat /\ Len(<<>>) = 0
    BY <2>1, EmptySeq, LenProperties
  <2>3. QED
    BY <1>1, <2>2 DEF Absorbed
<1>3. Reading(hasher, mode, message, Absorbed)'
  BY <1>2
<1>4. QED
  BY <1>3 DEF Tracks

(* update begins: the input is what is left of the longer message.         *)
LEMMA BeginTracks ==
  ASSUME IInv, Tracks, NEW in \in InputsAt(Len(message)), BeginUpdate(in)
  PROVE  Tracks'
<1> DEFINE p == Len(message)
<1>1. /\ pc = "idle" /\ pc' = "update" /\ input' = in /\ message' = message \o in
      /\ hasher' = hasher /\ mode' = mode /\ state' = state
      /\ savedAs' = savedAs
  BY DEF BeginUpdate, history
<1>2. input = <<>>
  BY <1>1 DEF IInv, Typed
<1>3. message \in Seq(Nat) /\ p \in Nat /\ Absorbed = p
  BY <1>2, AbsorbedFacts
<1>4. in \in Seq(Nat) /\ Len(in) \in Nat
  <2>1. p <= MaxLen
    BY DEF IInv, Typed
  <2> HIDE DEF p
  <2>2. p \in 0..MaxLen
    BY <1>3, <2>1, InputAssumption
  <2>3. in \in Seq(Nat)
    BY <2>2, InputAssumption DEF p
  <2>4. QED
    BY <2>3, LenProperties
<1>5. Reading(hasher, mode, message, p)
  BY <1>1, <1>3 DEF Tracks
<1>6. Reading(hasher, mode, message \o in, p)
  BY <1>4, <1>5, GrowthReads
<1>7. Absorbed' = p
  <2>1. Len(message \o in) = p + Len(in)
    BY <1>3, <1>4, ConcatProperties
  <2> HIDE DEF p
  <2>2. QED
    BY <1>1, <1>3, <1>4, <2>1 DEF Absorbed
<1>8. in = Rest(message \o in, p)
  BY <1>3, <1>4, RestOfAppended
<1> HIDE DEF p
<1>9. Reading(hasher, mode, message, Absorbed)'
  BY <1>1, <1>6, <1>7
<1>10. (input = Rest(message, Absorbed))'
  BY <1>1, <1>7, <1>8
<1>11. mode' \in ModesInUse
  BY <1>1 DEF Tracks
<1>12. QED
  BY <1>1, <1>9, <1>10, <1>11, Zenon DEF Tracks

(* hasher_push_cv begins with the CV of the chunk that is next in the tree.*)
LEMMA FlushTracks ==
  ASSUME IInv, Tracks, FlushChunk
  PROVE  Tracks'
<1> DEFINE c == hasher.chunk_counter
<1>1. /\ pc = "update" /\ pc' = "push"
      /\ Len(hasher.chunk_buf) = ChunkLen
      /\ carry' = ChainingValue(ChunkOutput(hasher)) /\ total' = c + 1
      /\ hasher' = hasher /\ input' = input /\ state' = state
      /\ mode' = mode /\ message' = message /\ savedAs' = savedAs
  BY DEF FlushChunk, history
<1>2. Reading(hasher, mode, message, Absorbed)
      /\ input = Rest(message, Absorbed) /\ mode \in ModesInUse
  BY <1>1 DEF Tracks
<1>3. carry' = TreeCV(mode, message, 1, c)
  BY <1>1, <1>2, ChunkOutputIs DEF TreeCV
<1>4. Climbing(hasher, mode, message, 0, total', carry')
  <2>1. Settled(hasher, mode, message)
    BY <1>2 DEF Reading
  <2>2. Climbing(hasher, mode, message, 0, c + 1, TreeCV(mode, message, 1, c))
    BY <2>1, ClimbStarts
  <2>3. QED
    BY <1>1, <1>3, <2>2
<1>5. Climbs(hasher, mode, message, total, carry)'
  <2>1. 0 \in Nat
    OBVIOUS
  <2>2. QED
    BY <1>1, <1>4, <2>1 DEF Climbs
<1>6. (input = Rest(message, Absorbed))'
  BY <1>1, <1>2 DEF Absorbed
<1>7. QED
  BY <1>1, <1>2, <1>5, <1>6 DEF Tracks

(* A turn of its loop merges the top of the stack.                         *)
LEMMA MergeTracks ==
  ASSUME IInv, Tracks, MergeCV
  PROVE  Tracks'
<1>1. /\ pc = "push" /\ pc' = "push" /\ total % 2 = 0
      /\ hasher' = PopTop(hasher) /\ carry' = MergedCV(hasher, carry)
      /\ total' = total \div 2 /\ input' = input /\ state' = state
      /\ mode' = mode /\ message' = message /\ savedAs' = savedAs
  BY DEF MergeCV, history
<1>2. /\ input = Rest(message, Absorbed) /\ mode \in ModesInUse
  BY <1>1 DEF Tracks
<1>3. PICK level \in Nat : Climbing(hasher, mode, message, level, total, carry)
  BY <1>1 DEF Tracks, Climbs
<1>4. total \in Nat \ {0}
  BY <1>1, TracksOwn DEF TypeOK, Counted, Pushing
<1>5. Climbing(hasher', mode, message, level + 1, total', carry')
  BY <1>1, <1>3, <1>4, ClimbMerges
<1>6. Climbs(hasher, mode, message, total, carry)'
  <2>1. level + 1 \in Nat
    OBVIOUS
  <2>2. QED
    BY <1>1, <1>5, <2>1 DEF Climbs
<1>7. (input = Rest(message, Absorbed))'
  BY <1>1, <1>2 DEF Absorbed
<1>8. QED
  BY <1>1, <1>2, <1>6, <1>7 DEF Tracks

(* The push ends, and update goes on with an empty buffer.                 *)
LEMMA EndPushTracks ==
  ASSUME IInv, Tracks, EndPush
  PROVE  Tracks'
<1> DEFINE c == hasher.chunk_counter
           n == c + 1
           p == Absorbed
<1>1. /\ pc = "push" /\ pc' = "update" /\ total % 2 = 1
      /\ hasher' = NextChunk(PushTop(hasher, carry), n)
      /\ input' = input /\ state' = state
      /\ mode' = mode /\ message' = message /\ savedAs' = savedAs
  <2>1. pc = "push" /\ total % 2 = 1
    BY DEF EndPush
  <2>2. hasher.cv_stack_len < MaxDepth
    <3>1. total % 2 # 0
      BY <2>1
    <3>2. QED
      BY <2>1, <3>1, TracksOwn, IInvImpliesStackInBounds DEF StackInBounds
  <2>3. Pushed(hasher, carry) = {PushTop(hasher, carry)}
    BY <2>2 DEF Pushed
  <2>4. QED
    BY <2>1, <2>3 DEF EndPush, history
<1>2. /\ input = Rest(message, p) /\ mode \in ModesInUse
  BY <1>1 DEF Tracks
<1>3. PICK level \in Nat : Climbing(hasher, mode, message, level, total, carry)
  BY <1>1 DEF Tracks, Climbs
<1>4. /\ total \in Nat \ {0} /\ c \in Nat /\ input # <<>>
      /\ p = c * ChunkLen + ChunkLen
  <2>1. TypeOK /\ Pushing
    BY <1>1, TracksOwn DEF Counted
  <2>2. c \in Nat
    BY <2>1, TypeFacts DEF TypeOK
  <2>3. QED
    BY <2>1, <2>2 DEF TypeOK, Pushing
<1>5. /\ message \in Seq(Nat) /\ p \in Nat /\ p < Len(message)
      /\ Len(message) \in Nat /\ Fits(message)
  BY <1>4, AbsorbedFacts
<1>6. n \in Nat /\ n * ChunkLen = p
  <2>1. ChunkLen \in Nat \ {0}
    BY LengthAssumption
  <2> HIDE DEF c
  <2>2. (c + 1) * ChunkLen = c * ChunkLen + ChunkLen
    BY <1>4, <2>1, Multiples
  <2>3. QED
    BY <1>4, <2>2
<1>7. Ones[n] <= MaxDepth
  <2>1. n * ChunkLen <= Len(message)
    BY <1>5, <1>6
  <2> HIDE DEF n
  <2>2. QED
    BY <1>5, <1>6, <2>1 DEF Fits
<1>8. /\ Settled(hasher', mode, message) /\ hasher'.chunk_counter = n
      /\ hasher'.chunk_buf = <<>>
  BY <1>1, <1>3, <1>4, <1>7, ClimbEnds
<1>9. Reading(hasher', mode, message, p)
  <2>1. p = hasher'.chunk_counter * ChunkLen
    BY <1>6, <1>8
  <2> HIDE DEF p, n
  <2>2. QED
    BY <1>5, <1>8, <2>1, EmptyReads
<1>10. Absorbed' = p
  BY <1>1 DEF Absorbed
<1> HIDE DEF p, n
<1>11. Reading(hasher, mode, message, Absorbed)'
  BY <1>1, <1>9, <1>10
<1>12. (input = Rest(message, Absorbed))'
  BY <1>1, <1>2, <1>10
<1>13. QED
  BY <1>1, <1>2, <1>11, <1>12 DEF Tracks

LEMMA TakeFacts ==
  ASSUME NEW h, NEW in \in Seq(Nat), in # <<>>, Len(h.chunk_buf) \in Nat,
         Len(h.chunk_buf) < ChunkLen
  PROVE  /\ Take(h, in) \in Nat \ {0}
         /\ Take(h, in) <= Len(in)
         /\ Len(h.chunk_buf) + Take(h, in) <= ChunkLen
<1> DEFINE n == Len(h.chunk_buf)
           room == ChunkLen - n
           len == Len(in)
           k == Take(h, in)
<1>1. n \in Nat /\ len \in Nat /\ len # 0 /\ ChunkLen \in Nat /\ n < ChunkLen
  BY LengthAssumption, EmptySeq, LenProperties
<1> HIDE DEF n, len
<1>2. room \in Nat /\ room # 0 /\ n + room = ChunkLen
  BY <1>1
<1>3. k = Min({room, len})
  BY DEF Take, n, len
<1> HIDE DEF room, k
<1>4. k = IF room <= len THEN room ELSE len
  BY <1>1, <1>2, <1>3, MinOfTwo
<1>5. k \in Nat \ {0} /\ k <= len /\ n + k <= ChunkLen
  BY <1>1, <1>2, <1>4
<1>6. QED
  BY <1>5 DEF n, len, k

(* The bytes copied to the chunk buffer are the next ones of the message.  *)
LEMMA FillTracks ==
  ASSUME IInv, Tracks, FillBuffer
  PROVE  Tracks'
<1> DEFINE p == Absorbed
           e == Len(message)
           k == Take(hasher, input)
           n == Len(input)
<1>1. /\ pc = "update" /\ pc' = "update" /\ input # <<>>
      /\ Len(hasher.chunk_buf) < ChunkLen
      /\ hasher' = Buffer(hasher, SubSeq(input, 1, k))
      /\ input' = SubSeq(input, k + 1, n) /\ state' = state
      /\ mode' = mode /\ message' = message /\ savedAs' = savedAs
  BY DEF FillBuffer, history
<1>2. /\ Reading(hasher, mode, message, p)
      /\ input = Rest(message, p) /\ mode \in ModesInUse
  BY <1>1 DEF Tracks
<1>3. /\ message \in Seq(Nat) /\ input \in Seq(Nat) /\ e \in Nat /\ p \in Nat
      /\ p <= e /\ n \in Nat
  BY AbsorbedFacts
<1>4. n = e - p
  <2> HIDE DEF p
  <2>1. Len(Rest(message, p)) = Len(message) - p
    BY <1>3, RestFacts
  <2>2. QED
    BY <1>2, <2>1
<1>5. k \in Nat \ {0} /\ k <= n /\ Len(hasher.chunk_buf) + k <= ChunkLen
  <2>1. Len(hasher.chunk_buf) \in Nat
    BY <1>2, ReadingFacts
  <2>2. QED
    BY <1>1, <1>3, <2>1, TakeFacts
<1> HIDE DEF p, k
<1>6. p + k <= e /\ p + n = e /\ p + k \in Nat /\ n = e - (p + k) + k
  <2> HIDE DEF e, n
  <2> QED BY <1>3, <1>4, <1>5
<1>7. SubSeq(input, 1, k) = SubSeq(message, p + 1, p + k)
  <2> DEFINE one == 1
  <2>1. one \in Nat /\ one >= 1 /\ one <= k + 1 /\ k \in Nat
    BY <1>5
  <2>2. input = SubSeq(message, p + 1, Len(message))
    BY <1>2 DEF Rest
  <2> HIDE DEF one
  <2>3. SubSeq(SubSeq(message, p + 1, Len(message)), one, k)
          = SubSeq(message, p + one, p + k)
    BY <1>3, <1>6, <2>1, WindowOfTail
  <2>4. QED
    BY <2>2, <2>3, Zenon DEF one
<1>8. SubSeq(input, k + 1, n) = Rest(message, p + k)
  <2> DEFINE i == k + 1
  <2>1. i \in Nat /\ i >= 1 /\ i <= n + 1 /\ p + i = (p + k) + 1
    <3> HIDE DEF n
    <3> QED BY <1>3, <1>5
  <2>2. input = SubSeq(message, p + 1, Len(message))
    BY <1>2 DEF Rest
  <2>3. p + n <= Len(message)
    BY <1>3, <1>6
  <2> HIDE DEF i, n
  <2>4. SubSeq(SubSeq(message, p + 1, Len(message)), i, n)
          = SubSeq(message, p + i, p + n)
    BY <1>3, <2>1, <2>3, WindowOfTail
  <2>5. SubSeq(input, i, n) = SubSeq(message, (p + k) + 1, Len(message))
    BY <1>6, <2>1, <2>2, <2>4, Zenon
  <2>6. QED
    BY <2>5, Zenon DEF Rest, i
<1>9. Reading(hasher', mode, message, p + k)
  <2>1. Reading(Buffer(hasher, SubSeq(message, p + 1, p + k)), mode, message,
                p + k)
    BY <1>2, <1>5, <1>6, FillReads
  <2>2. QED
    BY <1>1, <1>7, <2>1, Zenon
<1>10. Absorbed' = p + k
  <2>1. input' = Rest(message, p + k)
    BY <1>1, <1>8
  <2>2. Len(input') = e - (p + k)
    <3> DEFINE q == p + k
    <3>1. q \in Nat /\ q <= Len(message)
      BY <1>6
    <3> HIDE DEF q
    <3>2. Len(Rest(message, q)) = Len(message) - q
      BY <1>3, <3>1, RestFacts
    <3>3. QED
      BY <2>1, <3>2 DEF q
  <2>3. Absorbed' = e - Len(input')
    BY <1>1 DEF Absorbed
  <2> HIDE DEF e
  <2>4. QED
    BY <1>3, <1>6, <2>2, <2>3
<1>11. Reading(hasher, mode, message, Absorbed)'
  BY <1>1, <1>9, <1>10
<1>12. (input = Rest(message, Absorbed))'
  BY <1>1, <1>8, <1>10
<1>13. QED
  BY <1>1, <1>2, <1>11, <1>12 DEF Tracks

LEMMA StepFollows ==
  ASSUME ~ResetRefused, IInv, Follows, [Next]_vars
  PROVE  Follows'
<1> USE DEF calling, history
<1>0. IInv'
  BY StepIInv
<1>i. ASSUME pc = "idle", Own
      PROVE  /\ Reading(hasher, mode, message, Len(message))
             /\ message \in Seq(Nat) /\ HasMode(hasher, mode)
             /\ mode \in ModesInUse
  <2>1. Tracks /\ Typed
    BY <1>i DEF Follows, IInv
  <2>2. input = <<>>
    BY <1>i, <2>1 DEF Typed
  <2>3. Absorbed = Len(message) /\ message \in Seq(Nat)
    BY <2>2, AbsorbedFacts
  <2>4. Reading(hasher, mode, message, Len(message))
    BY <1>i, <2>1, <2>3 DEF Tracks
  <2>5. QED
    BY <2>1, <2>3, <2>4, Zenon DEF Reading, Settled, Tracks
<1>u. ASSUME ~Own, mode' = mode, state' = state, savedAs' = savedAs
      PROVE  Follows'
  BY <1>u, SavedReadsKept DEF Follows, Own
<1>v. ASSUME Own => Tracks', mode' = mode, state' = state, savedAs' = savedAs
      PROVE  Follows'
  BY <1>v, SavedReadsKept DEF Follows, Own
<1>1. CASE Start
  <2>1. PICK f \in Fresh : hasher' = f.hasher /\ mode' = f.mode
    BY <1>1 DEF Start
  <2>2. /\ pc' = "idle" /\ message' = <<>> /\ state' = state
        /\ savedAs' = savedAs
    BY <1>1 DEF Start
  <2>3. hasher' = InitHasher(mode'.key, mode'.flags) /\ mode' \in ModesInUse
    BY <2>1, FreshModes DEF ModesInUse
  <2>4. Reading(hasher', mode', message', Len(message'))
    BY <2>2, <2>3, FreshReads
  <2>5. QED
    BY <1>0, <2>2, <2>3, <2>4, IdleTracks, SavedReadsKept DEF Follows
<1>2. ASSUME NEW in \in InputsAt(Len(message)), BeginUpdate(in) PROVE Follows'
  <2>1. Own => Tracks'
    BY <1>2, BeginTracks DEF Follows
  <2>2. QED
    BY <1>2, <1>v, <2>1 DEF BeginUpdate
<1>3. CASE FlushChunk
  <2>1. Own => Tracks'
    BY <1>3, FlushTracks DEF Follows
  <2>2. QED
    BY <1>3, <1>v, <2>1 DEF FlushChunk
<1>4. CASE MergeCV
  <2>1. Own => Tracks'
    BY <1>4, MergeTracks DEF Follows
  <2>2. QED
    BY <1>4, <1>v, <2>1 DEF MergeCV
<1>5. CASE EndPush
  <2>1. Own => Tracks'
    BY <1>5, EndPushTracks DEF Follows
  <2>2. QED
    BY <1>5, <1>v, <2>1 DEF EndPush
<1>6. CASE FillBuffer
  <2>1. Own => Tracks'
    BY <1>6, FillTracks DEF Follows
  <2>2. QED
    BY <1>6, <1>v, <2>1 DEF FillBuffer
<1>7. CASE EndUpdate
  <2>1. /\ pc = "update" /\ input = <<>> /\ pc' = "idle"
        /\ hasher' = hasher /\ mode' = mode /\ message' = message
        /\ state' = state /\ savedAs' = savedAs
    BY <1>7 DEF EndUpdate
  <2>2. ASSUME Own PROVE Tracks'
    <3>1. Reading(hasher, mode, message, Absorbed) /\ mode \in ModesInUse
      BY <2>1, <2>2 DEF Follows, Tracks
    <3>2. Absorbed = Len(message)
      BY <2>1, AbsorbedFacts
    <3>3. Reading(hasher', mode', message', Len(message'))
      BY <2>1, <3>1, <3>2
    <3>4. QED
      BY <1>0, <2>1, <3>1, <3>3, IdleTracks
  <2>3. QED
    BY <1>v, <2>1, <2>2
<1>8. ASSUME UNCHANGED <<hasher, pc, calling, state, history>> PROVE Follows'
  BY <1>8, SavedReadsKept DEF Follows, Own, Tracks, Absorbed
<1>9. ASSUME NEW seek \in Seeks, NEW out_len \in OutLens,
             Finalize(seek, out_len)
      PROVE  Follows'
  BY <1>8, <1>9 DEF Finalize
<1>10. CASE Reset
  <2>1. /\ pc = "idle" /\ pc' = "idle" /\ message' = <<>> /\ mode' = mode
        /\ hasher' = ResetHasher(hasher) /\ state' = state
        /\ savedAs' = savedAs
    BY <1>10 DEF Reset
  <2>2. ASSUME Own PROVE Tracks'
    <3>1. hasher' = InitHasher(mode.key, mode.flags) /\ mode' \in ModesInUse
      BY <1>i, <2>1, <2>2 DEF ResetHasher, HasMode
    <3>2. Reading(hasher', mode', message', Len(message'))
      BY <2>1, <3>1, FreshReads
    <3>3. QED
      BY <1>0, <2>1, <3>1, <3>2, IdleTracks
  <2>3. QED
    BY <1>v, <2>1, <2>2
<1>11. CASE Serialize
  <2>1. /\ pc = "idle" /\ pc' = "idle" /\ message' = message /\ mode' = mode
        /\ hasher' = hasher /\ state' = hasher
        /\ savedAs' = [mode |-> mode, message |-> message]
    BY <1>11 DEF Serialize
  <2>2. mode \in ModesInUse \cup {None} /\ message \in Seq(Nat)
    <3>1. mode \in ModesInUse \cup {None}
      BY <1>i, <2>1 DEF Own
    <3>2. QED
      BY <3>1 DEF IInv, Typed, TypeOK
  <2>3. savedAs' \in [mode : ModesInUse \cup {None}, message : Seq(Nat)]
        /\ savedAs'.mode = mode /\ savedAs'.message = message
    BY <2>1, <2>2
  <2>4. SavedReads'
    <3>1. savedAs' # None
      BY <2>3, NoneAssumption
    <3>2. savedAs'.mode # None =>
            Reading(state', savedAs'.mode, savedAs'.message,
                    Len(savedAs'.message))
      BY <1>i, <2>1, <2>3 DEF Own
    <3>3. QED
      BY <2>3, <3>1, <3>2 DEF SavedReads
  <2>5. Own => Tracks'
    BY <1>0, <1>i, <2>1, IdleTracks
  <2>6. QED
    BY <2>1, <2>4, <2>5 DEF Follows, Own
<1>12. CASE Deserialize
  <2>1. /\ state # None /\ pc' = "idle" /\ hasher' = state
        /\ mode' = savedAs.mode /\ message' = savedAs.message
        /\ state' = state /\ savedAs' = savedAs
    BY <1>12 DEF Deserialize
  <2>2. ASSUME Own' PROVE Tracks'
    <3>1. /\ savedAs \in [mode : ModesInUse \cup {None}, message : Seq(Nat)]
          /\ savedAs.mode # None
          /\ Reading(state, savedAs.mode, savedAs.message,
                     Len(savedAs.message))
      BY <2>1, <2>2 DEF Follows, SavedReads, Own
    <3>2. mode' \in ModesInUse
      BY <2>1, <3>1
    <3>3. Reading(hasher', mode', message', Len(message'))
      BY <2>1, <3>1
    <3>4. QED
      BY <1>0, <2>1, <3>2, <3>3, IdleTracks
  <2>3. QED
    BY <2>1, <2>2, SavedReadsKept DEF Follows
<1>13. ASSUME NEW b \in Others, DeserializeOther(b) PROVE Follows'
  BY <1>13, SavedReadsKept DEF DeserializeOther, Follows, Own
<1>14. CASE DeserializeNoState
  BY <1>8, <1>14 DEF DeserializeNoState
<1>15. ASSUME NEW b \in Buffers,
              NEW damage \in {"buf_len", "chunk_buf_len", "cv_stack_len"},
              DeserializeDamaged(b, damage)
       PROVE  Follows'
  <2>1. Own => Tracks'
    BY <1>15 DEF DeserializeDamaged, Follows, Tracks
  <2>2. QED
    BY <1>15, <1>v, <2>1 DEF DeserializeDamaged
<1>16. CASE UNCHANGED vars
  BY <1>8, <1>16 DEF vars
<1>17. QED
  BY <1>1, <1>2, <1>3, <1>4, <1>5, <1>6, <1>7, <1>9, <1>10, <1>11, <1>12,
     <1>13, <1>14, <1>15, <1>16
  DEF Next, UpdateStep

-----------------------------------------------------------------------------
(* Each step is a step of HashSpec, or leaves what it shows as it was.     *)
shown == <<ShownMode, ShownMessage, ShownSaved, ShownDigest>>

LEMMA InitPromises == Init => Promise!Init
<1> SUFFICES ASSUME Init PROVE Promise!Init
  OBVIOUS
<1>1. PICK f \in Fresh : mode = f.mode
  BY DEF Init
<1>2. mode \in Promise!Modes
  BY <1>1, FreshModes
<1>3. pc = "idle" /\ message = <<>> /\ savedAs = None /\ digest = None
  BY DEF Init
<1>4. ShownMode = mode /\ ShownMessage = <<>> /\ ShownSaved = None
      /\ ShownDigest = None
  BY <1>3 DEF ShownMode, ShownMessage, ShownSaved, ShownDigest
<1>5. QED
  BY <1>2, <1>4 DEF Promise!Init

LEMMA StepPromises ==
  ASSUME ~ResetRefused, IInv, Follows, [Next]_vars
  PROVE  Promise!Next \/ UNCHANGED shown
<1> USE DEF calling, history
<1> DEFINE Same == UNCHANGED <<pc, mode, message, savedAs>>
<1>m. ASSUME UNCHANGED savedAs PROVE ShownSaved' = ShownSaved
  BY <1>m DEF ShownSaved
<1>v. ASSUME pc' = "refused" \/ mode' = None, message' = <<>> \/ mode' = None,
             digest' = None, savedAs' = savedAs
      PROVE  Promise!Next
  <2>1. ShownMode' = None /\ ShownMessage' = <<>> /\ ShownDigest' = None
        /\ ShownSaved' = ShownSaved
    BY <1>m, <1>v DEF ShownMode, ShownMessage, ShownDigest
  <2>2. Promise!Void
    BY <2>1 DEF Promise!Void
  <2>3. QED
    BY <2>2 DEF Promise!Next
(* What a step that reports nothing does to a hasher without a mode.       *)
<1>w. ASSUME mode = None, pc # "refused", pc' # "refused", UNCHANGED <<mode, savedAs>>
      PROVE  UNCHANGED shown
  BY <1>m, <1>w DEF shown, ShownMode, ShownMessage, ShownDigest
<1>x. ASSUME mode # None, pc # "refused"
      PROVE  /\ ShownMode = mode /\ ShownMessage = message
             /\ ShownMode # None /\ mode \in ModesInUse
  BY <1>x DEF ShownMode, ShownMessage, Follows, Own, Tracks
<1>1. CASE Start
  <2>1. PICK f \in Fresh : mode' = f.mode
    BY <1>1 DEF Start
  <2>2. mode' \in Promise!Modes /\ mode' # None
    BY <2>1, FreshModes, NoneAssumption DEF ModesInUse
  <2>3. ShownMode' = mode' /\ ShownMessage' = <<>> /\ ShownDigest' = None
        /\ ShownSaved' = ShownSaved
    BY <1>1, <1>m, <2>2 DEF Start, ShownMode, ShownMessage, ShownDigest
  <2>4. Promise!Start(mode')
    BY <2>3 DEF Promise!Start
  <2>5. QED
    BY <2>2, <2>4 DEF Promise!Next
<1>2. ASSUME NEW in \in InputsAt(Len(message)), BeginUpdate(in)
      PROVE  Promise!Next \/ UNCHANGED shown
  <2>1. pc = "idle" /\ pc' = "update" /\ UNCHANGED <<mode, savedAs>>
        /\ message' = message \o in /\ digest' = None
        /\ Len(message) + Len(in) <= MaxLen
    BY <1>2 DEF BeginUpdate
  <2>2. CASE mode # None
    <3>1. ShownMode' = ShownMode /\ ShownMessage' = message \o in
          /\ ShownDigest' = None /\ ShownSaved' = ShownSaved
      BY <1>m, <2>1, <2>2 DEF ShownMode, ShownMessage, ShownDigest
    <3>2. ShownMessage = message /\ ShownMode # None
      BY <1>x, <2>1, <2>2
    <3>3. Promise!Append_(in)
      BY <2>1, <3>1, <3>2 DEF Promise!Append_
    <3>4. QED
      BY <3>2, <3>3 DEF Promise!Next
  <2>3. CASE mode = None
    BY <1>w, <2>1, <2>3
  <2>4. QED
    BY <2>2, <2>3
<1>3. CASE UpdateStep
  <2>1. /\ UNCHANGED <<mode, message, savedAs, digest>>
        /\ pc # "refused" /\ pc' # "refused"
    BY <1>3 DEF UpdateStep, FlushChunk, MergeCV, EndPush, FillBuffer, EndUpdate
  <2>2. QED
    BY <1>m, <2>1 DEF shown, ShownMode, ShownMessage, ShownDigest
<1>4. ASSUME NEW seek \in Seeks, NEW out_len \in OutLens,
             Finalize(seek, out_len)
      PROVE  Promise!Next \/ UNCHANGED shown
  <2>1. pc = "idle" /\ digest' = FinalizeSeek(hasher, seek, out_len)
        /\ UNCHANGED <<pc, mode, message, savedAs>>
    BY <1>4 DEF Finalize
  <2>2. CASE mode # None
    <3>1. seek \in Nat /\ out_len \in Nat
      BY ArgumentAssumption
    <3>2. Reading(hasher, mode, message, Len(message))
      <4>1. input = <<>>
        BY <2>1 DEF IInv, Typed
      <4>2. Absorbed = Len(message)
        BY <4>1, AbsorbedFacts
      <4>3. QED
        BY <2>1, <2>2, <4>2 DEF Follows, Own, Tracks
    <3>3. RootNode(hasher) = Root(mode, message)
      BY <3>2, RootNodeIs
    <3>4. digest' = Promise!XOF(mode, message, seek, out_len)
      BY <2>1, <3>1, <3>3, OutputIs, SameOutput DEF FinalizeSeek
    <3>5. ShownMode = mode /\ ShownMessage = message /\ ShownMode # None
      BY <1>x, <2>1, <2>2
    <3>6. ShownMode' = ShownMode /\ ShownMessage' = ShownMessage
          /\ ShownSaved' = ShownSaved /\ ShownDigest' = digest'
      BY <1>m, <2>1, <2>2 DEF ShownMode, ShownMessage, ShownDigest
    <3>7. Promise!Digest(seek, out_len)
      BY <3>4, <3>5, <3>6 DEF Promise!Digest
    <3>8. QED
      BY <3>7 DEF Promise!Next
  <2>3. CASE mode = None
    BY <1>w, <2>1, <2>3
  <2>4. QED
    BY <2>2, <2>3
<1>5. CASE Reset
  <2>1. pc = "idle" /\ pc' = "idle" /\ UNCHANGED <<mode, savedAs>>
        /\ message' = <<>> /\ digest' = None
    BY <1>5 DEF Reset
  <2>2. CASE mode # None
    <3>1. ShownMode' = ShownMode /\ ShownMessage' = <<>>
          /\ ShownDigest' = None /\ ShownSaved' = ShownSaved
      BY <1>m, <2>1, <2>2 DEF ShownMode, ShownMessage, ShownDigest
    <3>2. ShownMode # None
      BY <1>x, <2>1, <2>2
    <3>3. Promise!Reset
      BY <3>1, <3>2 DEF Promise!Reset, Promise!Start
    <3>4. QED
      BY <3>3 DEF Promise!Next
  <2>3. CASE mode = None
    BY <1>w, <2>1, <2>3
  <2>4. QED
    BY <2>2, <2>3
<1>6. CASE Serialize
  <2>1. pc = "idle" /\ UNCHANGED <<pc, mode, message>> /\ digest' = None
        /\ savedAs' = [mode |-> mode, message |-> message]
    BY <1>6 DEF Serialize
  <2>2. ShownMode' = ShownMode /\ ShownMessage' = ShownMessage
        /\ ShownDigest' = None
    BY <2>1 DEF ShownMode, ShownMessage, ShownDigest
  <2>3. ShownSaved' = IF ShownMode = None THEN None
                      ELSE [mode |-> ShownMode, message |-> ShownMessage]
    <3>1. savedAs' # None /\ savedAs'.mode = mode
      <4>1. mode \in ModesInUse \cup {None} /\ message \in Seq(Nat)
        BY DEF IInv, Typed, TypeOK, Follows, Own, Tracks
      <4>2. savedAs' \in [mode : ModesInUse \cup {None}, message : Seq(Nat)]
        BY <2>1, <4>1
      <4>3. QED
        BY <2>1, <4>2, NoneAssumption
    <3>2. ShownSaved' = IF mode = None THEN None ELSE savedAs'
      BY <3>1 DEF ShownSaved
    <3>3. ShownMode = mode
      BY <2>1 DEF ShownMode
    <3>4. mode # None => ShownMessage = message
      BY DEF ShownMessage
    <3>5. QED
      BY <2>1, <3>2, <3>3, <3>4
  <2>4. Promise!Save
    BY <2>2, <2>3 DEF Promise!Save
  <2>5. QED
    BY <2>4 DEF Promise!Next
<1>7. CASE Deserialize
  <2>1. /\ state # None /\ pc' = "idle" /\ digest' = None
        /\ mode' = savedAs.mode /\ message' = savedAs.message
        /\ savedAs' = savedAs /\ savedAs # None
    BY <1>7 DEF Deserialize, Follows, SavedReads
  <2>2. CASE savedAs.mode # None
    <3>1. ShownSaved = savedAs /\ ShownSaved' = ShownSaved
      BY <1>m, <2>1, <2>2 DEF ShownSaved
    <3>2. ShownMode' = savedAs.mode /\ ShownMessage' = savedAs.message
          /\ ShownDigest' = None
      BY <2>1, <2>2 DEF ShownMode, ShownMessage, ShownDigest
    <3>3. Promise!Restore
      BY <2>1, <3>1, <3>2 DEF Promise!Restore
    <3>4. QED
      BY <3>3 DEF Promise!Next
  <2>3. CASE savedAs.mode = None
    BY <1>v, <2>1, <2>3
  <2>4. QED
    BY <2>2, <2>3
<1>8. ASSUME NEW b \in Others, DeserializeOther(b) PROVE Promise!Next
  BY <1>8, <1>v DEF DeserializeOther
<1>9. CASE DeserializeNoState
  <2>1. UNCHANGED <<pc, mode, message, savedAs>> /\ digest' = None
    BY <1>9 DEF DeserializeNoState
  <2>2. ShownMode' = ShownMode /\ ShownMessage' = ShownMessage
        /\ ShownDigest' = None /\ ShownSaved' = ShownSaved
    BY <1>m, <2>1 DEF ShownMode, ShownMessage, ShownDigest
  <2>3. Promise!Refuse
    BY <2>2 DEF Promise!Refuse
  <2>4. QED
    BY <2>3 DEF Promise!Next
<1>10. ASSUME NEW b \in Buffers,
              NEW damage \in {"buf_len", "chunk_buf_len", "cv_stack_len"},
              DeserializeDamaged(b, damage)
       PROVE  Promise!Next
  BY <1>10, <1>v DEF DeserializeDamaged
<1>11. CASE UNCHANGED vars
  BY <1>11 DEF vars, shown, ShownMode, ShownMessage, ShownDigest, ShownSaved
<1>12. QED
  BY <1>1, <1>2, <1>3, <1>4, <1>5, <1>6, <1>7, <1>8, <1>9, <1>10, <1>11
  DEF Next

(* For callers that do not reset a hasher after a restore into it was      *)
(* refused, the invariant of the refinement holds in every state.          *)
LEMMA Following ==
  ASSUME ~ResetRefused
  PROVE  Spec => [](IInv /\ Follows)
<1>1. Init => IInv /\ Follows
  BY InitIInv, InitFollows
<1>2. IInv /\ Follows /\ [Next]_vars => IInv' /\ Follows'
  BY StepIInv, StepFollows
<1>3. QED
  BY <1>1, <1>2, PTL DEF Spec

(* The incremental hasher of blake4.c keeps the promise of blake4.h: each  *)
(* digest is the requested window of the output of the tree hash of        *)
(* exactly the bytes passed to update since the last init or reset, or     *)
(* before the serialized state that was restored, under the mode asked     *)
(* for, however the bytes were cut into updates.  Nothing is promised of a *)
(* hasher restored from a buffer that serialize did not fill.              *)
THEOREM HasherKeepsPromise ==
  ASSUME ~ResetRefused
  PROVE  Spec => ImplementsHashSpec
<1>1. IInv /\ Follows /\ [Next]_vars => [Promise!Next]_(Promise!vars)
  BY StepPromises DEF Promise!vars, shown
<1>2. QED
  BY InitPromises, <1>1, Following, PTL
      DEF Spec, ImplementsHashSpec, Promise!Spec

(* Such callers find the hasher, whenever it is ready, under the key and   *)
(* the flags it was last initialised or restored with: blake4_hasher_reset *)
(* (blake4.c) is wrong only after a refused restore.                       *)
THEOREM ModeKept ==
  ASSUME ~ResetRefused
  PROVE  Spec => []KeepsMode
<1>1. IInv /\ Follows => KeepsMode
  BY DEF Follows, Tracks, Reading, Settled, HasMode, KeepsMode
<1>2. QED
  BY <1>1, Following, PTL

LEMMA ModesInUseAre ==
  ASSUME NEW mo \in ModesInUse
  PROVE  IsMode(mo)
<1>1. PICK f \in Fresh : mo = f.mode
  BY DEF ModesInUse
<1>2. CASE f = [hasher |-> InitPlain, mode |-> [key |-> IV, flags |-> {}]]
  BY <1>1, <1>2 DEF IsMode, ModeIs
<1>3. ASSUME NEW k \in Keys,
             f = [hasher |-> InitKeyed(k),
                  mode |-> [key |-> Key(k), flags |-> {"KEYED_HASH"}]]
      PROVE  IsMode(mo)
  BY <1>1, <1>3 DEF IsMode, ModeIs, Markers
<1>4. ASSUME NEW c \in Contexts,
             f = [hasher |-> InitDeriveKey(c),
                  mode |-> [key |-> InitDeriveKey(c).key_words,
                            flags |-> {"DERIVE_KEY_MATERIAL"}]]
      PROVE  IsMode(mo)
  BY <1>1, <1>4 DEF IsMode, ModeIs, Markers
<1>5. QED
  BY <1>2, <1>3, <1>4 DEF Fresh

(* Whatever two hashers are fed, under whatever modes, and in however many *)
(* updates: finalize (blake4.c) gives them the same root exactly when mode *)
(* and message are the same.                                               *)
THEOREM DigestsSeparate ==
  ASSUME ~ResetRefused
  PROVE  Spec => []DigestSeparates
<1>1. ASSUME IInv, Follows PROVE DigestSeparates
  <2> SUFFICES ASSUME Own, pc = "idle", savedAs # None, savedAs.mode # None
               PROVE  RootBlock(RootNode(hasher), 0) = RootBlock(RootNode(state), 0)
                        <=> savedAs = [mode |-> mode, message |-> message]
    BY DEF DigestSeparates
  <2> DEFINE mo == savedAs.mode
             m == savedAs.message
  <2>1. /\ savedAs \in [mode : ModesInUse \cup {None}, message : Seq(Nat)]
        /\ Reading(state, mo, m, Len(m))
    BY <1>1 DEF Follows, SavedReads
  <2>2. /\ mo \in ModesInUse /\ m \in Seq(Nat)
        /\ savedAs = [mode |-> mo, message |-> m]
    BY <2>1
  <2>3. RootNode(state) = Root(mo, m)
    BY <2>1, RootNodeIs
  <2> HIDE DEF mo, m
  <2>4. /\ Reading(hasher, mode, message, Len(message))
        /\ message \in Seq(Nat) /\ mode \in ModesInUse
    <3>1. input = <<>>
      BY <1>1 DEF IInv, Typed
    <3>2. Absorbed = Len(message) /\ message \in Seq(Nat)
      BY <1>1, <3>1, AbsorbedFacts
    <3>3. QED
      BY <1>1, <3>2 DEF Follows, Tracks
  <2>5. RootNode(hasher) = Root(mode, message)
    BY <2>4, RootNodeIs
  <2>6. IsMode(mode) /\ IsMode(mo)
    BY <2>2, <2>4, ModesInUseAre
  <2>7. ASSUME RootBlock(Root(mode, message), 0) = RootBlock(Root(mo, m), 0)
        PROVE  mode = mo /\ message = m
    BY <2>2, <2>4, <2>6, <2>7, RootsSeparate
  <2>8. ASSUME savedAs = [mode |-> mode, message |-> message]
        PROVE  mode = mo /\ message = m
    BY <2>8 DEF mo, m
  <2>9. QED
    BY <2>2, <2>3, <2>5, <2>7, <2>8
<1>2. IInv /\ Follows => DigestSeparates
  BY <1>1
<1>3. QED
  BY <1>2, Following, PTL
=============================================================================
