---------------------------- MODULE StreamProofs ----------------------------
(***************************************************************************)
(* Proofs about BLAKE4-STREAM, for any chunk length, files, pieces, slices *)
(* and buffers: the type invariant, what a decoder delivers, that the tree *)
(* built level by level is the left-full one, that a proof fits the buffer *)
(* its size is computed for, and what a slice that passes vouches for.     *)
(***************************************************************************)
EXTENDS Stream, BasicProofs

(* All that the callers' files hold.                                       *)
StreamBytes == {EditionByte(e, i) : e \in Editions, i \in Nat}

LEMMA PartIs ==
  ASSUME NEW e \in Editions, NEW from \in Nat, NEW to \in Nat, from <= to
  PROVE  /\ Part(e, from, to) \in Seq(StreamBytes)
         /\ Len(Part(e, from, to)) = to - from
<1> DEFINE f == Part(e, from, to)
           n == to - from
<1>1. n \in Nat
  OBVIOUS
<1>2. \A i \in 1..n : EditionByte(e, from + i) \in StreamBytes
  BY <1>1 DEF StreamBytes
<1>3. f = [i \in 1..n |-> EditionByte(e, from + i)]
  BY DEF Part
<1> HIDE DEF f, n
<1>4. f \in [1..n -> StreamBytes]
  BY <1>2, <1>3
<1>5. f \in Seq(StreamBytes) /\ Len(f) = n
  BY <1>1, <1>4
<1>6. QED
  BY <1>5 DEF f, n

-----------------------------------------------------------------------------
(* The loop of decoder_update.  Input taken in and not yet let through is  *)
(* the rest of a chunk; there is none once the length in the header of the *)
(* tree is reached.                                                        *)
Reached(total, taken) == total > 0 /\ taken >= total

Aligned(total, verified, held) ==
  /\ held < ChunkLen
  /\ IF Reached(total, verified + held) THEN held = 0
     ELSE \E q \in Nat : verified = q * ChunkLen

LEMMA AlignedHolds ==
  ASSUME NEW total \in Nat, NEW verified \in Nat, NEW held \in Nat,
         Aligned(total, verified, held)
  PROVE  held = IF Reached(total, verified + held) THEN 0
                ELSE (verified + held) % ChunkLen
<1>1. CASE Reached(total, verified + held)
  BY <1>1 DEF Aligned
<1>2. CASE ~Reached(total, verified + held)
  <2>1. PICK q \in Nat : verified = q * ChunkLen
    BY <1>2 DEF Aligned
  <2>2. ChunkLen \in Nat \ {0} /\ held \in 0..(ChunkLen - 1)
    BY StreamAssumption DEF Aligned
  <2>3. (q * ChunkLen + held) % ChunkLen = held
    BY <2>2, DivisionIs
  <2>4. QED
    BY <1>2, <2>1, <2>3
<1>3. QED
  BY <1>1, <1>2

(* A chunk that is flushed leaves nothing behind, one that is not flushed  *)
(* is not complete.  held counts the piece just copied.                    *)
LEMMA FlushAligns ==
  ASSUME NEW total \in Nat, NEW verified \in Nat,
         NEW before \in Nat, NEW held \in Nat, before <= held, held <= ChunkLen,
         Aligned(total, verified, before)
  PROVE  LET flushed == held = ChunkLen \/ Reached(total, verified + held)
         IN  /\ flushed => Aligned(total, verified + held, 0)
             /\ ~flushed => Aligned(total, verified, held)
<1>1. ChunkLen \in Nat /\ ChunkLen > 0 /\ ChunkLen \in Nat \ {0}
  BY StreamAssumption
<1>2. CASE Reached(total, verified + held)
  <2>1. (verified + held) + 0 = verified + held
    OBVIOUS
  <2>2. QED
    BY <1>1, <1>2, <2>1 DEF Aligned
<1>3. CASE ~Reached(total, verified + held)
  <2>1. ~Reached(total, verified + before)
    BY <1>3 DEF Reached
  <2>2. PICK q \in Nat : verified = q * ChunkLen
    BY <2>1 DEF Aligned
  <2>3. held = ChunkLen => verified + held = (q + 1) * ChunkLen
    BY <1>1, <2>2, Multiples
  <2>4. held = ChunkLen => Aligned(total, verified + held, 0)
    <3>1. q + 1 \in Nat /\ (verified + held) + 0 = verified + held
      OBVIOUS
    <3>2. QED
      BY <1>1, <1>3, <2>3, <3>1 DEF Aligned
  <2>5. held # ChunkLen => Aligned(total, verified, held)
    BY <1>1, <1>3, <2>2 DEF Aligned
  <2>6. QED
    BY <1>3, <2>4, <2>5
<1>4. QED
  BY <1>2, <1>3

(* Bytes of a sequence: [from, to) counted from 0.                         *)
LEMMA BytesIs ==
  ASSUME NEW S, NEW s \in Seq(S), NEW from \in Nat, NEW to \in Nat,
         from <= to, to <= Len(s)
  PROVE  /\ Bytes(s, from, to) \in Seq(S)
         /\ Len(Bytes(s, from, to)) = to - from
         /\ \A i \in 1..(to - from) : Bytes(s, from, to)[i] = s[from + i]
<1> DEFINE a == from + 1
<1>1. a \in Nat /\ a >= 1 /\ a <= to + 1 /\ to - a + 1 = to - from
      /\ \A i \in 1..(to - from) : a + i - 1 = from + i
  OBVIOUS
<1> HIDE DEF a
<1>2. /\ SubSeq(s, a, to) \in Seq(S)
      /\ Len(SubSeq(s, a, to)) = to - a + 1
      /\ \A i \in 1..(to - a + 1) : SubSeq(s, a, to)[i] = s[a + i - 1]
  BY <1>1, WindowFacts
<1>3. Bytes(s, from, to) = SubSeq(s, a, to)
  BY DEF Bytes, a
<1>4. QED
  BY <1>1, <1>2, <1>3

IsSeqOf(w, S, n) == w \in Seq(S) /\ Len(w) = n

LEMMA BytesAre ==
  ASSUME NEW S, NEW s \in Seq(S), NEW from \in Nat, NEW to \in Nat,
         from <= to, to <= Len(s)
  PROVE  IsSeqOf(Bytes(s, from, to), S, to - from)
BY BytesIs DEF IsSeqOf

LEMMA BytesAll ==
  ASSUME NEW S, NEW s \in Seq(S), NEW n, n = Len(s)
  PROVE  Bytes(s, 0, n) = s
<1>1. 0 + 1 = 1
  OBVIOUS
<1>2. QED
  BY <1>1, SubSeqFull DEF Bytes

LEMMA BytesJoin ==
  ASSUME NEW S, NEW s \in Seq(S), NEW mid \in Nat, NEW to \in Nat,
         mid <= to, to <= Len(s)
  PROVE  Bytes(s, 0, mid) \o Bytes(s, mid, to) = Bytes(s, 0, to)
<1>1. Len(s) \in Nat
  BY LenProperties
<1>2. 1 \in 1..(Len(s) + 1) /\ mid \in (1 - 1)..Len(s) /\ to \in mid..Len(s)
      /\ 0 + 1 = 1
  BY <1>1
<1>3. SubSeq(s, 1, mid) \o SubSeq(s, mid + 1, to) = SubSeq(s, 1, to)
  BY <1>2, ConcatAdjacentSubSeq
<1>4. QED
  BY <1>2, <1>3 DEF Bytes

Regrouped(x, y, z) == (x \o y) \o z = x \o (y \o z)

LEMMA Regroup ==
  ASSUME NEW S, NEW x \in Seq(S), NEW y \in Seq(S), NEW z \in Seq(S)
  PROVE  Regrouped(x, y, z)
<1>1. (x \o y) \o z = x \o (y \o z)
  BY ConcatAssociative
<1>2. QED
  BY <1>1 DEF Regrouped

(* What a decoder delivered and what it holds make up what it took in,     *)
(* whether a piece is held or put out.                                     *)
Delivered(given, out, buf, piece) ==
  /\ ((given \o out) \o buf) \o piece = (given \o out) \o (buf \o piece)
  /\ ((given \o out) \o buf) \o piece
       = (given \o (out \o (buf \o piece))) \o <<>>

LEMMA TurnReads ==
  ASSUME NEW S, NEW given \in Seq(S), NEW out \in Seq(S),
         NEW buf \in Seq(S), NEW piece \in Seq(S)
  PROVE  Delivered(given, out, buf, piece)
<1> DEFINE x == given \o out
           z == buf \o piece
           y == out \o z
           all == given \o y
<1>1. x \in Seq(S) /\ z \in Seq(S)
  BY ConcatProperties
<1>2. y \in Seq(S)
  <2> HIDE DEF z
  <2> QED BY <1>1, ConcatProperties
<1>3. all \in Seq(S)
  <2> HIDE DEF y
  <2> QED BY <1>2, ConcatProperties
<1>4. (x \o buf) \o piece = x \o z
  <2> HIDE DEF x
  <2>1. Regrouped(x, buf, piece)
    BY <1>1, Regroup
  <2>2. QED
    BY <2>1 DEF Regrouped
<1>5. x \o z = all
  <2> HIDE DEF z
  <2>1. Regrouped(given, out, z)
    BY <1>1, Regroup
  <2>2. QED
    BY <2>1 DEF Regrouped
<1>6. all \o <<>> = all
  <2> HIDE DEF all
  <2> QED BY <1>3, ConcatEmptySeq
<1> HIDE DEF x, y, z, all
<1>7. (x \o buf) \o piece = x \o z /\ (x \o buf) \o piece = all \o <<>>
  BY <1>4, <1>5, <1>6
<1>8. QED
  BY <1>7 DEF x, y, z, all, Delivered

-----------------------------------------------------------------------------
(* The state t of the loop after k turns over data.  The decoder was d,    *)
(* fed and given all it was fed and had delivered before.  Nothing is lost *)
(* as long as the output so far is as long as what was verified.           *)
IsDecoder(d) ==
  DOMAIN d = {"expected", "total", "verified", "buf", "result"}

TurnTypes(S, data, t) ==
  /\ DOMAIN t = {"buf", "verified", "pos", "out", "data"}
  /\ t.buf \in Seq(S) /\ t.out \in Seq(S)
  /\ t.data \in Seq(S) /\ Len(t.data) = Len(data)
  /\ t.verified \in Nat /\ t.pos \in 0..Len(data)

TurnCounts(d, data, room, given, t, k) ==
  /\ Aligned(d.total, t.verified, Len(t.buf))
  /\ t.verified + Len(t.buf) = d.verified + Len(d.buf) + t.pos
  /\ Len(t.out) <= room
  /\ Len(t.out) + Len(t.buf) <= Len(d.buf) + t.pos
  /\ Len(given) + Len(t.out) <= t.verified
  /\ room >= Len(d.buf) + Len(data) /\ Len(given) = d.verified
       => /\ Len(given) + Len(t.out) = t.verified
          /\ t.pos >= k \/ t.pos = Len(data)

(* The input that is not consumed yet is what it was.                      *)
Unread(data, t) ==
  \A i \in (t.pos + 1)..Len(data) : t.data[i] = data[i]

TurnDelivers(fed, given, data, t) ==
  Len(given) + Len(t.out) = t.verified
    => fed \o Bytes(data, 0, t.pos) = (given \o t.out) \o t.buf

(* How much a turn copies and puts out.                                    *)
Sizes(held, n, pos, room, written, copied, w) ==
  /\ copied \in Nat /\ copied >= 1 /\ held + copied <= ChunkLen
  /\ pos + copied \in Nat /\ pos + copied <= n
  /\ w \in Nat /\ w <= held + copied /\ w <= room - written
  /\ held + copied <= room - written => w = held + copied

LEMMA TurnSizes ==
  ASSUME NEW held \in Nat, held < ChunkLen, NEW n \in Nat, NEW pos \in Nat,
         pos < n, NEW room \in Nat, NEW written \in Nat, written < room,
         NEW copied, copied = Min({ChunkLen - held, n - pos}),
         NEW w, w = Min({held + copied, room - written})
  PROVE  Sizes(held, n, pos, room, written, copied, w)
<1>1. ChunkLen \in Nat
  BY StreamAssumption
<1>2. copied = IF ChunkLen - held <= n - pos THEN ChunkLen - held ELSE n - pos
  BY <1>1, MinOfTwo
<1>3. copied \in Nat /\ copied >= 1 /\ held + copied <= ChunkLen
      /\ pos + copied \in Nat /\ pos + copied <= n
  BY <1>1, <1>2
<1>4. w = IF held + copied <= room - written THEN held + copied ELSE room - written
  BY <1>3, MinOfTwo
<1>5. QED
  BY <1>3, <1>4 DEF Sizes

(* safe: neither this update nor an earlier one went over unread input.    *)
TurnInv(S, d, data, room, safe, fed, given, t, k) ==
  /\ TurnTypes(S, data, t)
  /\ TurnCounts(d, data, room, given, t, k)
  /\ safe => Unread(data, t)
  /\ safe /\ Len(fed) = d.verified + Len(d.buf) => TurnDelivers(fed, given, data, t)

(* Output that ends before pos2 leaves the input from pos2 on as it is.    *)
Stored(S, data, pos2, mem2) ==
  /\ mem2 \in Seq(S) /\ Len(mem2) = Len(data)
  /\ \A i \in 1..Len(data) : i > pos2 => mem2[i] = data[i]

LEMMA PatchedBehind ==
  ASSUME NEW S, NEW mem \in Seq(S), NEW start \in Nat, NEW piece \in Seq(S)
  PROVE  Stored(S, mem, start + Len(piece), Patched(mem, start, piece))
<1> DEFINE patched == Patched(mem, start, piece)
           n == Len(mem)
           m == Len(piece)
           f(i) == IF i > start /\ i <= start + m THEN piece[i - start] ELSE mem[i]
<1>1. n \in Nat /\ m \in Nat
  BY LenProperties
<1>2. /\ \A i \in 1..n : mem[i] \in S
      /\ \A i \in 1..m : piece[i] \in S
  BY ElementOfSeq
<1>3. patched = [i \in 1..n |-> f(i)]
  BY DEF Patched
<1> HIDE DEF patched, n, m
<1>4. ASSUME NEW i \in 1..n PROVE f(i) \in S
  <2>1. CASE i > start /\ i <= start + m
    <3>1. i - start \in 1..m
      BY <1>1, <2>1
    <3>2. QED
      BY <1>2, <2>1, <3>1
  <2>2. CASE ~(i > start /\ i <= start + m)
    BY <1>2, <2>2
  <2>3. QED
    BY <2>1, <2>2
<1>5. ASSUME NEW i \in 1..n, i > start + m PROVE patched[i] = mem[i]
  <2>1. ~(i > start /\ i <= start + m)
    BY <1>1, <1>5
  <2>2. patched[i] = f(i)
    BY <1>3
  <2>3. QED
    BY <2>1, <2>2
<1>6. patched \in [1..n -> S]
  <2> HIDE DEF f
  <2> QED BY <1>3, <1>4
<1>7. patched \in Seq(S) /\ Len(patched) = n
  BY <1>1, <1>6
<1>8. QED
  BY <1>5, <1>7 DEF patched, n, m, Stored

(* The input after a turn that put out front, in place or not.             *)
LeftBehind(S, data, pos2, safe, mem2) ==
  /\ mem2 \in Seq(S) /\ Len(mem2) = Len(data)
  /\ safe => \A i \in (pos2 + 1)..Len(data) : mem2[i] = data[i]

LEMMA TurnStores ==
  ASSUME NEW S, NEW data \in Seq(S), NEW mem \in Seq(S), Len(mem) = Len(data),
         NEW written \in Nat, NEW front \in Seq(S), NEW pos \in Nat,
         NEW pos2 \in Nat, pos <= pos2, NEW in_place,
         NEW mem2, mem2 = IF in_place THEN Patched(mem, written, front) ELSE mem,
         NEW safe, safe => /\ in_place => written + Len(front) <= pos2
                           /\ \A i \in (pos + 1)..Len(data) : mem[i] = data[i]
  PROVE  LeftBehind(S, data, pos2, safe, mem2)
<1> DEFINE n == Len(data)
           stop == written + Len(front)
<1>1. n \in Nat /\ stop \in Nat
  BY LenProperties
<1>2. Stored(S, mem, stop, Patched(mem, written, front))
  BY PatchedBehind
<1>3. mem2 \in Seq(S) /\ Len(mem2) = Len(data)
  BY <1>2 DEF Stored
<1>4. ASSUME safe, NEW i \in (pos2 + 1)..n PROVE mem2[i] = data[i]
  <2>1. i \in (pos + 1)..n /\ i \in 1..n
    <3> HIDE DEF n
    <3> QED BY <1>1
  <2>2. mem[i] = data[i]
    BY <1>4, <2>1
  <2>3. CASE in_place
    <3>1. stop <= pos2
      BY <1>4, <2>3
    <3>2. i > stop
      <4> HIDE DEF n, stop
      <4> QED BY <1>1, <3>1
    <3>3. Patched(mem, written, front)[i] = mem[i]
      BY <1>2, <2>1, <3>2 DEF Stored
    <3>4. QED
      BY <2>2, <2>3, <3>3
  <2>4. CASE ~in_place
    BY <2>2, <2>4
  <2>5. QED
    BY <2>3, <2>4
<1>5. QED
  BY <1>3, <1>4 DEF LeftBehind

(* Windows of two sequences that agree there.                              *)
AgreeOn(s, t, from, to) == Bytes(t, from, to) = Bytes(s, from, to)

LEMMA SameBytes ==
  ASSUME NEW S, NEW s \in Seq(S), NEW t, NEW from \in Nat, NEW to \in Nat,
         to <= Len(s), \A i \in (from + 1)..to : t[i] = s[i]
  PROVE  AgreeOn(s, t, from, to)
<1> DEFINE a == from + 1
<1>1. a \in Int /\ to \in Int /\ 0 \in Int /\ a = 0 + a /\ to = 0 + to /\ Len(s) \in Nat
  BY LenProperties
<1>2. \A i \in a..to : i \in 1..Len(s) /\ 0 + i = i
  BY <1>1
<1>3. \A i \in a..to : s[i] \in S /\ t[0 + i] = s[i]
  BY <1>2, ElementOfSeq
<1> HIDE DEF a
<1>4. SubSeq(t, a, to) = SubSeq(s, a, to)
  BY <1>1, <1>3, SubSeqSame
<1>5. QED
  BY <1>4 DEF a, Bytes, AgreeOn

LEMMA TurnKeeps ==
  ASSUME NEW S, NEW data \in Seq(S), NEW d, IsDecoder(d), d.total \in Nat,
         d.verified \in Nat, d.buf \in Seq(S),
         NEW room \in Nat, NEW fed \in Seq(S), NEW given \in Seq(S),
         NEW in_place, NEW safe, safe => (in_place => d.buf = <<>>),
         NEW k \in Nat, NEW t, TurnInv(S, d, data, room, safe, fed, given, t, k),
         t.pos < Len(data), Len(t.out) < room
  PROVE  TurnInv(S, d, data, room, safe, fed, given, Turn(d, t, room, in_place),
                 k + 1)
<1> DEFINE n == Len(data)
           held == Len(t.buf)
           written == Len(t.out)
           pos == t.pos
           copied == Min({ChunkLen - held, n - pos})
           piece == Bytes(t.data, pos, pos + copied)
           buf == t.buf \o piece
           full == held + copied
           w == Min({full, room - written})
           front == Bytes(buf, 0, w)
           out == t.out \o front
           d2 == [d EXCEPT !.verified = t.verified]
           u == Turn(d, t, room, in_place)
           flushed == full = ChunkLen \/ Reached(d.total, t.verified + full)
<1>1. /\ held \in Nat /\ n \in Nat /\ written \in Nat /\ pos \in 0..n
      /\ pos < n /\ written < room /\ t.buf \in Seq(S) /\ t.out \in Seq(S)
      /\ t.verified \in Nat /\ Len(given) \in Nat /\ Len(fed) \in Nat
      /\ Len(d.buf) \in Nat
      /\ DOMAIN t = {"buf", "verified", "pos", "out", "data"}
      /\ t.data \in Seq(S) /\ Len(t.data) = n
  BY LenProperties DEF TurnInv, TurnTypes
<1>2. held < ChunkLen
  BY DEF TurnInv, TurnCounts, Aligned
<1>3. /\ copied \in Nat /\ copied >= 1 /\ full <= ChunkLen
      /\ pos + copied \in Nat /\ pos + copied <= n
      /\ w \in Nat /\ w <= full /\ w <= room - written
      /\ full <= room - written => w = full
  <2>1. copied = Min({ChunkLen - held, n - pos})
        /\ w = Min({held + copied, room - written}) /\ pos \in Nat
    BY <1>1
  <2> HIDE DEF held, n, written, pos, copied, w
  <2>2. Sizes(held, n, pos, room, written, copied, w)
    BY <1>1, <1>2, <2>1, TurnSizes
  <2>3. QED
    BY <2>2 DEF Sizes
<1>4. piece \in Seq(S) /\ Len(piece) = copied
  <2> DEFINE end == pos + copied
  <2>1. pos \in Nat /\ end \in Nat /\ pos <= end /\ end <= n /\ end - pos = copied
    <3> HIDE DEF copied, n, pos
    <3> QED BY <1>1, <1>3
  <2>2. end <= Len(t.data)
    BY <1>1, <2>1
  <2> HIDE DEF end, copied, n, pos
  <2>3. IsSeqOf(Bytes(t.data, pos, end), S, end - pos)
    BY <1>1, <2>1, <2>2, BytesAre
  <2>4. IsSeqOf(Bytes(t.data, pos, end), S, copied)
    BY <2>1, <2>3
  <2>5. QED
    BY <2>4 DEF end, IsSeqOf
<1>5. buf \in Seq(S) /\ Len(buf) = full
  <2> HIDE DEF piece, copied
  <2> QED BY <1>1, <1>4, ConcatProperties
<1>6. front \in Seq(S) /\ Len(front) = w /\ (w = full => front = buf)
  <2> HIDE DEF w, full, buf
  <2>1. w \in Nat /\ 0 <= w /\ w <= Len(buf) /\ w - 0 = w
    BY <1>3, <1>5
  <2>2. front \in Seq(S) /\ Len(front) = w
    <3>1. IsSeqOf(front, S, w - 0)
      BY <1>5, <2>1, BytesAre
    <3>2. QED
      BY <2>1, <3>1 DEF IsSeqOf
  <2>3. w = full => front = buf
    BY <1>5, BytesAll
  <2>4. QED
    BY <2>2, <2>3
<1>7. out \in Seq(S) /\ Len(out) = written + w
  <2> HIDE DEF front, w
  <2> QED BY <1>1, <1>6, ConcatProperties
<1>8. d2.total = d.total /\ d2.verified = t.verified
  BY DEF IsDecoder
<1>9. /\ DOMAIN u = {"buf", "verified", "pos", "out", "data"}
      /\ u.pos = pos + copied
      /\ flushed => /\ u.buf = <<>> /\ u.verified = t.verified + full /\ u.out = out
                    /\ u.data = IF in_place THEN Patched(t.data, written, front)
                                ELSE t.data
      /\ ~flushed => /\ u.buf = buf /\ u.verified = t.verified
                     /\ u.out = t.out /\ u.data = t.data
  <2>1. ToCopy(t) = copied
    BY <1>1 DEF ToCopy
  <2>2. Flushed(d2, buf) <=> flushed
    <3> HIDE DEF buf, full, d2
    <3> QED BY <1>5, <1>8 DEF Flushed, Reached
  <2>8. Bytes(buf, 0, Min({Len(buf), room - written})) = front
    <3> HIDE DEF buf, full, copied
    <3> QED BY <1>5 DEF w
  <2>3. u = IF Flushed(d2, buf)
            THEN [buf |-> <<>>, verified |-> t.verified + Len(buf),
                  pos |-> pos + copied, out |-> out,
                  data |-> IF in_place THEN Patched(t.data, written, front)
                           ELSE t.data]
            ELSE [t EXCEPT !.buf = buf, !.pos = @ + copied]
    <3> HIDE DEF copied, w, front
    <3> QED BY <2>1, <2>8 DEF Turn
  <2> HIDE DEF buf, full, copied, flushed, d2, u, out, front
  <2>5. CASE flushed
    BY <1>5, <2>2, <2>3, <2>5
  <2>6. CASE ~flushed
    <3>1. u = [t EXCEPT !.buf = buf, !.pos = @ + copied]
      BY <2>2, <2>3, <2>6
    <3>2. QED
      BY <1>1, <2>6, <3>1
  <2>7. QED
    BY <2>5, <2>6
<1>10. /\ flushed => Aligned(d.total, t.verified + full, 0)
       /\ ~flushed => Aligned(d.total, t.verified, full)
  <2>1. Aligned(d.total, t.verified, held)
    BY DEF TurnInv, TurnCounts
  <2>2. full \in Nat /\ held <= full /\ full <= ChunkLen
    <3> HIDE DEF held, copied
    <3> QED BY <1>1, <1>3
  <2> HIDE DEF held, full
  <2>3. QED
    BY <1>1, <2>1, <2>2, FlushAligns
<1>13. ASSUME safe
       PROVE  fed \o Bytes(data, 0, pos + copied) = (fed \o Bytes(data, 0, pos)) \o piece
  <2> DEFINE head == Bytes(data, 0, pos)
             end == pos + copied
  <2>1. pos \in Nat /\ pos <= Len(data) /\ 0 <= pos
    BY <1>1
  <2>2. end \in Nat /\ pos <= end /\ end <= Len(data)
    <3> HIDE DEF copied, pos, n
    <3> QED BY <1>1, <1>3 DEF n
  <2>8. \A i \in (pos + 1)..n : t.data[i] = data[i]
    BY <1>13 DEF TurnInv, Unread
  <2> HIDE DEF end, pos, copied
  <2>3. head \in Seq(S)
    BY <2>1, BytesIs
  <2>4. head \o Bytes(data, pos, end) = Bytes(data, 0, end)
    BY <2>1, <2>2, BytesJoin
  <2>5. Bytes(data, pos, end) = piece
    <3>1. \A i \in (pos + 1)..end : t.data[i] = data[i]
      BY <1>1, <2>1, <2>2, <2>8
    <3>2. AgreeOn(data, t.data, pos, end)
      BY <2>1, <2>2, <3>1, SameBytes
    <3>3. QED
      BY <3>2 DEF end, AgreeOn
  <2> HIDE DEF head, piece
  <2>6. Regrouped(fed, head, piece)
    BY <1>4, <2>3, Regroup
  <2>7. QED
    BY <2>4, <2>5, <2>6 DEF head, end, Regrouped
<1>15. written + held <= Len(d.buf) + pos
  BY DEF TurnInv, TurnCounts
<1>16. /\ u.data \in Seq(S) /\ Len(u.data) = n
       /\ safe => Unread(data, u)
  <2> DEFINE pos2 == pos + copied
             mem == t.data
  <2>1. u.pos = pos2
    BY <1>9
  <2>2. pos2 \in Nat /\ pos <= pos2 /\ pos \in Nat
    <3> HIDE DEF pos, copied, n
    <3> QED BY <1>1, <1>3
  <2>3. safe => \A i \in (pos + 1)..n : mem[i] = data[i]
    BY DEF TurnInv, Unread
  <2>4. safe /\ in_place => written + Len(front) <= pos2
    <3>1. safe /\ in_place => Len(d.buf) = 0
      BY EmptySeq
    <3>2. full = held + copied
      OBVIOUS
    <3> HIDE DEF full, held, written, w, pos, copied, n, front
    <3>3. QED
      BY <1>1, <1>3, <1>6, <1>15, <3>1, <3>2
  <2> HIDE DEF flushed, u, front, written, pos, copied, n
  <2>5. CASE flushed
    <3> DEFINE mem2 == u.data
    <3>1. mem2 = IF in_place THEN Patched(mem, written, front) ELSE mem
      BY <1>9, <2>5
    <3>2. mem \in Seq(S) /\ Len(mem) = Len(data)
      BY <1>1 DEF n
    <3>3. safe => /\ in_place => written + Len(front) <= pos2
                  /\ \A i \in (pos + 1)..Len(data) : mem[i] = data[i]
      BY <2>3, <2>4 DEF n
    <3> HIDE DEF mem2, mem, pos2
    <3>4. LeftBehind(S, data, pos2, safe, mem2)
      BY <1>1, <1>6, <2>2, <3>1, <3>2, <3>3, TurnStores
    <3>5. QED
      BY <2>1, <3>4 DEF mem2, n, Unread, LeftBehind
  <2>6. CASE ~flushed
    <3>1. u.data = mem
      BY <1>9, <2>6
    <3>2. \A i \in (pos2 + 1)..n : i \in (pos + 1)..n
      <4> HIDE DEF pos2
      <4> QED BY <1>1, <2>2
    <3> HIDE DEF pos2
    <3>3. QED
      BY <1>1, <2>1, <2>3, <3>1, <3>2 DEF n, Unread
  <2>7. QED
    BY <2>5, <2>6
<1> HIDE DEF u, flushed
<1>11. ASSUME flushed PROVE TurnInv(S, d, data, room, safe, fed, given, u, k + 1)
  <2>1. u.buf = <<>> /\ u.verified = t.verified + full /\ u.pos = pos + copied
        /\ u.out = out /\ Len(u.buf) = 0
    <3> HIDE DEF out, full, copied, pos
    <3> QED BY <1>9, <1>11
  <2>2. TurnTypes(S, data, u)
    <3>1. <<>> \in Seq(S)
      BY EmptySeq
    <3>0. full \in Nat
      <4> HIDE DEF held, copied
      <4> QED BY <1>1, <1>3
    <3> HIDE DEF out, full, copied, pos, n
    <3>2. t.verified + full \in Nat /\ pos + copied \in 0..n
      BY <1>1, <1>3, <3>0
    <3>3. QED
      BY <1>7, <1>9, <1>16, <2>1, <3>1, <3>2 DEF TurnTypes, n
  <2>3. TurnCounts(d, data, room, given, u, k + 1)
    <3> DEFINE g == Len(given)
               dv == d.verified
               dh == Len(d.buf)
               v == t.verified
    <3>1. /\ v + held = dv + dh + pos /\ g + written <= v
          /\ room >= dh + n /\ g = dv
               => g + written = v /\ (pos >= k \/ pos = n)
      BY DEF TurnInv, TurnCounts
    <3>2. g \in Nat /\ dv \in Nat /\ dh \in Nat /\ v \in Nat
      BY <1>1
    <3>3. Aligned(d.total, u.verified, Len(u.buf))
      <4> HIDE DEF full
      <4> QED BY <1>10, <1>11, <2>1
    <3>7. written + held <= dh + pos
      BY <1>15
    <3> HIDE DEF g, dv, dh, v, held, written, pos, n, copied, w
    <3>4. /\ (v + full) + 0 = dv + dh + (pos + copied)
          /\ written + w <= room
          /\ (written + w) + 0 <= dh + (pos + copied)
          /\ g + (written + w) <= v + full
          /\ room >= dh + n /\ g = dv
               => /\ g + (written + w) = v + full
                  /\ pos + copied >= k + 1 \/ pos + copied = n
      BY <1>1, <1>3, <3>1, <3>2, <3>7
    <3>5. Len(u.out) = written + w
      BY <1>7, <2>1
    <3> HIDE DEF full
    <3>6. QED
      BY <2>1, <3>3, <3>4, <3>5 DEF TurnCounts, g, dv, dh, v, n
  <2>4. ASSUME safe, Len(fed) = d.verified + Len(d.buf)
        PROVE  TurnDelivers(fed, given, data, u)
    <3> SUFFICES ASSUME Len(given) + Len(u.out) = u.verified
                 PROVE  fed \o Bytes(data, 0, u.pos) = (given \o u.out) \o u.buf
      BY DEF TurnDelivers
    <3>1. w = full /\ Len(given) + written = t.verified
      <4>1. Len(given) + written <= t.verified
        BY DEF TurnInv, TurnCounts
      <4>2. Len(given) + (written + w) = t.verified + full
        <5> HIDE DEF out, full, w, written
        <5> QED BY <1>7, <2>1
      <4>3. full \in Nat
        <5> HIDE DEF held, copied
        <5> QED BY <1>1, <1>3
      <4> DEFINE g == Len(given)
                 v == t.verified
      <4>4. g \in Nat /\ v \in Nat /\ g + written <= v
            /\ g + (written + w) = v + full
        BY <1>1, <4>1, <4>2
      <4> HIDE DEF full, w, written, copied, pos, n, held, g, v
      <4>5. w = full /\ g + written = v
        BY <1>1, <1>3, <4>3, <4>4
      <4>6. QED
        BY <4>5 DEF g, v
    <3>2. fed \o Bytes(data, 0, pos) = (given \o t.out) \o t.buf
      BY <2>4, <3>1 DEF TurnInv, TurnDelivers
    <3>3. fed \o Bytes(data, 0, pos + copied)
            = ((given \o t.out) \o t.buf) \o piece
      BY <1>13, <2>4, <3>2
    <3>4. out = t.out \o (t.buf \o piece)
      <4> HIDE DEF w, full, piece
      <4> QED BY <1>6, <3>1
    <3>5. ((given \o t.out) \o t.buf) \o piece
            = (given \o (t.out \o (t.buf \o piece))) \o <<>>
      <4> HIDE DEF piece
      <4>1. Delivered(given, t.out, t.buf, piece)
        BY <1>1, <1>4, TurnReads
      <4>2. QED
        BY <4>1 DEF Delivered
    <3> HIDE DEF out, piece, copied, pos
    <3>6. QED
      BY <2>1, <3>3, <3>4, <3>5
  <2>5. safe /\ Len(fed) = d.verified + Len(d.buf)
          => TurnDelivers(fed, given, data, u)
    BY <2>4
  <2>6. QED
    BY <1>16, <2>2, <2>3, <2>5 DEF TurnInv
<1>12. ASSUME ~flushed PROVE TurnInv(S, d, data, room, safe, fed, given, u, k + 1)
  <2>1. u.buf = buf /\ u.verified = t.verified /\ u.pos = pos + copied
        /\ u.out = t.out /\ Len(u.buf) = full
    <3> HIDE DEF out, full, copied, pos, buf
    <3> QED BY <1>5, <1>9, <1>12
  <2>2. TurnTypes(S, data, u)
    <3> HIDE DEF buf, full, copied, pos, n
    <3>1. pos + copied \in 0..n
      BY <1>1, <1>3
    <3>2. QED
      BY <1>1, <1>5, <1>9, <1>16, <2>1, <3>1 DEF TurnTypes, n
  <2>3. TurnCounts(d, data, room, given, u, k + 1)
    <3> DEFINE g == Len(given)
               dv == d.verified
               dh == Len(d.buf)
               v == t.verified
    <3>1. /\ v + held = dv + dh + pos /\ g + written <= v /\ written <= room
          /\ room >= dh + n /\ g = dv
               => g + written = v /\ (pos >= k \/ pos = n)
      BY DEF TurnInv, TurnCounts
    <3>2. g \in Nat /\ dv \in Nat /\ dh \in Nat /\ v \in Nat
      BY <1>1
    <3>3. Aligned(d.total, u.verified, Len(u.buf))
      <4> HIDE DEF full
      <4> QED BY <1>10, <1>12, <2>1
    <3>7. written + held <= dh + pos
      BY <1>15
    <3> HIDE DEF g, dv, dh, v, held, written, pos, n, copied, buf
    <3>4. /\ v + full = dv + dh + (pos + copied)
          /\ written + full <= dh + (pos + copied)
          /\ room >= dh + n /\ g = dv
               => pos + copied >= k + 1 \/ pos + copied = n
      BY <1>1, <1>3, <3>1, <3>2, <3>7
    <3> HIDE DEF full
    <3>6. QED
      BY <2>1, <3>1, <3>3, <3>4 DEF TurnCounts, g, dv, dh, v, n, written
  <2>4. ASSUME safe, Len(fed) = d.verified + Len(d.buf)
        PROVE  TurnDelivers(fed, given, data, u)
    <3> SUFFICES ASSUME Len(given) + Len(u.out) = u.verified
                 PROVE  fed \o Bytes(data, 0, u.pos) = (given \o u.out) \o u.buf
      BY DEF TurnDelivers
    <3>1. Len(given) + written = t.verified
      <4> HIDE DEF buf, full
      <4> QED BY <2>1
    <3>2. fed \o Bytes(data, 0, pos) = (given \o t.out) \o t.buf
      BY <2>4, <3>1 DEF TurnInv, TurnDelivers
    <3>3. fed \o Bytes(data, 0, pos + copied)
            = ((given \o t.out) \o t.buf) \o piece
      BY <1>13, <2>4, <3>2
    <3>4. ((given \o t.out) \o t.buf) \o piece = (given \o t.out) \o buf
      <4> HIDE DEF piece
      <4>1. Delivered(given, t.out, t.buf, piece)
        BY <1>1, <1>4, TurnReads
      <4>2. QED
        BY <4>1 DEF Delivered, buf
    <3> HIDE DEF piece, copied, pos, buf, full
    <3>5. QED
      BY <2>1, <3>3, <3>4
  <2>5. safe /\ Len(fed) = d.verified + Len(d.buf)
          => TurnDelivers(fed, given, data, u)
    BY <2>4
  <2>6. QED
    BY <1>16, <2>2, <2>3, <2>5 DEF TurnInv
<1>14. QED
  BY <1>11, <1>12 DEF u

(* A turn that is not made: all is consumed, or the output is full.        *)
LEMMA NoTurnKeeps ==
  ASSUME NEW S, NEW data \in Seq(S), NEW d, d.verified \in Nat, d.buf \in Seq(S),
         NEW room \in Nat, NEW fed \in Seq(S), NEW given \in Seq(S),
         NEW safe,
         NEW k \in Nat, NEW t, TurnInv(S, d, data, room, safe, fed, given, t, k),
         ~(t.pos < Len(data) /\ Len(t.out) < room)
  PROVE  TurnInv(S, d, data, room, safe, fed, given, t, k + 1)
<1> DEFINE n == Len(data)
           g == Len(given)
           dv == d.verified
           dh == Len(d.buf)
           v == t.verified
           pos == t.pos
           held == Len(t.buf)
           written == Len(t.out)
           c == TurnCounts(d, data, room, given, t, k)
<1>1. /\ n \in Nat /\ g \in Nat /\ dv \in Nat /\ dh \in Nat /\ v \in Nat
      /\ pos \in 0..n /\ held \in Nat /\ written \in Nat
  BY LenProperties DEF TurnInv, TurnTypes
<1>2. /\ Aligned(d.total, v, held)
      /\ v + held = dv + dh + pos /\ written <= room /\ g + written <= v
      /\ written + held <= dh + pos
      /\ room >= dh + n /\ g = dv
           => g + written = v /\ (pos >= k \/ pos = n)
  BY DEF TurnInv, TurnCounts
<1>3. ~(pos < n /\ written < room)
  OBVIOUS
<1> HIDE DEF n, g, dv, dh, v, pos, held, written
<1>4. room >= dh + n /\ g = dv
        => g + written = v /\ (pos >= k + 1 \/ pos = n)
  BY <1>1, <1>2, <1>3
<1>5. TurnCounts(d, data, room, given, t, k + 1)
  BY <1>2, <1>4 DEF TurnCounts, n, g, dv, dh, v, pos, held, written
<1>6. QED
  BY <1>5 DEF TurnInv

-----------------------------------------------------------------------------
(* A decoder that is open took in some of what it was fed and let some of  *)
(* that through; if nothing was lost, nor overwritten (safe), it holds the *)
(* rest.                                                                   *)
Lossless(d, fed, given) ==
  /\ Len(fed) = d.verified + Len(d.buf)
  /\ Len(given) = d.verified

Open(S, d, fed, given, safe) ==
  /\ IsDecoder(d)
  /\ d.total \in Nat /\ d.verified \in Nat /\ d.buf \in Seq(S)
  /\ Aligned(d.total, d.verified, Len(d.buf))
  /\ d.verified + Len(d.buf) <= Len(fed) /\ Len(given) <= d.verified
  /\ safe /\ Lossless(d, fed, given) => fed = given \o d.buf

LoopStep(p, t, k) ==
  IF t.pos < Len(p.data) /\ Len(t.out) < p.room
  THEN Turn(p.d, t, p.room, p.in_place) ELSE t
Looping == INSTANCE Recursion WITH Step <- LoopStep

(* The turns of a loop, from its start.                                    *)
TurnsOf(turn, p, start, n) ==
  turn[0] = start /\ \A k \in 1..n : turn[k] = LoopStep(p, turn[k - 1], k)

LEMMA LoopRuns ==
  ASSUME NEW p, NEW start, NEW n \in Nat, NEW turn,
         Looping!IsRecursion(turn, p, start, n)
  PROVE  TurnsOf(turn, p, start, n)
<1>1. /\ turn[0] = start
      /\ \A k \in 1..n : turn[k] = LoopStep(p, turn[k - 1], k)
  BY Looping!RecursionRuns
<1>2. QED
  BY <1>1 DEF TurnsOf

LEMMA LoopKeeps ==
  ASSUME NEW S, NEW data \in Seq(S), NEW d, NEW room \in Nat,
         NEW fed \in Seq(S), NEW given \in Seq(S),
         NEW in_place, NEW safe, safe => (in_place => d.buf = <<>>),
         Open(S, d, fed, given, safe)
  PROVE  TurnInv(S, d, data, room, safe, fed, given,
                 UpdateLoop(d, data, room, in_place), Len(data))
<1> DEFINE start == [buf |-> d.buf, verified |-> d.verified, pos |-> 0,
                     out |-> <<>>, data |-> data]
           p == [d |-> d, data |-> data, room |-> room, in_place |-> in_place]
           n == Len(data)
           Holds(t, k) == TurnInv(S, d, data, room, safe, fed, given, t, k)
<1>1. n \in Nat /\ Len(given) \in Nat /\ Len(d.buf) \in Nat /\ d.verified \in Nat
  BY LenProperties DEF Open
<1>2. Holds(start, 0)
  <2>1. <<>> \in Seq(S) /\ Len(<<>>) = 0
    BY EmptySeq
  <2>2. TurnTypes(S, data, start)
    BY <1>1, <2>1 DEF TurnTypes, Open
  <2>3. TurnCounts(d, data, room, given, start, 0)
    <3> HIDE DEF n
    <3> QED BY <1>1, <2>1 DEF TurnCounts, Open, n
  <2>4. ASSUME safe, Len(fed) = d.verified + Len(d.buf)
        PROVE  TurnDelivers(fed, given, data, start)
    <3> SUFFICES ASSUME Len(given) = d.verified
                 PROVE  fed \o Bytes(data, 0, 0) = (given \o <<>>) \o d.buf
      BY <1>1, <2>1 DEF TurnDelivers
    <3>1. fed = given \o d.buf
      BY <2>4 DEF Open, Lossless
    <3>2. Bytes(data, 0, 0) = <<>>
      <4>1. 0 + 1 \in Int /\ 0 < 0 + 1 /\ 0 \in Int
        OBVIOUS
      <4>2. QED
        BY <4>1, SubSeqEmpty DEF Bytes
    <3>3. given \o <<>> = given /\ fed \o <<>> = fed
      BY ConcatEmptySeq
    <3>4. QED
      BY <3>1, <3>2, <3>3
  <2>5. safe /\ Len(fed) = d.verified + Len(d.buf)
          => TurnDelivers(fed, given, data, start)
    BY <2>4
  <2>6. Unread(data, start)
    BY DEF Unread
  <2> HIDE DEF start
  <2>7. QED
    BY <2>2, <2>3, <2>5, <2>6 DEF TurnInv
<1>3. ASSUME NEW t, NEW k \in Nat, Holds(t, k) PROVE Holds(LoopStep(p, t, k + 1), k + 1)
  <2>1. LoopStep(p, t, k + 1) = IF t.pos < n /\ Len(t.out) < room
                                THEN Turn(d, t, room, in_place) ELSE t
    BY DEF LoopStep
  <2>2. CASE t.pos < n /\ Len(t.out) < room
    <3>1. Holds(Turn(d, t, room, in_place), k + 1)
      BY <1>3, <2>2, TurnKeeps DEF Open
    <3>2. LoopStep(p, t, k + 1) = Turn(d, t, room, in_place)
      BY <2>1, <2>2
    <3> HIDE DEF p, Holds
    <3>3. QED
      BY <3>1, <3>2
  <2>3. CASE ~(t.pos < n /\ Len(t.out) < room)
    <3>1. Holds(t, k + 1)
      BY <1>3, <2>3, NoTurnKeeps DEF Open
    <3>2. LoopStep(p, t, k + 1) = t
      BY <2>1, <2>3
    <3> HIDE DEF p, Holds
    <3>3. QED
      BY <3>1, <3>2
  <2>4. QED
    BY <2>2, <2>3
<1>4. PICK turn : /\ Looping!IsRecursion(turn, p, start, n)
                  /\ UpdateLoop(d, data, room, in_place) = turn[n]
  BY DEF Looping!IsRecursion, UpdateLoop, LoopStep
<1>5. turn[0] = start /\ \A k \in 1..n : turn[k] = LoopStep(p, turn[k - 1], k)
  <2>1. n \in Nat /\ Looping!IsRecursion(turn, p, start, n)
    BY <1>1, <1>4
  <2> HIDE DEF n, p, start
  <2>2. TurnsOf(turn, p, start, n)
    BY <2>1, LoopRuns
  <2>3. QED
    BY <2>2 DEF TurnsOf
<1> HIDE DEF start, p, Holds
<1> DEFINE T == {k \in Nat : k <= n => Holds(turn[k], k)}
<1>6. 0 \in T
  BY <1>2, <1>5
<1>7. ASSUME NEW k \in Nat, k \in T PROVE k + 1 \in T
  <2> SUFFICES ASSUME k + 1 <= n PROVE Holds(turn[k + 1], k + 1)
    OBVIOUS
  <2> HIDE DEF n
  <2>1. k <= n /\ k + 1 \in 1..n /\ (k + 1) - 1 = k
    BY <1>1
  <2>2. Holds(turn[k], k)
    BY <1>7, <2>1
  <2>3. turn[k + 1] = LoopStep(p, turn[k], k + 1)
    BY <1>5, <2>1
  <2>4. QED
    BY <1>3, <2>2, <2>3
<1>8. Nat \subseteq T
  <2> HIDE DEF T
  <2> QED BY <1>6, <1>7, SetInduction
<1>9. Holds(turn[n], n)
  <2> HIDE DEF n
  <2>1. n <= n
    BY <1>1
  <2>2. QED
    BY <1>1, <1>8, <2>1
<1>10. QED
  BY <1>4, <1>9 DEF Holds

(* What is taken in stays within what is fed.                              *)
Sums(n, f, dv, dh, v, pos, held) ==
  /\ v + held <= f + n
  /\ f + n = v + held => pos = n /\ f = dv + dh
  /\ pos >= n /\ f = dv + dh => f + n = v + held

LEMMA CountsAdd ==
  ASSUME NEW n \in Nat, NEW f \in Nat, NEW g \in Nat, NEW dv \in Nat, NEW dh \in Nat,
         NEW v \in Nat, NEW pos \in 0..n, NEW held \in Nat, NEW written \in Nat,
         v + held = dv + dh + pos, g + written <= v, dv + dh <= f, g <= dv
  PROVE  Sums(n, f, dv, dh, v, pos, held)
BY DEF Sums

(* decoder_update keeps a decoder open.                                    *)
Updated(d, t) == [d EXCEPT !.buf = t.buf, !.verified = t.verified]

StaysOpen(S, d, data, room, safe, fed, given, t, d2) ==
  /\ fed \o data \in Seq(S) /\ given \o t.out \in Seq(S)
  /\ d2.result = d.result
  /\ Open(S, d2, fed \o data, given \o t.out, safe)
  /\ room >= Len(d.buf) + Len(data) /\ Lossless(d, fed, given)
       => Lossless(d2, fed \o data, given \o t.out)

LEMMA UpdateKeepsOpen ==
  ASSUME NEW S, NEW data \in Seq(S), NEW d, NEW room \in Nat,
         NEW fed \in Seq(S), NEW given \in Seq(S),
         NEW in_place, NEW safe, safe => (in_place => d.buf = <<>>),
         Open(S, d, fed, given, safe),
         NEW t, t = UpdateLoop(d, data, room, in_place),
         NEW d2, d2 = Updated(d, t)
  PROVE  StaysOpen(S, d, data, room, safe, fed, given, t, d2)
<1> DEFINE n == Len(data)
           f == Len(fed)
           g == Len(given)
           dv == d.verified
           dh == Len(d.buf)
           v == t.verified
           pos == t.pos
           held == Len(t.buf)
           written == Len(t.out)
           fed2 == fed \o data
           given2 == given \o t.out
<1>1. TurnInv(S, d, data, room, safe, fed, given, t, n)
  BY LoopKeeps
<1>2. /\ n \in Nat /\ f \in Nat /\ g \in Nat /\ dv \in Nat /\ dh \in Nat
      /\ v \in Nat /\ pos \in 0..n /\ held \in Nat /\ written \in Nat
      /\ t.buf \in Seq(S) /\ t.out \in Seq(S)
  BY <1>1, LenProperties DEF TurnInv, TurnTypes, Open
<1>3. /\ v + held = dv + dh + pos /\ g + written <= v
      /\ room >= dh + n /\ g = dv => g + written = v /\ (pos >= n \/ pos = n)
  BY <1>1 DEF TurnInv, TurnCounts
<1>4. dv + dh <= f /\ g <= dv
  BY DEF Open
<1>5. fed2 \in Seq(S) /\ Len(fed2) = f + n
  BY ConcatProperties
<1>6. given2 \in Seq(S) /\ Len(given2) = g + written
  BY <1>2, ConcatProperties
<1>7. d2.buf = t.buf /\ d2.verified = v /\ d2.total = d.total
      /\ d2.result = d.result /\ IsDecoder(d2)
  BY DEF Open, IsDecoder, Updated
<1>16. /\ v + held <= f + n
       /\ f + n = v + held => pos = n /\ f = dv + dh
       /\ pos >= n /\ f = dv + dh => f + n = v + held
  <2> HIDE DEF n, f, g, dv, dh, v, pos, held, written
  <2>1. Sums(n, f, dv, dh, v, pos, held)
    BY <1>2, <1>3, <1>4, CountsAdd
  <2>2. QED
    BY <2>1 DEF Sums
<1>8. safe /\ f + n = v + held /\ g + written = v => fed2 = given2 \o t.buf
  <2> SUFFICES ASSUME safe, f + n = v + held, g + written = v
               PROVE  fed2 = given2 \o t.buf
    OBVIOUS
  <2>1. pos = n /\ f = dv + dh
    <3> HIDE DEF n, f, g, dv, dh, v, pos, held, written
    <3> QED BY <1>16
  <2>2. fed \o Bytes(data, 0, pos) = (given \o t.out) \o t.buf
    BY <1>1, <2>1 DEF TurnInv, TurnDelivers
  <2>3. Bytes(data, 0, pos) = data
    BY <2>1, BytesAll
  <2>4. QED
    BY <2>2, <2>3
<1>9. room >= dh + n /\ f = dv + dh /\ g = dv
        => f + n = v + held /\ g + written = v
  <2> HIDE DEF n, f, g, dv, dh, v, pos, held, written
  <2>1. pos = n => pos >= n
    BY <1>2
  <2>2. QED
    BY <1>3, <1>16, <2>1
<1>10. v + held <= f + n /\ g + written <= v
  <2> HIDE DEF n, f, g, dv, dh, v, pos, held, written
  <2> QED BY <1>3, <1>16
<1>11. Aligned(d.total, v, held)
  BY <1>1 DEF TurnInv, TurnCounts
<1>12. Len(d2.buf) = held
  BY <1>7
<1> HIDE DEF fed2, given2, n, f, g, dv, v, dh, held, written
<1>13. Open(S, d2, fed2, given2, safe)
  <2>1. d2.total \in Nat /\ d2.verified \in Nat /\ d2.buf \in Seq(S)
    BY <1>2, <1>7 DEF Open
  <2>2. Aligned(d2.total, d2.verified, Len(d2.buf))
    BY <1>7, <1>11, <1>12
  <2>3. d2.verified + Len(d2.buf) <= Len(fed2) /\ Len(given2) <= d2.verified
    BY <1>5, <1>6, <1>7, <1>10, <1>12
  <2>4. safe /\ Lossless(d2, fed2, given2) => fed2 = given2 \o d2.buf
    BY <1>5, <1>6, <1>7, <1>8, <1>12 DEF Lossless
  <2>5. QED
    BY <1>7, <2>1, <2>2, <2>3, <2>4 DEF Open
<1>14. room >= dh + n /\ f = dv + dh /\ g = dv
         => Len(fed2) = d2.verified + Len(d2.buf) /\ Len(given2) = d2.verified
  BY <1>5, <1>6, <1>7, <1>9, <1>12
<1>15. QED
  <2>1. fed \o data \in Seq(S) /\ given \o t.out \in Seq(S)
    BY <1>5, <1>6 DEF fed2, given2
  <2>2. Open(S, d2, fed \o data, given \o t.out, safe)
    BY <1>13 DEF fed2, given2
  <2>3. room >= Len(d.buf) + Len(data) /\ Lossless(d, fed, given)
          => Lossless(d2, fed \o data, given \o t.out)
    BY <1>14 DEF fed2, given2, n, f, g, dv, dh, Lossless
  <2>4. QED
    BY <1>7, <2>1, <2>2, <2>3 DEF StaysOpen

(* What DecoderDelivers says of a decoder, its input and its output.       *)
Delivery(d, fed, given, roomy) ==
  /\ roomy =>
       /\ IsPrefix(given, fed)
       /\ Len(fed) - Len(given) =
            IF d.total > 0 /\ Len(fed) >= d.total THEN 0 ELSE Len(fed) % ChunkLen
       /\ d.total > 0 /\ d.result # "open" =>
            (d.result = "OK" <=> given = fed /\ Len(given) = d.total)
  /\ d.total > 0 /\ d.result = "OK" /\ Len(fed) = d.total =>
       (Len(given) = d.total => given = fed)

LEMMA PrefixOfJoin ==
  ASSUME NEW S, NEW x \in Seq(S), NEW y \in Seq(S)
  PROVE  /\ IsPrefix(x, x \o y)
         /\ Len(x \o y) = Len(x) + Len(y)
<1> DEFINE z == x \o y
<1>1. /\ z \in Seq(S) /\ Len(z) = Len(x) + Len(y)
      /\ \A i \in 1..(Len(x) + Len(y)) :
           z[i] = IF i <= Len(x) THEN x[i] ELSE y[i - Len(x)]
  BY ConcatProperties
<1>2. Len(x) \in Nat /\ Len(y) \in Nat
  BY LenProperties
<1> HIDE DEF z
<1>3. SubSeq(z, 1, Len(x)) = SubSeq(x, 1, Len(x))
  <2> DEFINE c == 0
             n == Len(x)
  <2>1. 1 = c + 1 /\ n = c + n /\ c \in Int /\ n \in Int /\ 1 \in Int
        /\ \A i \in 1..n : c + i = i
    BY <1>2
  <2>2. \A i \in 1..n : x[i] \in S /\ z[c + i] = x[i]
    BY <1>1, <1>2, ElementOfSeq
  <2> HIDE DEF c, n
  <2>3. SubSeq(z, 1, n) = SubSeq(x, 1, n)
    BY <2>1, <2>2, SubSeqSame
  <2>4. QED
    BY <2>3 DEF n
<1>4. Len(x) <= Len(z)
  BY <1>1, <1>2
<1>5. QED
  BY <1>1, <1>3, <1>4 DEF IsPrefix, z

LEMMA OpenDelivers ==
  ASSUME NEW S, NEW d, NEW fed \in Seq(S), NEW given \in Seq(S),
         Open(S, d, fed, given, TRUE), d.result = "open", NEW roomy,
         roomy => Lossless(d, fed, given)
  PROVE  Delivery(d, fed, given, roomy)
<1>1. ASSUME roomy
      PROVE  /\ IsPrefix(given, fed)
             /\ Len(fed) - Len(given) =
                  IF d.total > 0 /\ Len(fed) >= d.total THEN 0
                  ELSE Len(fed) % ChunkLen
  <2> DEFINE held == Len(d.buf)
             v == d.verified
             n == Len(fed)
             g == Len(given)
  <2>1. n = v + held /\ g = v /\ fed = given \o d.buf
    BY <1>1 DEF Open, Lossless
  <2>2. held \in Nat /\ v \in Nat /\ d.total \in Nat /\ d.buf \in Seq(S)
    BY LenProperties DEF Open
  <2>3. Aligned(d.total, v, held)
    BY DEF Open
  <2>4. IsPrefix(given, fed)
    BY <2>1, <2>2, PrefixOfJoin
  <2> HIDE DEF held, v, n, g
  <2>5. held = IF Reached(d.total, v + held) THEN 0 ELSE (v + held) % ChunkLen
    BY <2>2, <2>3, AlignedHolds
  <2>6. n - g = held
    BY <2>1, <2>2
  <2>7. held = IF d.total > 0 /\ n >= d.total THEN 0 ELSE n % ChunkLen
    BY <2>1, <2>5 DEF Reached
  <2>8. QED
    BY <2>4, <2>6, <2>7 DEF n, g
<1>2. QED
  BY <1>1 DEF Delivery

(* decoder_finalize counts what is held as verified, and judges the length. *)
Finalized(d) ==
  [d EXCEPT !.verified = d.verified + Len(d.buf), !.buf = <<>>,
     !.result = IF d.total > 0 /\ d.verified + Len(d.buf) # d.total
                THEN "VERIFY" ELSE "OK"]

Closed(d2, fed, given, roomy) ==
  /\ d2.result \in {"OK", "VERIFY"} /\ d2.buf = <<>>
  /\ Delivery(d2, fed, given, roomy)

LEMMA FinalDelivers ==
  ASSUME NEW S, NEW d, NEW fed \in Seq(S), NEW given \in Seq(S),
         Open(S, d, fed, given, TRUE), d.result = "open", NEW roomy,
         roomy => Lossless(d, fed, given),
         NEW d2, d2 = Finalized(d)
  PROVE  Closed(d2, fed, given, roomy)
<1> DEFINE held == Len(d.buf)
           v == d.verified
           all == v + held
           n == Len(fed)
           g == Len(given)
<1>1. /\ d2.total = d.total /\ d2.buf = <<>>
      /\ d2.result = IF d.total > 0 /\ all # d.total THEN "VERIFY" ELSE "OK"
  BY DEF Open, IsDecoder, Finalized
<1>2. /\ held \in Nat /\ v \in Nat /\ d.total \in Nat /\ d.buf \in Seq(S)
      /\ n \in Nat /\ g \in Nat
  BY LenProperties DEF Open
<1>3. Aligned(d.total, v, held) /\ all <= n /\ g <= v
  BY DEF Open
<1>4. Lossless(d, fed, given) /\ held = 0 => given = fed
  <2>1. held = 0 => d.buf = <<>>
    BY <1>2, EmptySeq
  <2>2. given \o <<>> = given
    BY ConcatEmptySeq
  <2>3. QED
    BY <2>1, <2>2 DEF Open
<1>5. d.total > 0 /\ all = d.total => held = 0
  <2> HIDE DEF held, v
  <2> QED BY <1>2, <1>3 DEF Aligned, Reached
<1>6. Lossless(d, fed, given) <=> n = all /\ g = v
  BY DEF Lossless
<1>7. Delivery(d, fed, given, roomy)
  BY OpenDelivers
<1> HIDE DEF held, v, n, g
<1>8. ASSUME roomy, d.total > 0 PROVE all = d.total <=> given = fed /\ g = d.total
  <2>1. n = all /\ g = v
    BY <1>6, <1>8
  <2>2. ASSUME all = d.total PROVE given = fed /\ g = d.total
    <3>1. held = 0
      BY <1>5, <1>8, <2>2
    <3>2. v = d.total
      BY <1>2, <2>2, <3>1
    <3>3. QED
      BY <1>4, <1>8, <2>1, <3>1, <3>2
  <2>3. ASSUME given = fed, g = d.total PROVE all = d.total
    <3>1. n = g
      BY <2>3 DEF n, g
    <3>2. QED
      BY <2>1, <2>3, <3>1
  <2>4. QED
    BY <2>2, <2>3
<1>9. ASSUME d.total > 0, all = d.total, n = d.total, g = d.total
      PROVE  given = fed
  <2>1. held = 0
    BY <1>5, <1>9
  <2>2. g = v
    BY <1>2, <1>9, <2>1
  <2>3. QED
    BY <1>4, <1>6, <1>9, <2>1, <2>2
<1> HIDE DEF all
<1>10. ASSUME roomy
       PROVE  /\ IsPrefix(given, fed)
              /\ Len(fed) - Len(given) =
                   IF d2.total > 0 /\ Len(fed) >= d2.total THEN 0
                   ELSE Len(fed) % ChunkLen
  BY <1>1, <1>7, <1>10 DEF Delivery
<1>11. d2.total > 0 => (d2.result = "OK" <=> all = d2.total)
  BY <1>1
<1>12. Delivery(d2, fed, given, roomy)
  BY <1>1, <1>8, <1>9, <1>10, <1>11 DEF Delivery, n, g
<1>13. QED
  BY <1>1, <1>12 DEF Closed

-----------------------------------------------------------------------------
(* The inductive invariant.                                                *)
IsEncoder(e) ==
  /\ DOMAIN e = {"edition", "fed", "data", "cap"}
  /\ e.edition \in Editions
  /\ e.fed \in 0..MaxLen /\ e.cap \in Nat
  /\ e.data \in Seq(StreamBytes)
  /\ Len(e.data) <= e.cap /\ Len(e.data) <= e.fed

EncoderInv == enc # NoEncoder => IsEncoder(enc)

TreeInv == tree.format \in {"tree", "short"} /\ tree.len \in Nat

(* A proof is of the data it was extracted from.                           *)
IsProofOf(p, data) ==
  /\ p.format = "proof"
  /\ p.len = Len(data)
  /\ p.start \in Nat /\ p.end \in Nat /\ p.start < p.end /\ p.end <= Len(data)
  /\ p.chunk = p.start \div ChunkLen
  /\ p.siblings = MerklePath(data, p.chunk)
  /\ p.depth = Len(p.siblings)

ProofInv ==
  proof # NoProof => origin \in Seq(StreamBytes) /\ IsProofOf(proof, origin)

DecoderInv ==
  dec # NoDecoder =>
    /\ din \in Seq(StreamBytes) /\ dout \in Seq(StreamBytes)
    /\ dec.result \in {"open", "OK", "VERIFY"}
    /\ dec.result = "open" =>
         /\ Open(StreamBytes, dec, din, dout, apart)
         /\ ample => Lossless(dec, din, dout)
    /\ dec.result # "open" =>
         dec.buf = <<>> /\ (apart => Delivery(dec, din, dout, ample))

StreamInv == EncoderInv /\ TreeInv /\ ProofInv /\ DecoderInv

LEMMA InvTypeOK == StreamInv => TypeOK
<1> SUFFICES ASSUME StreamInv PROVE TypeOK
  OBVIOUS
<1>1. enc # NoEncoder => /\ Len(enc.data) <= enc.cap
                         /\ Len(enc.data) <= enc.fed /\ enc.fed <= MaxLen
  BY CallerAssumption DEF StreamInv, EncoderInv, IsEncoder
<1>2. proof # NoProof => Len(proof.siblings) = proof.depth
  BY DEF StreamInv, ProofInv, IsProofOf
<1>3. dec # NoDecoder => Len(dec.buf) < ChunkLen
  <2>1. Len(<<>>) < ChunkLen
    BY EmptySeq, StreamAssumption
  <2>2. QED
    BY <2>1 DEF StreamInv, DecoderInv, Open, Aligned
<1>4. dec # NoDecoder => dec.result \in {"open", "OK", "VERIFY"}
  BY DEF StreamInv, DecoderInv
<1>5. QED
  BY <1>1, <1>2, <1>3, <1>4 DEF TypeOK, StreamInv, TreeInv

LEMMA InvDelivers == StreamInv => DecoderDelivers
<1> SUFFICES ASSUME StreamInv, dec # NoDecoder, apart
             PROVE  Delivery(dec, din, dout, ample)
  BY DEF DecoderDelivers, Delivery
<1>1. CASE dec.result = "open"
  <2>1. Open(StreamBytes, dec, din, dout, TRUE)
    BY <1>1 DEF StreamInv, DecoderInv, Open
  <2>2. QED
    BY <1>1, <2>1, OpenDelivers DEF StreamInv, DecoderInv
<1>2. CASE dec.result # "open"
  BY <1>2 DEF StreamInv, DecoderInv
<1>3. QED
  BY <1>1, <1>2

-----------------------------------------------------------------------------
(* The buffer of the encoder grows to what is needed.                      *)
LEMMA GrownCovers ==
  ASSUME NEW cap \in Nat, NEW need \in Nat
  PROVE  Grown(cap, need) \in Nat /\ need <= Grown(cap, need)
<1> DEFINE base == IF cap = 0 THEN InitialCap ELSE cap * 2
           S == {c \in {base * Pow2[k] : k \in 0..need} : c >= need}
           w == Pow2[need]
<1>1. base \in Nat /\ 1 <= base
  BY CallerAssumption
<1>2. \A k \in 0..need : Pow2[k] \in Nat
  BY Pow2Facts
<1>3. w \in Nat \ {0} /\ need < w
  BY Pow2Facts
<1> HIDE DEF base
<1>4. S \in SUBSET Nat
  BY <1>1, <1>2
<1>5. base * w \in Nat /\ need <= base * w
  <2> HIDE DEF w
  <2>1. 1 * w <= base * w /\ base * w \in Nat /\ 1 * w = w
    BY <1>1, <1>3, Multiples
  <2>2. QED
    BY <1>3, <2>1
<1>6. base * w \in S
  BY <1>5
<1> HIDE DEF S
<1>7. Min(S) \in S
  BY <1>4, <1>6, MinOfNats
<1>8. Min(S) \in Nat /\ need <= Min(S)
  BY <1>4, <1>7 DEF S
<1>9. QED
  BY <1>8 DEF Grown, S, base

LEMMA FilesAre ==
  \A f \in Files : f \in Seq(StreamBytes)
<1> SUFFICES ASSUME NEW e \in Editions, NEW l \in Lengths
             PROVE  Edition(e, l) \in Seq(StreamBytes)
  BY DEF Files
<1>1. l \in Nat
  BY CallerAssumption DEF Lengths
<1>2. QED
  BY <1>1, PartIs DEF Edition

LEMMA InvInit == Init => StreamInv
<1> SUFFICES ASSUME Init PROVE StreamInv
  OBVIOUS
<1>1. EncoderInv /\ ProofInv /\ DecoderInv
  BY DEF Init, DecoderInit, EncoderInv, ProofInv, DecoderInv
<1>2. TreeInv
  BY DEF Init, TreeInv, NoTree
<1>3. QED
  BY <1>1, <1>2 DEF StreamInv

LEMMA PieceIsAdded ==
  ASSUME NEW e, IsEncoder(e), NEW n \in Nat
  PROVE  /\ e.data \o Part(e.edition, e.fed, e.fed + n) \in Seq(StreamBytes)
         /\ Len(e.data \o Part(e.edition, e.fed, e.fed + n)) = Len(e.data) + n
<1> DEFINE piece == Part(e.edition, e.fed, e.fed + n)
<1>1. e.edition \in Editions /\ e.fed \in Nat /\ e.data \in Seq(StreamBytes)
  BY CallerAssumption DEF IsEncoder
<1>2. piece \in Seq(StreamBytes) /\ Len(piece) = n
  <2>1. e.fed + n \in Nat /\ e.fed <= e.fed + n /\ (e.fed + n) - e.fed = n
    BY <1>1
  <2>2. QED
    BY <1>1, <2>1, PartIs
<1> HIDE DEF piece
<1>3. e.data \o piece \in Seq(StreamBytes)
      /\ Len(e.data \o piece) = Len(e.data) + n
  BY <1>1, <1>2, ConcatProperties
<1>4. QED
  BY <1>3 DEF piece

(* What encoder_update does to an encoder, whether its buffer can grow.    *)
LEMMA UpdateKeepsEncoder ==
  ASSUME NEW e, IsEncoder(e), NEW n \in Nat, e.fed + n <= MaxLen,
         NEW need, need = Len(e.data) + n,
         NEW e2, \/ e2 = [e EXCEPT !.data = @ \o Part(e.edition, e.fed, e.fed + n),
                            !.cap = IF need > e.cap THEN Grown(@, need) ELSE @,
                            !.fed = @ + n]
                 \/ e2 = [e EXCEPT !.fed = @ + n]
  PROVE  IsEncoder(e2)
<1> DEFINE piece == Part(e.edition, e.fed, e.fed + n)
           data == e.data \o piece
<1>1. /\ DOMAIN e = {"edition", "fed", "data", "cap"}
      /\ e.edition \in Editions /\ e.fed \in Nat /\ e.cap \in Nat
      /\ e.data \in Seq(StreamBytes) /\ Len(e.data) \in Nat
      /\ Len(e.data) <= e.cap /\ Len(e.data) <= e.fed
  BY LenProperties, CallerAssumption DEF IsEncoder
<1>2. e.fed + n \in 0..MaxLen
  BY <1>1, CallerAssumption
<1>3. data \in Seq(StreamBytes) /\ Len(data) = need
  BY PieceIsAdded
<1>4. CASE e2 = [e EXCEPT !.fed = @ + n]
  <2>1. DOMAIN e2 = {"edition", "fed", "data", "cap"} /\ e2.edition = e.edition
        /\ e2.data = e.data /\ e2.cap = e.cap /\ e2.fed = e.fed + n
    BY <1>1, <1>4
  <2>2. Len(e2.data) <= e2.fed
    BY <1>1, <2>1
  <2>3. QED
    BY <1>1, <1>2, <2>1, <2>2 DEF IsEncoder
<1>5. CASE e2 = [e EXCEPT !.data = @ \o Part(e.edition, e.fed, e.fed + n),
                   !.cap = IF need > e.cap THEN Grown(@, need) ELSE @,
                   !.fed = @ + n]
  <2>1. DOMAIN e2 = {"edition", "fed", "data", "cap"} /\ e2.edition = e.edition
        /\ e2.data = data /\ e2.fed = e.fed + n
        /\ e2.cap = IF need > e.cap THEN Grown(e.cap, need) ELSE e.cap
    BY <1>1, <1>5
  <2> HIDE DEF data
  <2>2. e2.cap \in Nat /\ need <= e2.cap
    <3>1. need \in Nat
      BY <1>1
    <3>2. QED
      BY <1>1, <2>1, <3>1, GrownCovers
  <2>3. Len(e2.data) <= e2.fed
    BY <1>1, <1>3, <2>1
  <2>4. QED
    BY <1>1, <1>2, <1>3, <2>1, <2>2, <2>3 DEF IsEncoder
<1>6. QED
  BY <1>4, <1>5

-----------------------------------------------------------------------------
(* Every step keeps the invariant.                                         *)
LEMMA ExtractedIsProof ==
  ASSUME NEW t, NEW data \in Files, NEW start \in Nat, NEW end \in Nat, NEW room,
         ExtractStatus(t, data, start, end, room) = "OK"
  PROVE  IsProofOf(ExtractedProof(t, data, start, end), data)
<1>1. Len(data) \in Nat
  BY FilesAre, LenProperties
<1>2. ~(start >= end \/ end > Len(data))
  BY DEF ExtractStatus
<1>3. start < end /\ end <= Len(data)
  <2> DEFINE n == Len(data)
  <2> HIDE DEF n
  <2>1. n \in Nat /\ ~(start >= end \/ end > n)
    BY <1>1, <1>2 DEF n
  <2>2. start < end /\ end <= n
    BY <2>1
  <2>3. QED
    BY <2>2 DEF n
<1>4. QED
  BY <1>3 DEF IsProofOf, ExtractedProof

LEMMA NewDecoderIsOpen ==
  ASSUME NEW d, NEW total \in Nat, NEW expected,
         d = [expected |-> expected, total |-> total,
              verified |-> 0, buf |-> <<>>, result |-> "open"]
  PROVE  /\ Open(StreamBytes, d, <<>>, <<>>, TRUE)
         /\ Lossless(d, <<>>, <<>>)
<1>1. IsDecoder(d) /\ d.total = total /\ d.verified = 0 /\ d.buf = <<>>
  BY DEF IsDecoder
<1>2. <<>> \in Seq(StreamBytes) /\ Len(<<>>) = 0 /\ <<>> \o <<>> = <<>>
  BY EmptySeq, ConcatEmptySeq
<1>3. Aligned(total, 0, 0)
  <2>1. ChunkLen \in Nat /\ 0 < ChunkLen /\ 0 = 0 * ChunkLen
    BY StreamAssumption
  <2>2. QED
    BY <2>1 DEF Aligned
<1>4. Lossless(d, <<>>, <<>>)
  BY <1>1, <1>2 DEF Lossless
<1>5. QED
  BY <1>1, <1>2, <1>3, <1>4 DEF Open

LEMMA InvNext ==
  ASSUME StreamInv, [Next]_vars
  PROVE  StreamInv'
<1> USE DEF StreamInv
<1>1. ASSUME NEW e \in Editions, NewEncoder(e) PROVE StreamInv'
  <2>1. /\ enc' = [edition |-> e, fed |-> 0, data |-> <<>>, cap |-> 0]
        /\ UNCHANGED <<tree, proof, origin, dec, din, dout, ample, apart>>
    BY <1>1 DEF NewEncoder, proofVars, decoderVars
  <2>2. <<>> \in Seq(StreamBytes) /\ Len(<<>>) = 0 /\ 0 \in 0..MaxLen
    BY EmptySeq, CallerAssumption
  <2>3. IsEncoder(enc')
    BY <2>1, <2>2 DEF IsEncoder
  <2>4. QED
    BY <2>1, <2>3 DEF EncoderInv, TreeInv, ProofInv, DecoderInv
<1>2. ASSUME NEW n \in Pieces, EncoderUpdate(n) PROVE StreamInv'
  <2> DEFINE need == Len(enc.data) + n
  <2>1. /\ enc # NoEncoder /\ enc.fed + n <= MaxLen
        /\ \/ enc' = [enc EXCEPT
                        !.data = @ \o Part(enc.edition, enc.fed, enc.fed + n),
                        !.cap = IF need > enc.cap THEN Grown(@, need) ELSE @,
                        !.fed = @ + n]
           \/ enc' = [enc EXCEPT !.fed = @ + n]
        /\ UNCHANGED <<tree, proof, origin, dec, din, dout, ample, apart>>
    BY <1>2 DEF EncoderUpdate, proofVars, decoderVars
  <2>2. n \in Nat /\ IsEncoder(enc)
    BY <2>1, CallerAssumption DEF EncoderInv
  <2>3. IsEncoder(enc')
    <3> HIDE DEF StreamInv
    <3> QED BY <2>1, <2>2, UpdateKeepsEncoder
  <2>4. QED
    BY <2>1, <2>3 DEF EncoderInv, TreeInv, ProofInv, DecoderInv
<1>3. ASSUME NEW data, Len(data) \in Nat, FinalizeData(data) PROVE TreeInv'
  BY <1>3 DEF FinalizeData, Built, OutOfMemory, TreeFile, TreeInv
<1>4. ASSUME EncoderFinalize PROVE StreamInv'
  <2>1. /\ FinalizeData(enc.data) /\ enc # NoEncoder
        /\ UNCHANGED <<enc, proof, origin, dec, din, dout, ample, apart>>
    BY <1>4 DEF EncoderFinalize, proofVars, decoderVars
  <2>2. Len(enc.data) \in Nat
    BY <2>1, LenProperties DEF EncoderInv, IsEncoder
  <2>3. TreeInv'
    BY <1>3, <2>1, <2>2
  <2>4. QED
    BY <2>1, <2>3 DEF EncoderInv, ProofInv, DecoderInv
<1>5. ASSUME NEW data \in Files, Encode(data) PROVE StreamInv'
  <2>1. PICK kept \in {data, <<>>} : FinalizeData(kept)
    BY <1>5 DEF Encode
  <2>2. Len(kept) \in Nat
    BY FilesAre, EmptySeq, LenProperties
  <2>3. TreeInv'
    BY <1>3, <2>1, <2>2
  <2>4. UNCHANGED <<enc, proof, origin, dec, din, dout, ample, apart>>
    BY <1>5 DEF Encode, proofVars, decoderVars
  <2>5. QED
    BY <2>3, <2>4 DEF EncoderInv, ProofInv, DecoderInv
<1>6. ASSUME EncoderRootHash \/ (\E d \in Files : StreamHash(d)) \/ UNCHANGED vars
      PROVE  StreamInv'
  <2>1. UNCHANGED <<enc, tree, proof, origin, dec, din, dout, ample, apart>>
    BY <1>6 DEF EncoderRootHash, StreamHash, vars, proofVars, decoderVars
  <2>2. QED
    BY <2>1 DEF EncoderInv, TreeInv, ProofInv, DecoderInv
<1>7. ASSUME EncoderFree PROVE StreamInv'
  <2>1. /\ enc' = NoEncoder
        /\ UNCHANGED <<tree, proof, origin, dec, din, dout, ample, apart>>
    BY <1>7 DEF EncoderFree, proofVars, decoderVars
  <2>2. QED
    BY <2>1 DEF EncoderInv, TreeInv, ProofInv, DecoderInv
<1>8. ASSUME NEW data \in Files, NEW r \in Ranges, NEW room \in Rooms,
             ExtractSlice(data, r[1], r[2], room)
      PROVE  StreamInv'
  <2>1. /\ ExtractStatus(tree, data, r[1], r[2], room) = "OK"
        /\ proof' = ExtractedProof(tree, data, r[1], r[2]) /\ origin' = data
        /\ UNCHANGED <<enc, tree, dec, din, dout, ample, apart>>
    BY <1>8 DEF ExtractSlice, encoderVars, decoderVars
  <2>2. r[1] \in Nat /\ r[2] \in Nat
    BY CallerAssumption
  <2>3. IsProofOf(ExtractedProof(tree, data, r[1], r[2]), data)
    BY <2>1, <2>2, ExtractedIsProof
  <2>4. data \in Seq(StreamBytes)
    BY FilesAre
  <2>5. QED
    BY <2>1, <2>3, <2>4 DEF EncoderInv, TreeInv, ProofInv, DecoderInv
<1>9. ASSUME DiscardProof PROVE StreamInv'
  <2>1. proof' = NoProof /\ UNCHANGED <<enc, tree, dec, din, dout, ample, apart>>
    BY <1>9 DEF DiscardProof, encoderVars, decoderVars
  <2>2. QED
    BY <2>1 DEF EncoderInv, TreeInv, ProofInv, DecoderInv
<1>10. ASSUME NEW t \in {tree, NoTree}, NewDecoder(t) PROVE StreamInv'
  <2> DEFINE total == IF t.format = "short" THEN 0 ELSE t.len
  <2>1. /\ dec' = [expected |-> root, total |-> total,
                   verified |-> 0, buf |-> <<>>, result |-> "open"]
        /\ din' = <<>> /\ dout' = <<>> /\ apart' = TRUE
        /\ UNCHANGED <<enc, tree, proof, origin>>
    BY <1>10 DEF NewDecoder, DecoderNew, encoderVars, proofVars
  <2>2. total \in Nat
    BY DEF TreeInv, NoTree
  <2> HIDE DEF total
  <2>3. Open(StreamBytes, dec', <<>>, <<>>, TRUE) /\ Lossless(dec', <<>>, <<>>)
    <3> HIDE DEF StreamInv
    <3> QED BY <2>1, <2>2, NewDecoderIsOpen
  <2>4. <<>> \in Seq(StreamBytes) /\ dec'.result = "open"
    BY <2>1, EmptySeq
  <2>5. DecoderInv'
    BY <2>1, <2>3, <2>4 DEF DecoderInv
  <2>6. QED
    BY <2>1, <2>5 DEF EncoderInv, TreeInv, ProofInv
<1>11. ASSUME NEW e \in Editions, NEW n \in FedPieces, NEW room \in OutRooms,
              NEW in_place \in BOOLEAN, Feed(e, n, room, in_place)
       PROVE  StreamInv'
  <2> DEFINE data == Part(e, Len(din), Len(din) + n)
             t == UpdateLoop(dec, data, room, in_place)
             held == Len(dec.buf)
  <2>1. /\ dec # NoDecoder /\ dec.result = "open"
        /\ dec' = Updated(dec, t)
        /\ dout' = dout \o t.out
        /\ ample' = (ample /\ room >= held + Len(data))
        /\ apart' = (apart /\ (in_place => dec.buf = <<>>))
        /\ din' = din \o data
        /\ UNCHANGED <<enc, tree, proof, origin>>
    BY <1>11 DEF Feed, DecoderUpdate, Updated, encoderVars, proofVars
  <2>2. /\ din \in Seq(StreamBytes) /\ dout \in Seq(StreamBytes)
        /\ Open(StreamBytes, dec, din, dout, apart)
        /\ ample => Lossless(dec, din, dout)
    BY <2>1 DEF DecoderInv
  <2>8. Open(StreamBytes, dec, din, dout, apart')
    BY <2>1, <2>2 DEF Open
  <2>3. data \in Seq(StreamBytes)
    <3>1. n \in Nat /\ Len(din) \in Nat
      BY <2>2, CallerAssumption, LenProperties
    <3>2. Len(din) + n \in Nat /\ Len(din) <= Len(din) + n
      BY <3>1
    <3>3. QED
      BY <3>1, <3>2, PartIs
  <2>4. room \in Nat
    BY CallerAssumption
  <2> HIDE DEF data, t
  <2>5. StaysOpen(StreamBytes, dec, data, room, apart', din, dout, t, dec')
    <3> HIDE DEF StreamInv
    <3>1. /\ t = UpdateLoop(dec, data, room, in_place) /\ dec' = Updated(dec, t)
          /\ apart' => (in_place => dec.buf = <<>>)
      BY <2>1 DEF t
    <3>2. QED
      BY <2>2, <2>3, <2>4, <2>8, <3>1, UpdateKeepsOpen
  <2>6. DecoderInv'
    BY <2>1, <2>2, <2>5 DEF DecoderInv, StaysOpen
  <2>7. QED
    BY <2>1, <2>6 DEF EncoderInv, TreeInv, ProofInv
<1>12. ASSUME FinalizeDecoder PROVE StreamInv'
  <2>1. /\ dec # NoDecoder /\ dec.result = "open"
        /\ dec' = Finalized(dec)
        /\ UNCHANGED <<enc, tree, proof, origin, din, dout, ample, apart>>
    BY <1>12 DEF FinalizeDecoder, DecoderFinalize, Finalized, encoderVars,
                 proofVars
  <2>2. /\ din \in Seq(StreamBytes) /\ dout \in Seq(StreamBytes)
        /\ Open(StreamBytes, dec, din, dout, apart)
        /\ ample => Lossless(dec, din, dout)
    BY <2>1 DEF DecoderInv
  <2>3. dec'.result \in {"OK", "VERIFY"} /\ dec'.buf = <<>>
    BY <2>1, <2>2 DEF Finalized, Open, IsDecoder
  <2>6. ASSUME apart PROVE Closed(dec', din, dout, ample)
    <3>1. Open(StreamBytes, dec, din, dout, TRUE)
      BY <2>2, <2>6 DEF Open
    <3> HIDE DEF StreamInv
    <3>2. QED
      BY <2>1, <2>2, <3>1, FinalDelivers
  <2>4. DecoderInv'
    BY <2>1, <2>2, <2>3, <2>6 DEF DecoderInv, Closed
  <2>5. QED
    BY <2>1, <2>4 DEF EncoderInv, TreeInv, ProofInv
<1>13. ASSUME FreeDecoder PROVE StreamInv'
  <2>1. dec' = NoDecoder /\ UNCHANGED <<enc, tree, proof, origin>>
    BY <1>13 DEF FreeDecoder, DecoderFree, encoderVars, proofVars
  <2>2. QED
    BY <2>1 DEF EncoderInv, TreeInv, ProofInv, DecoderInv
<1> HIDE DEF StreamInv
<1>14. QED
  BY <1>1, <1>2, <1>4, <1>5, <1>6, <1>7, <1>8, <1>9, <1>10, <1>11, <1>12,
     <1>13 DEF Next

(* The invariant, and with it the buffers' bounds and what a decoder       *)
(* delivers, hold in every state a caller can reach.                       *)
THEOREM StreamInvariant == Spec => []StreamInv
<1>1. Init => StreamInv
  BY InvInit
<1>2. StreamInv /\ [Next]_vars => StreamInv'
  BY InvNext
<1>3. QED
  BY <1>1, <1>2, PTL DEF Spec

(* The encoder's buffer always holds its data, however the capacity grew   *)
(* and whatever growing failed, and a decoder never holds a whole chunk    *)
(* between calls (encoder_update and decoder_update, blake4_stream.c:      *)
(* 224-242, 367-405).                                                      *)
THEOREM StreamTypes == Spec => []TypeOK
BY StreamInvariant, InvTypeOK, PTL

(* A decoder whose buffers were large enough delivers a prefix of what it  *)
(* was fed and knows at the end whether it was all; one whose buffers were *)
(* not leaves a trace in the sum of what its updates returned.  Its input  *)
(* and its output may be one buffer in every update that begins with no    *)
(* partial chunk held (decoder_update and decoder_finalize,                *)
(* blake4_stream.c:366-422).                                               *)
THEOREM DecoderKeepsPromise == Spec => []DecoderDelivers
BY StreamInvariant, InvDelivers, PTL

-----------------------------------------------------------------------------
(* The levels of the tree.  A number can be halved as often as a level can *)
(* be merged until one node is left.                                       *)
HalvingStep(p, g, n) == IF n = 0 THEN 0 ELSE 1 + g[n \div 2]
Halving == INSTANCE Recursion WITH Step <- HalvingStep

LEMMA HalvingsEquation ==
  \A n \in Nat : Halvings[n] = IF n = 0 THEN 0 ELSE 1 + Halvings[n \div 2]
<1>1. Halving!LooksBelow(0, Nat)
  <2> SUFFICES ASSUME NEW n \in Nat, NEW g, NEW h,
                      \A i \in Nat : i < n => g[i] = h[i]
               PROVE  HalvingStep(0, g, n) = HalvingStep(0, h, n)
    BY DEF Halving!LooksBelow
  <2>1. n # 0 => n \div 2 \in Nat /\ n \div 2 < n
    BY HalfFacts
  <2>2. QED
    BY <2>1 DEF HalvingStep
<1>2. Halving!IsStrongRecursion(Halvings, 0, Nat)
  BY DEF Halving!IsStrongRecursion, Halvings, HalvingStep
<1>3. Halvings = [n \in Nat |-> HalvingStep(0, Halvings, n)]
  BY <1>1, <1>2, Halving!StrongRecursion
<1>4. \A n \in Nat : Halvings[n] = HalvingStep(0, Halvings, n)
  BY <1>3
<1>5. QED
  BY <1>4 DEF HalvingStep

LEMMA HalvingsBounded ==
  \A n \in Nat : Halvings[n] \in 0..n
<1> DEFINE T == {n \in Nat : Halvings[n] \in 0..n}
<1>1. ASSUME NEW n \in Nat, (0..(n - 1)) \subseteq T PROVE n \in T
  <2>1. CASE n = 0
    BY <2>1, HalvingsEquation
  <2>2. CASE n # 0
    <3>1. n \div 2 \in Nat /\ n \div 2 < n
      BY <2>2, HalfFacts
    <3>2. Halvings[n \div 2] \in 0..(n \div 2)
      BY <1>1, <3>1
    <3>3. Halvings[n] = 1 + Halvings[n \div 2]
      BY <2>2, HalvingsEquation
    <3>4. QED
      BY <3>1, <3>2, <3>3
  <2>3. QED
    BY <2>1, <2>2
<1>2. Nat \subseteq T
  <2> HIDE DEF T
  <2> QED BY <1>1, StrongSetInduction
<1>3. QED
  BY <1>2

IsSeq(s) == \E S : s \in Seq(S)

(* What a level and the one above it have to do with each other.           *)
Above(next, level) ==
  /\ IsSeq(next)
  /\ Len(next) = (Len(level) + 1) \div 2
  /\ \A i \in 1..(Len(level) \div 2) :
       /\ Parents(level)[i] = HashParent(level[2 * i - 1], level[2 * i])
       /\ next[i] = Parents(level)[i]
  /\ Len(level) % 2 = 1 => next[Len(next)] = level[Len(level)]

LEMMA ParentsAre ==
  ASSUME NEW level, Len(level) \in Nat
  PROVE  /\ IsSeq(Parents(level))
         /\ Len(Parents(level)) = Len(level) \div 2
         /\ \A i \in 1..(Len(level) \div 2) :
              Parents(level)[i] = HashParent(level[2 * i - 1], level[2 * i])
<1> DEFINE m == Len(level) \div 2
           f(i) == HashParent(level[2 * i - 1], level[2 * i])
           p == [i \in 1..m |-> f(i)]
<1>1. m \in Nat
  BY HalfFacts
<1> HIDE DEF m
<1>2. p \in [1..m -> {f(i) : i \in 1..m}]
  <2> HIDE DEF f
  <2> QED OBVIOUS
<1>3. p \in Seq({f(i) : i \in 1..m}) /\ Len(p) = m
  <2> DEFINE S == {f(i) : i \in 1..m}
  <2>1. p \in [1..m -> S]
    BY <1>2
  <2> HIDE DEF p, S
  <2>2. p \in Seq(S) /\ Len(p) = m
    BY <1>1, <2>1
  <2>3. QED
    BY <2>2 DEF S
<1>4. \A i \in 1..m : p[i] = f(i)
  <2> HIDE DEF f
  <2> QED OBVIOUS
<1>5. IsSeq(p)
  <2> HIDE DEF p, f
  <2> QED BY <1>3 DEF IsSeq
<1>6. Parents(level) = p
  BY DEF Parents, m
<1> HIDE DEF p
<1>7. QED
  BY <1>3, <1>4, <1>5, <1>6 DEF m

LEMMA NextLevelIsAbove ==
  ASSUME NEW level, IsSeq(level)
  PROVE  Above(NextLevel(level), level)
<1> DEFINE n == Len(level)
           p == Parents(level)
           q == Promoted(level)
           next == p \o q
           m == n \div 2
<1>1. n \in Nat
  BY LenProperties DEF IsSeq
<1>2. IsSeq(p) /\ Len(p) = m
      /\ \A i \in 1..m : p[i] = HashParent(level[2 * i - 1], level[2 * i])
  BY <1>1, ParentsAre
<1>3. m \in Nat /\ n % 2 \in 0..1 /\ n = 2 * m + (n % 2)
  BY <1>1, HalfFacts
<1>4. IsSeq(q) /\ Len(q) = n % 2 /\ (n % 2 = 1 => q[1] = level[n])
  <2>1. CASE n % 2 = 1
    <3>1. q = <<level[n]>>
      BY <2>1 DEF Promoted, Last
    <3>2. <<level[n]>> \in Seq({level[n]})
      OBVIOUS
    <3>3. Len(<<level[n]>>) = 1 /\ <<level[n]>>[1] = level[n]
      OBVIOUS
    <3>4. IsSeq(<<level[n]>>)
      BY <3>2 DEF IsSeq
    <3> HIDE DEF n, q
    <3>5. QED
      BY <2>1, <3>1, <3>3, <3>4
  <2>2. CASE n % 2 # 1
    <3>1. q = <<>>
      BY <2>2 DEF Promoted
    <3>2. n % 2 = 0
      <4> HIDE DEF m, n
      <4> QED BY <1>3, <2>2
    <3>3. <<>> \in Seq({}) /\ Len(<<>>) = 0
      BY EmptySeq
    <3> HIDE DEF n
    <3>4. QED
      BY <3>1, <3>2, <3>3 DEF IsSeq
  <2>3. QED
    BY <2>1, <2>2
<1> HIDE DEF p, q
<1>5. PICK S : p \in Seq(S)
  BY <1>2 DEF IsSeq
<1>6. PICK T : q \in Seq(T)
  BY <1>4 DEF IsSeq
<1>7. p \in Seq(S \cup T) /\ q \in Seq(S \cup T)
  BY <1>5, <1>6, SeqMonotonic
<1>8. /\ next \in Seq(S \cup T) /\ Len(next) = Len(p) + Len(q)
      /\ \A i \in 1..(Len(p) + Len(q)) :
           next[i] = IF i <= Len(p) THEN p[i] ELSE q[i - Len(p)]
  BY <1>7, ConcatProperties
<1> HIDE DEF next
<1>9. Len(next) = m + (n % 2)
  BY <1>2, <1>4, <1>8
<1>10. m + (n % 2) = (n + 1) \div 2
  <2> HIDE DEF m, n
  <2>1. CASE n % 2 = 0
    <3>1. n + 1 = m * 2 + 1
      BY <1>3, <2>1
    <3>2. (m * 2 + 1) \div 2 = m
      BY <1>3, DivisionIs
    <3>3. QED
      BY <1>3, <2>1, <3>1, <3>2
  <2>2. CASE n % 2 = 1
    <3>1. n + 1 = (m + 1) * 2 + 0 /\ m + 1 \in Nat
      BY <1>3, <2>2
    <3>2. ((m + 1) * 2 + 0) \div 2 = m + 1
      BY <3>1, DivisionIs
    <3>3. QED
      BY <1>3, <2>2, <3>1, <3>2
  <2>3. QED
    BY <1>3, <2>1, <2>2
<1>11. ASSUME NEW i \in 1..m PROVE next[i] = p[i]
  <2> HIDE DEF m
  <2> QED BY <1>2, <1>3, <1>4, <1>8
<1>12. ASSUME n % 2 = 1 PROVE next[Len(next)] = level[n]
  <2> HIDE DEF m, n
  <2>1. Len(next) = m + 1 /\ m + 1 \in 1..(Len(p) + Len(q))
        /\ ~(m + 1 <= Len(p)) /\ (m + 1) - Len(p) = 1
    BY <1>2, <1>3, <1>4, <1>9, <1>12
  <2>2. QED
    BY <1>4, <1>8, <1>12, <2>1
<1>13. IsSeq(next)
  BY <1>8 DEF IsSeq
<1>14. next = NextLevel(level)
  BY DEF NextLevel, next, p, q
<1> HIDE DEF m, n
<1>15. QED
  BY <1>2, <1>9, <1>10, <1>11, <1>12, <1>13, <1>14 DEF Above, m, n, p

(* The levels over base, from 0 to h.                                      *)
AreLevels(r, base, h) ==
  /\ r[0] = base
  /\ \A k \in 0..h : IsSeq(r[k])
  /\ \A k \in 1..h : Len(r[k - 1]) > 1 /\ Above(r[k], r[k - 1])
  /\ Len(r[h]) = 1

(* Merging halves what is left to merge.                                   *)
LEMMA MergedHalves ==
  ASSUME NEW n \in Nat, n > 0, NEW h \in Nat, h > 0, Halvings[n - 1] = h,
         NEW m, m = (n + 1) \div 2
  PROVE  n > 1 /\ m \in Nat /\ m > 0 /\ Halvings[m - 1] = h - 1
<1>1. n - 1 \in Nat
  OBVIOUS
<1>2. n - 1 # 0
  BY <1>1, HalvingsEquation
<1>3. Halvings[n - 1] = 1 + Halvings[(n - 1) \div 2]
  BY <1>1, <1>2, HalvingsEquation
<1> DEFINE d == (n - 1) \div 2
           r == (n - 1) % 2
<1>4. d \in Nat /\ r \in 0..1 /\ n - 1 = 2 * d + r
  BY <1>1, HalfFacts
<1>5. Halvings[d] \in Nat
  BY <1>4, HalvingsBounded
<1> HIDE DEF d, r
<1>6. m = d + 1
  <2>1. n + 1 = (d + 1) * 2 + r /\ d + 1 \in Nat
    BY <1>4
  <2>2. r \in 0..(2 - 1)
    BY <1>4
  <2>3. ((d + 1) * 2 + r) \div 2 = d + 1
    BY <2>1, <2>2, DivisionIs
  <2>4. QED
    BY <2>1, <2>3
<1>7. m - 1 = d
  BY <1>4, <1>6
<1>8. Halvings[d] = h - 1
  BY <1>3, <1>5 DEF d
<1>9. QED
  BY <1>1, <1>2, <1>4, <1>6, <1>7, <1>8

LevelStep(p, below, k) == IF Len(below) > 1 THEN NextLevel(below) ELSE <<>>
Leveling == INSTANCE Recursion WITH Step <- LevelStep

MaxIs(S, m) == m \in S /\ \A y \in S : y \in Int /\ m >= y

LEMMA MaxIsIt ==
  ASSUME NEW S, NEW m, MaxIs(S, m)
  PROVE  Max(S) = m
<1>1. m \in S /\ \A y \in S : m >= y
  BY DEF MaxIs
<1>2. Max(S) \in S /\ \A y \in S : Max(S) >= y
  BY <1>1 DEF Max
<1>3. Max(S) >= m /\ m >= Max(S) /\ m \in Int /\ Max(S) \in Int
  BY <1>1, <1>2 DEF MaxIs
<1>4. QED
  BY <1>3

LEMMA ChunkHashesAre ==
  ASSUME NEW data, NumChunks(Len(data)) \in Nat
  PROVE  /\ IsSeq(ChunkHashes(data))
         /\ Len(ChunkHashes(data)) = NumChunks(Len(data))
         /\ \A i \in 0..(NumChunks(Len(data)) - 1) :
              ChunkHashes(data)[i + 1] = Leaf(data, i)
<1> DEFINE n == NumChunks(Len(data))
           s == [i \in 1..n |-> Leaf(data, i - 1)]
<1>1. ASSUME NEW i \in 1..n
      PROVE  Hash(Bytes(data, (i - 1) * ChunkLen, ChunkEnd(Len(data), i - 1)))
               = Leaf(data, i - 1)
  BY DEF Leaf
<1>2. ChunkHashes(data) = s
  BY <1>1 DEF ChunkHashes
<1>3. s \in [1..n -> {Leaf(data, i - 1) : i \in 1..n}]
  OBVIOUS
<1>4. \A i \in 0..(n - 1) : s[i + 1] = Leaf(data, i)
  <2>1. n \in Nat
    OBVIOUS
  <2> HIDE DEF n
  <2>2. \A i \in 0..(n - 1) : i + 1 \in 1..n /\ (i + 1) - 1 = i
    BY <2>1
  <2>3. QED
    BY <2>2
<1>5. IsSeq(s) /\ Len(s) = n
  <2> DEFINE S == {Leaf(data, i - 1) : i \in 1..n}
  <2>1. s \in [1..n -> S] /\ n \in Nat
    BY <1>3
  <2> HIDE DEF s, S, n
  <2>2. s \in Seq(S) /\ Len(s) = n
    BY <2>1
  <2>3. QED
    BY <2>2 DEF IsSeq
<1> HIDE DEF s
<1>6. QED
  BY <1>2, <1>4, <1>5

LEMMA LevelsAre ==
  ASSUME NEW data, NumChunks(Len(data)) \in Nat \ {0},
         NEW h, h = TreeDepth(NumChunks(Len(data)))
  PROVE  /\ h \in Nat
         /\ DOMAIN Levels(data) = 0..h
         /\ Height(Levels(data)) = h
         /\ AreLevels(Levels(data), ChunkHashes(data), h)
<1> DEFINE base == ChunkHashes(data)
           n == NumChunks(Len(data))
           level == CHOOSE g : g = [k \in 0..n |->
                      IF k = 0 THEN base ELSE LevelStep(0, g[k - 1], k)]
<1>1. /\ Leveling!IsRecursion(level, 0, base, n)
      /\ Levels(data)
           = [k \in 0..Max({k \in 0..n : level[k] # <<>>}) |-> level[k]]
  BY DEF Levels, Leveling!IsRecursion, LevelStep
<1>2. n \in Nat /\ n > 0 /\ h = TreeDepth(n)
  OBVIOUS
<1>3. IsSeq(base) /\ Len(base) = n
  BY ChunkHashesAre
<1> HIDE DEF level, base, n
<1>4. n - 1 \in Nat /\ h = Halvings[n - 1]
  <2>1. n - 1 \in Nat /\ (n <= 1 => n - 1 = 0)
    BY <1>2
  <2>2. QED
    BY <1>2, <2>1, HalvingsEquation DEF TreeDepth
<1>5. h \in 0..(n - 1)
  BY <1>4, HalvingsBounded
<1>6. level[0] = base /\ \A k \in 1..n : level[k] = LevelStep(0, level[k - 1], k)
  BY <1>2, <1>1, Leveling!RecursionRuns
<1> DEFINE Good(k) == /\ IsSeq(level[k]) /\ Len(level[k]) \in Nat
                      /\ Len(level[k]) > 0
                      /\ Halvings[Len(level[k]) - 1] = h - k
                      /\ k > 0 => /\ Len(level[k - 1]) > 1
                                  /\ Above(level[k], level[k - 1])
           T == {k \in Nat : k <= h => Good(k)}
<1>7. 0 \in T
  BY <1>4, <1>5, <1>6, <1>3
<1>8. ASSUME NEW k \in Nat, k \in T PROVE k + 1 \in T
  <2> SUFFICES ASSUME k + 1 <= h PROVE Good(k + 1)
    OBVIOUS
  <2> DEFINE below == level[k]
             next == level[k + 1]
             m == Len(below)
  <2>1. k <= h /\ k + 1 \in 1..n /\ (k + 1) - 1 = k /\ h - k \in Nat /\ h - k > 0
        /\ h - (k + 1) = (h - k) - 1
    BY <1>2, <1>5
  <2>2. IsSeq(below) /\ m \in Nat /\ m > 0 /\ Halvings[m - 1] = h - k
    BY <1>8, <2>1
  <2>3. next = LevelStep(0, below, k + 1)
    BY <1>6, <2>1
  <2> HIDE DEF below, next, T
  <2>4. /\ m > 1 /\ (m + 1) \div 2 \in Nat /\ (m + 1) \div 2 > 0
        /\ Halvings[((m + 1) \div 2) - 1] = (h - k) - 1
    <3> HIDE DEF m
    <3> QED BY <2>1, <2>2, MergedHalves
  <2>5. next = NextLevel(below)
    BY <2>3, <2>4 DEF LevelStep
  <2>6. Above(next, below)
    BY <2>2, <2>5, NextLevelIsAbove
  <2>7. IsSeq(next) /\ Len(next) = (m + 1) \div 2
    BY <2>6 DEF Above
  <2>8. Len(level[(k + 1) - 1]) > 1 /\ Above(level[k + 1], level[(k + 1) - 1])
    BY <2>1, <2>4, <2>6 DEF below, next
  <2> HIDE DEF m
  <2>9. QED
    BY <2>1, <2>4, <2>7, <2>8 DEF next
<1>9. Nat \subseteq T
  <2> HIDE DEF T
  <2> QED BY <1>7, <1>8, SetInduction
<1>10. \A k \in 0..h : Good(k)
  BY <1>5, <1>9
<1>11. Len(level[h]) = 1
  <2> DEFINE m == Len(level[h])
  <2>1. m \in Nat /\ m > 0 /\ Halvings[m - 1] = 0
    BY <1>5, <1>10
  <2> HIDE DEF m
  <2>2. ~(m > 1)
    <3> SUFFICES ASSUME m > 1 PROVE FALSE
      OBVIOUS
    <3> DEFINE d == m - 1
    <3>1. d \in Nat /\ d # 0 /\ Halvings[d] = 0
      BY <2>1
    <3> HIDE DEF d
    <3>2. d \div 2 \in Nat
      BY <3>1
    <3>3. Halvings[d] = 1 + Halvings[d \div 2] /\ Halvings[d \div 2] \in Nat
      BY <3>1, <3>2, HalvingsEquation, HalvingsBounded
    <3>4. QED
      BY <3>1, <3>3
  <2>3. m = 1
    BY <2>1, <2>2
  <2>4. QED
    BY <2>3 DEF m
<1> HIDE DEF Good, T
<1> DEFINE E == {k \in Nat : h < k /\ k <= n => level[k] = <<>>}
<1>12. 0 \in E
  BY <1>5
<1>13. ASSUME NEW k \in Nat, k \in E PROVE k + 1 \in E
  <2> SUFFICES ASSUME h < k + 1, k + 1 <= n PROVE level[k + 1] = <<>>
    OBVIOUS
  <2>1. k + 1 \in 1..n /\ (k + 1) - 1 = k /\ (k = h \/ (h < k /\ k <= n))
    BY <1>2, <1>5
  <2>2. level[k + 1] = LevelStep(0, level[k], k + 1)
    BY <1>6, <2>1
  <2>3. Len(level[k]) = 1 \/ Len(level[k]) = 0
    BY <1>11, <1>13, <2>1, EmptySeq
  <2>4. ~(Len(level[k]) > 1)
    <3> DEFINE m == Len(level[k])
    <3>1. m = 1 \/ m = 0
      BY <2>3
    <3> HIDE DEF m
    <3>2. ~(m > 1)
      BY <3>1
    <3>3. QED
      BY <3>2 DEF m
  <2>5. QED
    BY <2>2, <2>4 DEF LevelStep
<1>14. Nat \subseteq E
  <2> HIDE DEF E
  <2> QED BY <1>12, <1>13, SetInduction
<1>15. \A k \in 0..h : level[k] # <<>>
  <2> SUFFICES ASSUME NEW k \in 0..h, level[k] = <<>> PROVE FALSE
    OBVIOUS
  <2>1. Len(level[k]) > 0
    BY <1>10 DEF Good
  <2>2. Len(<<>>) = 0
    BY EmptySeq
  <2>3. QED
    BY <2>1, <2>2
<1>16. Max({k \in 0..n : level[k] # <<>>}) = h
  <2> DEFINE S == {k \in 0..n : level[k] # <<>>}
  <2>1. h \in S
    BY <1>2, <1>5, <1>15
  <2>2. ASSUME NEW k \in S PROVE k \in Int /\ h >= k
    <3>1. k \in E /\ k \in Nat /\ k <= n
      BY <1>14
    <3>2. QED
      BY <1>5, <3>1
  <2>3. MaxIs(S, h)
    <3> HIDE DEF S
    <3> QED BY <2>1, <2>2 DEF MaxIs
  <2>4. QED
    BY <2>3, MaxIsIt
<1>17. Levels(data) = [k \in 0..h |-> level[k]]
  BY <1>1, <1>16
<1>18. Height(Levels(data)) = h
  <2>1. DOMAIN Levels(data) = 0..h
    BY <1>17
  <2>2. MaxIs(0..h, h)
    BY <1>5 DEF MaxIs
  <2>3. QED
    BY <2>1, <2>2, MaxIsIt DEF Height
<1>19. AreLevels(Levels(data), base, h)
  <2> DEFINE r == Levels(data)
  <2>1. \A k \in 0..h : r[k] = level[k]
    BY <1>17
  <2>2. 0 \in 0..h /\ h \in 0..h
        /\ \A k \in 1..h : k \in 0..h /\ k - 1 \in 0..h /\ k > 0
    BY <1>5
  <2> HIDE DEF r
  <2>3. r[0] = base /\ Len(r[h]) = 1
    BY <1>6, <1>11, <2>1, <2>2
  <2>4. \A k \in 0..h : IsSeq(r[k])
    BY <1>10, <2>1 DEF Good
  <2>5. \A k \in 1..h : Len(r[k - 1]) > 1 /\ Above(r[k], r[k - 1])
    BY <1>10, <2>1, <2>2 DEF Good
  <2>6. QED
    BY <2>3, <2>4, <2>5 DEF AreLevels, r
<1>20. QED
  BY <1>5, <1>17, <1>18, <1>19 DEF base

LEMMA NumChunksIs ==
  ASSUME NEW len \in Nat
  PROVE  /\ NumChunks(len) \in Nat \ {0}
         /\ len <= NumChunks(len) * ChunkLen
         /\ len > 0 => (NumChunks(len) - 1) * ChunkLen < len
<1>1. ChunkLen \in Nat \ {0}
  BY StreamAssumption
<1>2. CASE len = 0
  BY <1>1, <1>2 DEF NumChunks
<1>3. CASE len # 0
  <2> DEFINE n == CeilDiv(len, ChunkLen)
  <2>1. n \in Nat /\ len <= n * ChunkLen /\ n * ChunkLen <= len + ChunkLen - 1
    BY <1>1, CeilDivCovers
  <2> HIDE DEF n
  <2>2. n # 0
    BY <1>1, <1>3, <2>1
  <2>3. n - 1 \in Nat /\ ((n - 1) + 1) * ChunkLen = (n - 1) * ChunkLen + ChunkLen
        /\ (n - 1) * ChunkLen \in Nat /\ (n - 1) + 1 = n
    <3>1. n - 1 \in Nat /\ (n - 1) + 1 = n
      BY <2>1, <2>2
    <3>2. QED
      BY <1>1, <3>1, Multiples
  <2>4. (n - 1) * ChunkLen < len
    BY <1>1, <2>1, <2>3
  <2>5. NumChunks(len) = n
    BY <1>3 DEF NumChunks, n
  <2>6. QED
    BY <2>1, <2>2, <2>4, <2>5
<1>4. QED
  BY <1>2, <1>3

(* The authentication path of a chunk.                                     *)
SiblingAt(level, node) ==
  LET s == SiblingIndex(node)
  IN  IF s < Len(level) THEN level[s + 1] ELSE ZeroHash

LEMMA PathIs ==
  ASSUME NEW data, Len(data) \in Nat, NEW chunk,
         NEW h, h = TreeDepth(NumChunks(Len(data)))
  PROVE  /\ IsSeq(MerklePath(data, chunk))
         /\ Len(MerklePath(data, chunk)) = h
         /\ \A i \in 1..h : MerklePath(data, chunk)[i]
              = SiblingAt(Levels(data)[i - 1], chunk \div Pow2[i - 1])
<1> DEFINE f(i) == SiblingAt(Levels(data)[i - 1], chunk \div Pow2[i - 1])
           p == [i \in 1..h |-> f(i)]
           S == {f(i) : i \in 1..h}
<1>1. h \in Nat /\ Height(Levels(data)) = h
  <2>1. NumChunks(Len(data)) \in Nat \ {0}
    BY NumChunksIs
  <2>2. QED
    BY <2>1, LevelsAre
<1>2. MerklePath(data, chunk) = [i \in 1..Height(Levels(data)) |-> f(i)]
  BY DEF MerklePath, SiblingAt
<1>3. MerklePath(data, chunk) = p
  <2> HIDE DEF f
  <2> QED BY <1>1, <1>2
<1>4. \A i \in 1..h : p[i] = f(i)
  <2> HIDE DEF f
  <2> QED OBVIOUS
<1>5. p \in [1..h -> S]
  <2> HIDE DEF f
  <2> QED OBVIOUS
<1> HIDE DEF p, S
<1>6. p \in Seq(S) /\ Len(p) = h
  <2> HIDE DEF f
  <2> QED BY <1>1, <1>5
<1>7. IsSeq(p)
  BY <1>6 DEF IsSeq
<1>8. QED
  BY <1>3, <1>4, <1>6, <1>7

LEMMA InvFits == StreamInv => ProofFitsBuffer
<1> SUFFICES ASSUME StreamInv, proof # NoProof
             PROVE  proof.depth = ProofSlots(proof.len)
  BY DEF ProofFitsBuffer
<1>1. origin \in Seq(StreamBytes) /\ IsProofOf(proof, origin)
  BY DEF StreamInv, ProofInv
<1>2. proof.depth = Len(MerklePath(origin, proof.chunk)) /\ proof.len = Len(origin)
  BY <1>1 DEF IsProofOf
<1>3. Len(origin) \in Nat
  BY <1>1, LenProperties
<1>4. Len(MerklePath(origin, proof.chunk)) = TreeDepth(NumChunks(Len(origin)))
  BY <1>3, PathIs
<1>5. QED
  BY <1>2, <1>4 DEF ProofSlots

(* A proof has as many siblings as proof_size computes from the number of  *)
(* chunks (blake4_stream.c:447-541, 580-661): extract_slice writes neither *)
(* beyond its caller's buffer nor less than it reports.                    *)
THEOREM ProofsFit == Spec => []ProofFitsBuffer
BY StreamInvariant, InvFits, PTL

-----------------------------------------------------------------------------
(* The left-full tree.                                                     *)
RefStep(p, g, size) ==
  [first \in Nat |->
     IF size = 1 THEN Leaf(p, first)
     ELSE LET l == LeftSize(size)
          IN  HashParent(g[l][first], g[size - l][first + l])]
Refs == INSTANCE Recursion WITH Step <- RefStep

LEMMA RefNodeEquation ==
  ASSUME NEW data
  PROVE  \A size \in Nat \ {0} :
           RefNode(data)[size] = RefStep(data, RefNode(data), size)
<1> DEFINE D == Nat \ {0}
<1>1. Refs!LooksBelow(data, D)
  <2> SUFFICES ASSUME NEW n \in D, NEW g, NEW h,
                      \A i \in D : i < n => g[i] = h[i]
               PROVE  RefStep(data, g, n) = RefStep(data, h, n)
    BY DEF Refs!LooksBelow
  <2>1. CASE n = 1
    BY <2>1 DEF RefStep
  <2>2. CASE n # 1
    <3> DEFINE l == LeftSize(n)
               m == n - l
    <3>1. l \in 1..(n - 1)
      BY <2>2, LeftSizeIsSmaller
    <3>2. l \in D /\ l < n /\ m \in D /\ m < n
      <4> HIDE DEF l
      <4> QED BY <3>1
    <3>3. g[l] = h[l] /\ g[m] = h[m]
      <4> HIDE DEF l, m
      <4> QED BY <3>2
    <3>4. \A x : RefStep(data, x, n)
                   = [first \in Nat |-> HashParent(x[l][first], x[m][first + l])]
      BY <2>2 DEF RefStep
    <3> HIDE DEF l, m
    <3>5. QED
      BY <3>3, <3>4
  <2>3. QED
    BY <2>1, <2>2
<1>2. Refs!IsStrongRecursion(RefNode(data), data, D)
  BY DEF Refs!IsStrongRecursion, RefNode, RefStep
<1>3. D \in SUBSET Nat
  OBVIOUS
<1> HIDE DEF D
<1>4. RefNode(data) = [n \in D |-> RefStep(data, RefNode(data), n)]
  BY <1>1, <1>2, <1>3, Refs!StrongRecursion
<1>5. QED
  BY <1>4 DEF D

LEMMA RefNodeIs ==
  ASSUME NEW data, NEW first \in Nat
  PROVE  /\ RefNode(data)[1][first] = Leaf(data, first)
         /\ \A size \in Nat : size > 1 =>
              RefNode(data)[size][first]
                = HashParent(RefNode(data)[LeftSize(size)][first],
                             RefNode(data)[size - LeftSize(size)]
                                          [first + LeftSize(size)])
<1> DEFINE g == RefNode(data)
<1>1. \A size \in Nat \ {0} : g[size] = RefStep(data, g, size)
  BY RefNodeEquation
<1> HIDE DEF g
<1>2. g[1][first] = Leaf(data, first)
  <2>1. g[1] = RefStep(data, g, 1)
    BY <1>1
  <2>2. QED
    BY <2>1 DEF RefStep
<1>3. ASSUME NEW size \in Nat, size > 1
      PROVE  g[size][first] = HashParent(g[LeftSize(size)][first],
                                g[size - LeftSize(size)][first + LeftSize(size)])
  <2>1. g[size] = RefStep(data, g, size) /\ size # 1
    BY <1>1, <1>3
  <2>2. QED
    BY <2>1 DEF RefStep
<1>4. QED
  BY <1>2, <1>3 DEF g

(* Node i of level k covers the chunks from i * 2^k on, as many as 2^k or  *)
(* as there are.                                                           *)
Covered(n, w, i) == IF n - (i * w) <= w THEN n - (i * w) ELSE w

LevelIsLeftFull(data, level, n, w) ==
  /\ Len(level) \in Nat \ {0}
  /\ (Len(level) - 1) * w < n /\ n <= Len(level) * w
  /\ \A i \in 0..(Len(level) - 1) :
       level[i + 1] = RefNode(data)[Covered(n, w, i)][i * w]

(* Two neighbours, or one that moves up, in numbers of chunks.             *)
Doubled(w, i) ==
  /\ (2 * i) * w = i * (2 * w) /\ i * (2 * w) \in Nat
  /\ (2 * i + 1) * w = i * (2 * w) + w

Paired(n, w, m, i) ==
  /\ 2 * i + 1 < m =>
       /\ Covered(n, w, 2 * i) = w
       /\ Covered(n, 2 * w, i) \in Nat
       /\ w < Covered(n, 2 * w, i) /\ Covered(n, 2 * w, i) <= 2 * w
       /\ Covered(n, w, 2 * i + 1) = Covered(n, 2 * w, i) - w
  /\ 2 * i + 1 = m => Covered(n, w, 2 * i) = Covered(n, 2 * w, i)

LEMMA Neighbours ==
  ASSUME NEW n \in Nat, NEW w \in Nat \ {0}, NEW m \in Nat \ {0},
         (m - 1) * w < n, n <= m * w, NEW i \in Nat, 2 * i < m
  PROVE  Doubled(w, i) /\ Paired(n, w, m, i)
<1> DEFINE a == (2 * i) * w
           b == (2 * i + 1) * w
<1>1. a \in Nat /\ b = a + w /\ (2 * i) * w = i * (2 * w)
  <2>1. 2 * i \in Nat
    OBVIOUS
  <2>2. a \in Nat /\ b = a + w
    BY <2>1, Multiples
  <2>3. (2 * i) * w = i * (2 * w)
    OBVIOUS
  <2>4. QED
    BY <2>2, <2>3
<1>2. ASSUME 2 * i + 1 < m PROVE b < n
  <2>1. 2 * i + 1 \in Nat /\ m - 1 \in Nat /\ 2 * i + 1 <= m - 1
    BY <1>2
  <2>2. b <= (m - 1) * w /\ (m - 1) * w \in Nat
    BY <2>1, Multiples
  <2> HIDE DEF b
  <2>3. b \in Nat
    BY <1>1
  <2>4. QED
    BY <2>2, <2>3
<1>3. 2 * i + 1 = m => n <= a + w
  BY <1>1
<1>4. /\ Covered(n, w, 2 * i) = IF n - a <= w THEN n - a ELSE w
      /\ Covered(n, w, 2 * i + 1) = IF n - b <= w THEN n - b ELSE w
      /\ Covered(n, 2 * w, i) = IF n - a <= 2 * w THEN n - a ELSE 2 * w
  BY <1>1 DEF Covered
<1> HIDE DEF a, b
<1>5. i * (2 * w) = a /\ (2 * i) * w = a /\ (2 * i + 1) * w = b
  BY <1>1 DEF a, b
<1>6. ASSUME 2 * i + 1 < m
      PROVE  /\ Covered(n, w, 2 * i) = w
             /\ Covered(n, 2 * w, i) \in Nat
             /\ w < Covered(n, 2 * w, i) /\ Covered(n, 2 * w, i) <= 2 * w
             /\ Covered(n, w, 2 * i + 1) = Covered(n, 2 * w, i) - w
  BY <1>1, <1>2, <1>4, <1>6
<1>7. ASSUME 2 * i + 1 = m PROVE Covered(n, w, 2 * i) = Covered(n, 2 * w, i)
  BY <1>1, <1>3, <1>4, <1>7
<1>8. QED
  BY <1>1, <1>5, <1>6, <1>7 DEF Doubled, Paired

LEMMA LeftFullRises ==
  ASSUME NEW data, NEW n \in Nat, NEW k \in Nat, NEW w, w = Pow2[k],
         NEW level, LevelIsLeftFull(data, level, n, w),
         NEW next, Above(next, level)
  PROVE  LevelIsLeftFull(data, next, n, 2 * w)
<1> DEFINE m == Len(level)
           top == Len(next)
           node(size, first) == RefNode(data)[size][first]
<1>1. w \in Nat \ {0}
  BY Pow2Facts
<1>2. m \in Nat \ {0} /\ (m - 1) * w < n /\ n <= m * w
      /\ \A i \in 0..(m - 1) : level[i + 1] = node(Covered(n, w, i), i * w)
  BY DEF LevelIsLeftFull
<1>3. /\ top = (m + 1) \div 2
      /\ \A i \in 1..(m \div 2) : next[i] = HashParent(level[2 * i - 1], level[2 * i])
      /\ m % 2 = 1 => next[top] = level[m]
  BY DEF Above
<1> HIDE DEF m, top
<1>4. /\ top \in Nat \ {0}
      /\ \A i \in 0..(top - 1) : 2 * i < m
      /\ m <= 2 * top
  BY <1>2, <1>3
<1>5. (top - 1) * (2 * w) < n
  <2> DEFINE i == top - 1
  <2>1. i \in Nat /\ 2 * i < m
    BY <1>4
  <2> HIDE DEF i
  <2>2. (2 * i) * w = i * (2 * w)
    <3>1. Doubled(w, i)
      BY <1>1, <1>2, <2>1, Neighbours
    <3>2. QED
      BY <3>1 DEF Doubled
  <2>3. (2 * i) * w <= (m - 1) * w
    <3>1. 2 * i \in Nat /\ m - 1 \in Nat /\ 2 * i <= m - 1
      BY <1>2, <2>1
    <3>2. QED
      BY <1>1, <3>1, Multiples
  <2>4. (2 * i) * w \in Nat /\ (m - 1) * w \in Nat
    BY <1>1, <1>2, <2>1
  <2>5. i * (2 * w) < n
    BY <1>2, <2>2, <2>3, <2>4
  <2>6. QED
    BY <2>5 DEF i
<1>6. n <= top * (2 * w)
  <2>1. 2 * top \in Nat /\ (2 * top) * w = top * (2 * w)
    BY <1>1, <1>4
  <2>2. m * w <= (2 * top) * w /\ m * w \in Nat /\ (2 * top) * w \in Nat
    BY <1>1, <1>2, <1>4, <2>1, Multiples
  <2>3. QED
    BY <1>2, <2>1, <2>2
<1>7. ASSUME NEW i \in 0..(top - 1)
      PROVE  next[i + 1] = node(Covered(n, 2 * w, i), i * (2 * w))
  <2> DEFINE size == Covered(n, 2 * w, i)
             first == i * (2 * w)
  <2>1. i \in Nat /\ 2 * i < m
    BY <1>4
  <2>0. Doubled(w, i) /\ Paired(n, w, m, i)
    BY <1>1, <1>2, <2>1, Neighbours
  <2>2. /\ (2 * i) * w = first /\ first \in Nat
        /\ (2 * i + 1) * w = first + w
    BY <2>0 DEF Doubled
  <2>3. 2 * i \in 0..(m - 1) /\ 2 * i + 1 \in Nat
    BY <1>2, <2>1
  <2>4. level[2 * i + 1] = node(Covered(n, w, 2 * i), first)
    <3> DEFINE j == 2 * i
    <3>1. j \in 0..(m - 1) /\ j * w = first
      BY <2>2, <2>3
    <3> HIDE DEF j, first, node
    <3>2. level[j + 1] = node(Covered(n, w, j), first)
      BY <1>2, <3>1
    <3>3. QED
      BY <3>2 DEF j
  <2>5. CASE 2 * i + 1 < m
    <3>1. /\ Covered(n, w, 2 * i) = w
          /\ size \in Nat /\ w < size /\ size <= 2 * w
          /\ Covered(n, w, 2 * i + 1) = size - w
      BY <2>0, <2>5 DEF Paired
    <3>2. level[2 * i + 2] = node(size - w, first + w)
      <4> DEFINE j == 2 * i + 1
      <4>1. j \in 0..(m - 1) /\ j * w = first + w /\ Covered(n, w, j) = size - w
            /\ j + 1 = 2 * i + 2
        BY <1>2, <2>1, <2>2, <2>3, <2>5, <3>1
      <4> HIDE DEF j, first, size, node
      <4>2. level[j + 1] = node(Covered(n, w, j), j * w)
        BY <1>2, <4>1
      <4>3. QED
        BY <4>1, <4>2
    <3>3. next[i + 1] = HashParent(level[2 * i + 1], level[2 * i + 2])
      <4>1. i + 1 \in 1..(m \div 2) /\ 2 * (i + 1) - 1 = 2 * i + 1
            /\ 2 * (i + 1) = 2 * i + 2
        BY <1>2, <2>1, <2>5
      <4>2. next[i + 1] = HashParent(level[2 * (i + 1) - 1], level[2 * (i + 1)])
        BY <1>3, <4>1
      <4>3. QED
        BY <4>1, <4>2
    <3>4. LeftSize(size) = w
      <4> HIDE DEF size
      <4> QED BY <3>1, LeftSizeIsPower
    <3>5. node(size, first) = HashParent(node(w, first), node(size - w, first + w))
      <4> HIDE DEF size, first
      <4>1. size > 1
        BY <1>1, <3>1
      <4>2. QED
        BY <2>2, <3>1, <3>4, <4>1, RefNodeIs
    <3> HIDE DEF size, first, node
    <3>6. QED
      BY <2>4, <3>1, <3>2, <3>3, <3>5 DEF size, first
  <2>6. CASE 2 * i + 1 = m
    <3>1. Covered(n, w, 2 * i) = size
      BY <2>0, <2>6 DEF Paired
    <3>2. m % 2 = 1 /\ top = i + 1
      BY <1>2, <1>3, <2>1, <2>6
    <3>3. next[i + 1] = level[2 * i + 1]
      BY <1>3, <2>6, <3>2
    <3> HIDE DEF size, first, node
    <3>4. next[i + 1] = node(size, first)
      BY <2>4, <3>1, <3>3
    <3>5. QED
      BY <3>4 DEF size, first
  <2>7. QED
    BY <1>2, <2>1, <2>5, <2>6
<1>8. QED
  BY <1>4, <1>5, <1>6, <1>7 DEF LevelIsLeftFull, top

(* Every level is that of the left-full tree.                              *)
LEMMA LevelsAreLeftFull ==
  ASSUME NEW data, Len(data) \in Nat,
         NEW n, n = NumChunks(Len(data)), NEW h, h = TreeDepth(n)
  PROVE  \A k \in 0..h : LevelIsLeftFull(data, Levels(data)[k], n, Pow2[k])
<1> DEFINE r == Levels(data)
           T == {k \in Nat : k <= h => LevelIsLeftFull(data, r[k], n, Pow2[k])}
<1>1. n \in Nat \ {0}
  BY NumChunksIs
<1>2. h \in Nat /\ AreLevels(r, ChunkHashes(data), h)
  BY <1>1, LevelsAre
<1> HIDE DEF r
<1>3. 0 \in T
  <2>1. r[0] = ChunkHashes(data) /\ Pow2[0] = 1
    BY <1>2, Pow2Equation DEF AreLevels
  <2>2. Len(r[0]) = n /\ \A i \in 0..(n - 1) : r[0][i + 1] = Leaf(data, i)
    BY <1>1, <2>1, ChunkHashesAre
  <2>3. ASSUME NEW i \in 0..(n - 1)
        PROVE  r[0][i + 1] = RefNode(data)[Covered(n, 1, i)][i * 1]
    <3>1. i \in Nat /\ i * 1 = i /\ n - i >= 1
      BY <1>1
    <3>2. Covered(n, 1, i) = 1
      BY <1>1, <3>1 DEF Covered
    <3>3. RefNode(data)[1][i] = Leaf(data, i)
      BY <3>1, RefNodeIs
    <3>4. QED
      BY <2>2, <3>1, <3>2, <3>3
  <2>4. (n - 1) * 1 < n /\ n <= n * 1
    BY <1>1
  <2>5. LevelIsLeftFull(data, r[0], n, 1)
    BY <1>1, <2>2, <2>3, <2>4 DEF LevelIsLeftFull
  <2>6. QED
    BY <2>1, <2>5
<1>4. ASSUME NEW k \in Nat, k \in T PROVE k + 1 \in T
  <2> SUFFICES ASSUME k + 1 <= h PROVE LevelIsLeftFull(data, r[k + 1], n, Pow2[k + 1])
    OBVIOUS
  <2>1. k <= h /\ k + 1 \in 1..h /\ (k + 1) - 1 = k
    BY <1>2
  <2>2. LevelIsLeftFull(data, r[k], n, Pow2[k])
    BY <1>4, <2>1
  <2>3. Above(r[k + 1], r[k])
    <3>1. Above(r[k + 1], r[(k + 1) - 1])
      BY <1>2, <2>1 DEF AreLevels
    <3>2. QED
      BY <2>1, <3>1
  <2>4. Pow2[k + 1] = 2 * Pow2[k]
    BY Pow2Facts
  <2>5. LevelIsLeftFull(data, r[k + 1], n, 2 * Pow2[k])
    BY <1>1, <2>2, <2>3, LeftFullRises
  <2>6. QED
    BY <2>4, <2>5
<1>5. Nat \subseteq T
  <2> HIDE DEF T
  <2> QED BY <1>3, <1>4, SetInduction
<1>6. QED
  BY <1>2, <1>5 DEF r

LEMMA TopIsRoot ==
  ASSUME NEW data, Len(data) \in Nat,
         NEW h, h = TreeDepth(NumChunks(Len(data)))
  PROVE  Levels(data)[h][1] = RefRoot(data)
<1> DEFINE n == NumChunks(Len(data))
           level == Levels(data)[h]
           w == Pow2[h]
<1>1. n \in Nat \ {0}
  BY NumChunksIs
<1>2. h \in Nat /\ Len(level) = 1
  BY <1>1, LevelsAre DEF AreLevels
<1>3. LevelIsLeftFull(data, level, n, w)
  BY <1>2, LevelsAreLeftFull
<1>4. w \in Nat
  BY <1>2, Pow2Facts
<1> HIDE DEF n, level, w
<1>5. n <= 1 * w /\ level[0 + 1] = RefNode(data)[Covered(n, w, 0)][0 * w]
  BY <1>2, <1>3 DEF LevelIsLeftFull
<1>6. 0 + 1 = 1 /\ 0 * w = 0 /\ n <= w /\ Covered(n, w, 0) = n
  BY <1>1, <1>4, <1>5 DEF Covered
<1>7. level[1] = RefNode(data)[n][0]
  BY <1>5, <1>6
<1>8. QED
  BY <1>7 DEF RefRoot, n, level

-----------------------------------------------------------------------------
(* The stored nodes.                                                       *)
Joined(x, y) ==
  /\ IsSeq(x \o y) /\ Len(x) \in Nat /\ Len(y) \in Nat
  /\ Len(x \o y) = Len(x) + Len(y)
  /\ Len(y) > 0 => (x \o y)[Len(x) + Len(y)] = y[Len(y)]

LEMMA JoinIs ==
  ASSUME NEW x, IsSeq(x), NEW y, IsSeq(y)
  PROVE  Joined(x, y)
<1>1. PICK S : x \in Seq(S)
  BY DEF IsSeq
<1>2. PICK T : y \in Seq(T)
  BY DEF IsSeq
<1>3. x \in Seq(S \cup T) /\ y \in Seq(S \cup T)
  BY <1>1, <1>2, SeqMonotonic
<1> DEFINE z == x \o y
           a == Len(x)
           b == Len(y)
<1>4. /\ z \in Seq(S \cup T) /\ Len(z) = a + b
      /\ \A i \in 1..(a + b) : z[i] = IF i <= a THEN x[i] ELSE y[i - a]
  BY <1>3, ConcatProperties
<1>5. a \in Nat /\ b \in Nat
  BY <1>3, LenProperties
<1> HIDE DEF z, a, b
<1>6. ASSUME b > 0 PROVE z[a + b] = y[b]
  <2>1. a + b \in 1..(a + b) /\ ~(a + b <= a) /\ (a + b) - a = b
    BY <1>5, <1>6
  <2>2. QED
    BY <1>4, <2>1
<1>7. IsSeq(z)
  BY <1>4 DEF IsSeq
<1>8. QED
  BY <1>4, <1>5, <1>6, <1>7 DEF Joined, z, a, b

(* The parents of all levels below the top: one node less than there are   *)
(* chunks, and the root is the last of them.                               *)
LEMMA NodesAre ==
  ASSUME NEW data, Len(data) \in Nat,
         NEW t, t = BuildTree(data)
  PROVE  /\ t.root = RefRoot(data)
         /\ Len(t.nodes) = NumChunks(Len(data)) - 1
         /\ t.nodes # <<>> => t.nodes[Len(t.nodes)] = t.root
<1> DEFINE n == NumChunks(Len(data))
           h == TreeDepth(n)
           r == Levels(data)
           seqs == [k \in 1..h |-> Parents(r[k - 1])]
           nodes == FlattenSeq(seqs)
<1>1. n \in Nat \ {0}
  BY NumChunksIs
<1>2. h \in Nat /\ Height(r) = h /\ AreLevels(r, ChunkHashes(data), h)
  BY <1>1, LevelsAre
<1>3. r[h][1] = RefRoot(data)
  BY TopIsRoot
<1>4. t.root = r[h][1] /\ t.nodes = nodes
  <2> HIDE DEF h
  <2> QED BY <1>2 DEF BuildTree
<1>5. Len(r[0]) = n
  BY <1>1, <1>2, ChunkHashesAre DEF AreLevels
<1> HIDE DEF n, h, r
<1>6. \A k \in 0..h : Len(r[k]) \in Nat
  BY <1>2, LenProperties DEF AreLevels, IsSeq
<1>7. ASSUME NEW k \in 1..h
      PROVE  /\ Len(r[k - 1]) \in Nat /\ Len(r[k - 1]) > 1
             /\ Len(r[k]) = (Len(r[k - 1]) + 1) \div 2
             /\ IsSeq(Parents(r[k - 1]))
             /\ Len(Parents(r[k - 1])) = Len(r[k - 1]) \div 2
             /\ \A i \in 1..(Len(r[k - 1]) \div 2) :
                  r[k][i] = Parents(r[k - 1])[i]
  <2>1. k - 1 \in 0..h
    BY <1>2
  <2>2. Len(r[k - 1]) \in Nat
    BY <1>6, <2>1
  <2>3. Len(r[k - 1]) > 1 /\ Above(r[k], r[k - 1])
    BY <1>2 DEF AreLevels
  <2>4. QED
    BY <2>2, <2>3, ParentsAre DEF Above
<1>8. Len(seqs) = h /\ (h = 0 => seqs = <<>>)
  <2> DEFINE S == {Parents(r[k - 1]) : k \in 1..h}
  <2>1. seqs \in [1..h -> S]
    OBVIOUS
  <2> HIDE DEF S, seqs
  <2>2. seqs \in Seq(S) /\ Len(seqs) = h
    BY <1>2, <2>1
  <2>3. QED
    BY <2>2, EmptySeq
<1>9. \A k \in 1..h : seqs[k] = Parents(r[k - 1])
  OBVIOUS
<1> HIDE DEF seqs
<1>10. CASE h = 0
  <2>1. n = 1
    BY <1>2, <1>5, <1>10 DEF AreLevels
  <2>2. nodes = <<>>
    BY <1>8, <1>10, EmptySeq DEF FlattenSeq
  <2>3. Len(<<>>) = 0
    BY EmptySeq
  <2>4. QED
    BY <1>3, <1>4, <2>1, <2>2, <2>3 DEF n, h, r
<1>11. CASE h # 0
  <2>1. PICK f : /\ nodes = f[h]
                 /\ f[1] = seqs[1]
                 /\ \A i \in 2..h : f[i] = f[i - 1] \o seqs[i]
    <3>1. h > 0
      BY <1>2, <1>11
    <3>2. QED
      BY <1>2, <1>8, <3>1, FlattenIs
  <2> DEFINE Good(k) == /\ IsSeq(f[k])
                        /\ Len(f[k]) = n - Len(r[k])
                        /\ f[k][Len(f[k])]
                             = Parents(r[k - 1])[Len(r[k - 1]) \div 2]
             T == {k \in Nat : k + 1 <= h => Good(k + 1)}
  <2>2. 0 \in T
    <3>1. 1 \in 1..h /\ 1 - 1 = 0 /\ 0 + 1 = 1
      BY <1>2, <1>11
    <3>2. f[1] = Parents(r[0])
      BY <1>9, <2>1, <3>1
    <3>3. /\ Len(r[0]) > 1 /\ Len(r[1]) = (Len(r[0]) + 1) \div 2
          /\ IsSeq(Parents(r[0])) /\ Len(Parents(r[0])) = Len(r[0]) \div 2
      BY <1>7, <3>1
    <3>4. Len(f[1]) = n - Len(r[1])
      <4>1. n \div 2 = n - ((n + 1) \div 2)
        BY <1>1
      <4>2. QED
        BY <1>5, <3>2, <3>3, <4>1
    <3>5. QED
      BY <3>1, <3>2, <3>3, <3>4
  <2>3. ASSUME NEW j \in Nat, j \in T PROVE j + 1 \in T
    <3> DEFINE k == j + 1
    <3>0. SUFFICES ASSUME k + 1 <= h PROVE Good(k + 1)
      <4> HIDE DEF Good
      <4> QED OBVIOUS
    <3>1. k \in Nat /\ k <= h /\ k + 1 \in 2..h /\ k + 1 \in 1..h /\ (k + 1) - 1 = k
      BY <1>2, <3>0
    <3>2. IsSeq(f[k]) /\ Len(f[k]) = n - Len(r[k])
      BY <2>3, <3>1
    <3> HIDE DEF T, k
    <3>3. f[k + 1] = f[k] \o Parents(r[k])
      BY <1>9, <2>1, <3>1
    <3>4. /\ Len(r[k]) \in Nat /\ Len(r[k]) > 1
          /\ Len(r[k + 1]) = (Len(r[k]) + 1) \div 2
          /\ IsSeq(Parents(r[k])) /\ Len(Parents(r[k])) = Len(r[k]) \div 2
      BY <1>7, <3>1
    <3>5. Joined(f[k], Parents(r[k]))
      BY <3>2, <3>4, JoinIs
    <3> DEFINE m == Len(r[k])
               d == m \div 2
               up == Len(r[k + 1])
    <3>6. m \in Nat /\ m > 1 /\ up = (m + 1) \div 2
      BY <3>4
    <3>7. Len(f[k]) = n - m /\ Len(Parents(r[k])) = d
      BY <3>2, <3>4
    <3> HIDE DEF m, up
    <3>8. d \in Nat /\ d > 0 /\ m - d = up
      BY <3>6
    <3> HIDE DEF d
    <3>9. Len(f[k]) + d = n - up
      BY <1>1, <3>6, <3>7, <3>8
    <3>10. /\ Len(f[k + 1]) = Len(f[k]) + d /\ IsSeq(f[k + 1])
           /\ f[k + 1][Len(f[k]) + d] = Parents(r[k])[d]
      BY <3>3, <3>5, <3>7, <3>8 DEF Joined
    <3>11. QED
      BY <3>1, <3>9, <3>10 DEF up, d, m
  <2>4. Nat \subseteq T
    <3> HIDE DEF T
    <3> QED BY <2>2, <2>3, SetInduction
  <2>5. Good(h)
    <3>1. h - 1 \in Nat /\ (h - 1) + 1 = h /\ h <= h
      BY <1>2, <1>11
    <3>2. h - 1 \in T
      <4> HIDE DEF T
      <4> QED BY <2>4, <3>1
    <3> HIDE DEF Good
    <3>3. QED
      BY <3>1, <3>2
  <2>6. Len(nodes) = n - Len(r[h])
        /\ nodes[Len(nodes)] = Parents(r[h - 1])[Len(r[h - 1]) \div 2]
    BY <2>1, <2>5
  <2>7. Len(r[h]) = 1
    BY <1>2 DEF AreLevels
  <2> HIDE DEF nodes
  <2>8. Len(r[h - 1]) \div 2 = 1 /\ r[h][1] = Parents(r[h - 1])[1]
    <3> DEFINE m == Len(r[h - 1])
    <3>1. h \in 1..h
      BY <1>2, <1>11
    <3>2. /\ m \in Nat /\ m > 1 /\ 1 = (m + 1) \div 2
          /\ \A i \in 1..(m \div 2) : r[h][i] = Parents(r[h - 1])[i]
      BY <1>7, <2>7, <3>1
    <3> HIDE DEF m
    <3>3. m \div 2 = 1
      BY <3>2
    <3>4. r[h][1] = Parents(r[h - 1])[1]
      BY <3>2, <3>3
    <3>5. QED
      BY <3>3, <3>4 DEF m
  <2>9. Len(nodes) = n - 1 /\ nodes[Len(nodes)] = r[h][1]
    BY <2>6, <2>7, <2>8
  <2>10. QED
    BY <1>3, <1>4, <2>9 DEF n, h, r
<1>12. QED
  BY <1>10, <1>11

LEMMA InvLeftFull == StreamInv => TreeIsLeftFull
<1> SUFFICES ASSUME StreamInv, enc # NoEncoder,
                    NEW t, t = BuildTree(enc.data)
             PROVE  /\ t.root = RefRoot(enc.data)
                    /\ Len(t.nodes) = NumChunks(Len(enc.data)) - 1
                    /\ t.nodes # <<>> => Last(t.nodes) = t.root
  BY DEF TreeIsLeftFull
<1>1. Len(enc.data) \in Nat
  BY LenProperties DEF StreamInv, EncoderInv, IsEncoder
<1>2. QED
  BY <1>1, NodesAre DEF Last

(* Merging level by level makes the left-full tree over the chunks of      *)
(* whatever the encoder buffered, for any number of chunks, and its        *)
(* parents fill tree_data exactly (build_tree, blake4_stream.c:111-202).   *)
THEOREM TreeIsBuilt == Spec => []TreeIsLeftFull
BY StreamInvariant, InvLeftFull, PTL

-----------------------------------------------------------------------------
(* The way up from a chunk.                                                *)
Merged(level, i) ==
  IF 2 * i + 1 < Len(level) THEN HashParent(level[2 * i + 1], level[2 * i + 2])
  ELSE level[2 * i + 1]

LEMMA AboveIsMerged ==
  ASSUME NEW level, Len(level) \in Nat, NEW next, Above(next, level)
  PROVE  /\ Len(next) \in Nat
         /\ \A i \in Nat : i < Len(next) <=> 2 * i < Len(level)
         /\ \A i \in Nat : i < Len(next) => next[i + 1] = Merged(level, i)
<1> DEFINE m == Len(level)
           top == Len(next)
<1>1. /\ m \in Nat
      /\ top = (m + 1) \div 2
      /\ \A i \in 1..(m \div 2) : next[i] = HashParent(level[2 * i - 1], level[2 * i])
      /\ m % 2 = 1 => next[top] = level[m]
  BY DEF Above
<1> HIDE DEF m, top
<1>2. top \in Nat /\ \A i \in Nat : i < top <=> 2 * i < m
  BY <1>1
<1>3. ASSUME NEW i \in Nat, i < top PROVE next[i + 1] = Merged(level, i)
  <2>1. CASE 2 * i + 1 < m
    <3>1. i + 1 \in 1..(m \div 2) /\ 2 * (i + 1) - 1 = 2 * i + 1
          /\ 2 * (i + 1) = 2 * i + 2
      BY <1>1, <2>1
    <3>2. next[i + 1] = HashParent(level[2 * (i + 1) - 1], level[2 * (i + 1)])
      BY <1>1, <3>1
    <3>3. next[i + 1] = HashParent(level[2 * i + 1], level[2 * i + 2])
      BY <3>1, <3>2
    <3>4. QED
      BY <2>1, <3>3 DEF Merged, m
  <2>2. CASE ~(2 * i + 1 < m)
    <3>1. m % 2 = 1 /\ top = i + 1 /\ m = 2 * i + 1
      BY <1>1, <1>2, <1>3, <2>2
    <3>2. next[i + 1] = level[2 * i + 1]
      BY <1>1, <3>1
    <3>3. QED
      BY <2>2, <3>2 DEF Merged, m
  <2>3. QED
    BY <2>1, <2>2
<1>4. QED
  BY <1>2, <1>3 DEF m, top

(* No node is the zeros that stand for a missing sibling.                  *)
AllHashes(level) == \A i \in Nat : i < Len(level) => level[i + 1].tag = 0

LEMMA HashesRise ==
  ASSUME NEW level, Len(level) \in Nat, AllHashes(level),
         NEW next, Above(next, level)
  PROVE  AllHashes(next)
<1> SUFFICES ASSUME NEW i \in Nat, i < Len(next) PROVE next[i + 1].tag = 0
  BY DEF AllHashes
<1>1. 2 * i < Len(level) /\ next[i + 1] = Merged(level, i)
  BY AboveIsMerged
<1>2. 2 * i \in Nat /\ level[2 * i + 1].tag = 0
  BY <1>1 DEF AllHashes
<1>3. \A x, y : HashParent(x, y).tag = 0
  BY DEF HashParent, Hash
<1>4. QED
  BY <1>1, <1>2, <1>3 DEF Merged

(* Levels of two trees that differ at node c at most.                      *)
Twins(a, b, c) ==
  /\ Len(a) = Len(b)
  /\ \A i \in Nat : i < Len(a) /\ i # c => a[i + 1] = b[i + 1]

LEMMA TwinsRise ==
  ASSUME NEW a, NEW b, NEW c \in Nat, Twins(a, b, c), Len(a) \in Nat,
         NEW a2, Above(a2, a), NEW b2, Above(b2, b)
  PROVE  Twins(a2, b2, c \div 2)
<1> DEFINE m == Len(a)
           q == c \div 2
<1>1. m \in Nat /\ Len(b) = m
  BY DEF Twins
<1>2. Len(a2) = Len(b2)
  BY <1>1 DEF Above
<1>3. ASSUME NEW i \in Nat, i < Len(a2), i # q PROVE a2[i + 1] = b2[i + 1]
  <2>1. 2 * i < m /\ a2[i + 1] = Merged(a, i)
    BY <1>3, AboveIsMerged
  <2>2. b2[i + 1] = Merged(b, i)
    BY <1>1, <1>2, <1>3, AboveIsMerged
  <2>3. 2 * i \in Nat /\ 2 * i # c /\ 2 * i + 1 \in Nat /\ 2 * i + 1 # c
        /\ (2 * i + 1) + 1 = 2 * i + 2
    <3>1. c = 2 * q \/ c = 2 * q + 1
      BY HalfFacts
    <3>2. q \in Nat
      BY HalfFacts
    <3> HIDE DEF q
    <3>3. QED
      BY <1>3, <3>1, <3>2
  <2>4. a[2 * i + 1] = b[2 * i + 1]
    BY <2>1, <2>3 DEF Twins
  <2>5. 2 * i + 1 < m => a[2 * i + 2] = b[2 * i + 2]
    <3> DEFINE j == 2 * i + 1
    <3>1. j \in Nat /\ j # c /\ j + 1 = 2 * i + 2
      BY <2>3
    <3> HIDE DEF j
    <3>2. j < m => a[j + 1] = b[j + 1]
      BY <3>1 DEF Twins
    <3>3. QED
      BY <3>1, <3>2 DEF j
  <2> HIDE DEF m
  <2>6. QED
    BY <1>1, <2>1, <2>2, <2>4, <2>5 DEF Merged, m
<1>4. QED
  BY <1>2, <1>3 DEF Twins

(* One step of verify_merkle_path, with a sibling of b, from the node of a *)
(* to the node above it.                                                   *)
StepUp(sibling, node, c) ==
  IF sibling = ZeroHash THEN node
  ELSE IF c % 2 = 1 THEN HashParent(sibling, node) ELSE HashParent(node, sibling)

LEMMA StepUpIs ==
  ASSUME NEW a, NEW b, NEW c \in Nat, Twins(a, b, c), Len(a) \in Nat,
         c < Len(a), AllHashes(b), NEW a2, Above(a2, a)
  PROVE  /\ c \div 2 < Len(a2)
         /\ a2[(c \div 2) + 1] = StepUp(SiblingAt(b, c), a[c + 1], c)
<1> DEFINE m == Len(a)
           q == c \div 2
           r == c % 2
<1>1. m \in Nat /\ Len(b) = m /\ c < m
  BY DEF Twins
<1>2. q \in Nat /\ r \in 0..1 /\ c = 2 * q + r
  BY HalfFacts
<1>3. q < Len(a2) /\ a2[q + 1] = Merged(a, q)
  <2>1. 2 * q < Len(a)
    <3> HIDE DEF q, r
    <3> QED BY <1>1, <1>2
  <2> HIDE DEF q
  <2>2. QED
    BY <1>2, <2>1, AboveIsMerged
<1>4. ZeroHash.tag # 0
  BY DEF ZeroHash
<1> HIDE DEF m, q, r
<1>5. ASSUME NEW i \in Nat, i < m, i # c
      PROVE  b[i + 1] = a[i + 1] /\ b[i + 1] # ZeroHash
  BY <1>1, <1>4, <1>5 DEF Twins, AllHashes, m
<1>6. CASE r = 1
  <2>1. 2 * q \in Nat /\ 2 * q < m /\ 2 * q # c /\ 2 * q + 1 < m
        /\ c - 1 = 2 * q /\ c + 1 = 2 * q + 2
    BY <1>1, <1>2, <1>6
  <2>2. SiblingIndex(c) = 2 * q
    BY <1>6, <2>1 DEF SiblingIndex, r
  <2>3. SiblingAt(b, c) = b[2 * q + 1]
    BY <1>1, <2>1, <2>2 DEF SiblingAt
  <2>4. b[2 * q + 1] = a[2 * q + 1] /\ b[2 * q + 1] # ZeroHash
    BY <1>5, <2>1
  <2>5. Merged(a, q) = HashParent(a[2 * q + 1], a[2 * q + 2])
    BY <2>1 DEF Merged, m
  <2>6. StepUp(SiblingAt(b, c), a[c + 1], c) = HashParent(a[2 * q + 1], a[2 * q + 2])
    BY <1>6, <2>1, <2>3, <2>4 DEF StepUp, r
  <2>7. QED
    BY <1>3, <2>5, <2>6 DEF q
<1>7. CASE r = 0 /\ c + 1 < m
  <2>1. c + 1 \in Nat /\ c + 1 # c /\ c = 2 * q /\ 2 * q + 1 < m
        /\ (c + 1) + 1 = 2 * q + 2 /\ c + 1 = 2 * q + 1
    BY <1>1, <1>2, <1>7
  <2>2. SiblingIndex(c) = c + 1
    BY <1>7 DEF SiblingIndex, r
  <2>3. SiblingAt(b, c) = b[(c + 1) + 1]
    BY <1>1, <1>7, <2>2 DEF SiblingAt
  <2>4. b[(c + 1) + 1] = a[(c + 1) + 1] /\ b[(c + 1) + 1] # ZeroHash
    BY <1>5, <1>7, <2>1
  <2>5. Merged(a, q) = HashParent(a[2 * q + 1], a[2 * q + 2])
    BY <2>1 DEF Merged, m
  <2>6. StepUp(SiblingAt(b, c), a[c + 1], c) = HashParent(a[c + 1], a[(c + 1) + 1])
    BY <1>7, <2>3, <2>4 DEF StepUp, r
  <2>7. QED
    BY <1>3, <2>1, <2>5, <2>6 DEF q
<1>8. CASE r = 0 /\ ~(c + 1 < m)
  <2>1. c = 2 * q /\ ~(2 * q + 1 < m) /\ c + 1 = 2 * q + 1
    BY <1>1, <1>2, <1>8
  <2>2. SiblingIndex(c) = c + 1
    BY <1>8 DEF SiblingIndex, r
  <2>3. SiblingAt(b, c) = ZeroHash
    BY <1>1, <1>8, <2>2 DEF SiblingAt
  <2>4. Merged(a, q) = a[2 * q + 1]
    BY <2>1 DEF Merged, m
  <2>5. StepUp(SiblingAt(b, c), a[c + 1], c) = a[c + 1]
    BY <2>3 DEF StepUp
  <2>6. QED
    BY <1>3, <2>1, <2>4, <2>5 DEF q
<1>9. QED
  BY <1>2, <1>6, <1>7, <1>8

Quotients(c, w) == c \div w \in Nat /\ (c \div w) \div 2 = c \div (2 * w)

LEMMA HalfOfQuotient ==
  ASSUME NEW c \in Nat, NEW w \in Nat \ {0}
  PROVE  Quotients(c, w)
<1> DEFINE d == c \div w
           e == c % w
           q == d \div 2
           r == d % 2
<1>1. d \in Nat /\ e \in 0..(w - 1) /\ c = d * w + e
  BY Division
<1> HIDE DEF d, e
<1>2. q \in Nat /\ r \in 0..1 /\ d = 2 * q + r
  BY <1>1, HalfFacts
<1> HIDE DEF q, r
<1>3. (2 * q) * w = q * (2 * w) /\ d * w = (2 * q) * w + r * w
  BY <1>2
<1>4. r * w + e \in 0..(2 * w - 1) /\ r * w \in Nat
  BY <1>1, <1>2
<1>5. c = q * (2 * w) + (r * w + e)
  <2> DEFINE x == d * w
             x1 == (2 * q) * w
             x0 == r * w
             y == q * (2 * w)
  <2>1. x1 \in Nat /\ x0 \in Nat /\ e \in Nat
    BY <1>1, <1>2
  <2>2. c = x + e /\ x = x1 + x0 /\ x1 = y
    BY <1>1, <1>3
  <2> HIDE DEF x, x1, x0, y
  <2>3. c = y + (x0 + e)
    BY <2>1, <2>2
  <2>4. QED
    BY <2>3 DEF x0, y
<1>6. 2 * w \in Nat \ {0}
  OBVIOUS
<1>7. (q * (2 * w) + (r * w + e)) \div (2 * w) = q
  <2> DEFINE x == 2 * w
             y == r * w + e
  <2>1. x \in Nat \ {0} /\ y \in 0..(x - 1)
    BY <1>4, <1>6
  <2> HIDE DEF x, y
  <2>2. (q * x + y) \div x = q
    BY <1>2, <2>1, DivisionIs
  <2>3. QED
    BY <2>2 DEF x, y
<1>8. QED
  BY <1>1, <1>5, <1>7 DEF d, q, Quotients

PathStep(p, node, i) == StepUp(p.siblings[i], node, p.chunk \div Pow2[i - 1])
Pathing == INSTANCE Recursion WITH Step <- PathStep

RunsUp(up, hash, chunk, siblings, h) ==
  /\ PathRoot(hash, chunk, siblings) = up[h]
  /\ up[0] = hash
  /\ \A i \in 1..h : up[i] = StepUp(siblings[i], up[i - 1],
                                    chunk \div Pow2[i - 1])

LEMMA PathRootRuns ==
  ASSUME NEW hash, NEW chunk, NEW siblings, NEW h \in Nat, h = Len(siblings)
  PROVE  \E up : RunsUp(up, hash, chunk, siblings, h)
<1> DEFINE p == [chunk |-> chunk, siblings |-> siblings]
           up == CHOOSE g : g = [i \in 0..h |->
                   IF i = 0 THEN hash ELSE PathStep(p, g[i - 1], i)]
<1>1. PathRoot(hash, chunk, siblings) = up[h]
  BY DEF PathRoot, PathStep, StepUp
<1>2. Pathing!IsRecursion(up, p, hash, h)
  BY DEF Pathing!IsRecursion
<1>3. \A node, i : PathStep(p, node, i)
                     = StepUp(siblings[i], node, chunk \div Pow2[i - 1])
  BY DEF PathStep
<1> HIDE DEF up, p
<1>4. up[0] = hash /\ \A i \in 1..h : up[i] = PathStep(p, up[i - 1], i)
  BY <1>2, Pathing!RecursionRuns
<1>5. RunsUp(up, hash, chunk, siblings, h)
  BY <1>1, <1>3, <1>4 DEF RunsUp
<1>6. QED
  BY <1>5

(* From the hash of a chunk of other data the path of that chunk in data   *)
(* leads to the root of other, if they have all other chunks in common.    *)
LEMMA PathFollows ==
  ASSUME NEW data, Len(data) \in Nat, NEW other, Len(other) = Len(data),
         NEW n, n = NumChunks(Len(data)), NEW chunk \in Nat, chunk < n,
         \A i \in Nat : i < n /\ i # chunk => Leaf(other, i) = Leaf(data, i)
  PROVE  PathRoot(Leaf(other, chunk), chunk, MerklePath(data, chunk))
           = RefRoot(other)
<1> DEFINE h == TreeDepth(n)
           r == Levels(data)
           o == Levels(other)
           s == MerklePath(data, chunk)
           at(k) == chunk \div Pow2[k]
<1>1. n \in Nat \ {0}
  BY NumChunksIs
<1>2. h \in Nat /\ AreLevels(r, ChunkHashes(data), h)
      /\ AreLevels(o, ChunkHashes(other), h)
  BY <1>1, LevelsAre
<1>3. Len(s) = h /\ \A i \in 1..h : s[i] = SiblingAt(r[i - 1], at(i - 1))
  BY PathIs
<1>4. o[h][1] = RefRoot(other)
  BY TopIsRoot
<1>5. /\ r[0] = ChunkHashes(data) /\ o[0] = ChunkHashes(other)
      /\ Len(r[0]) = n /\ Len(o[0]) = n
      /\ \A i \in 0..(n - 1) : r[0][i + 1] = Leaf(data, i) /\ o[0][i + 1] = Leaf(other, i)
  BY <1>1, <1>2, ChunkHashesAre DEF AreLevels
<1>6. \A k \in 0..h : Len(r[k]) \in Nat /\ Len(o[k]) \in Nat
  BY <1>2, LenProperties DEF AreLevels, IsSeq
<1>7. ASSUME NEW k \in Nat
      PROVE  at(k) \in Nat /\ at(k) \div 2 = at(k + 1)
  <2> DEFINE w == Pow2[k]
  <2>0. w \in Nat /\ w > 0 /\ Pow2[k + 1] = 2 * w
    BY Pow2Facts
  <2> HIDE DEF w
  <2>1. w \in Nat \ {0} /\ Pow2[k + 1] = 2 * w
    BY <2>0
  <2>2. Quotients(chunk, w)
    BY <2>1, HalfOfQuotient
  <2>3. QED
    BY <2>1, <2>2 DEF w, Quotients
<1>8. at(0) = chunk
  BY Pow2Equation
<1> HIDE DEF h, r, o, s, at
<1>9. PICK up : RunsUp(up, Leaf(other, chunk), chunk, s, h)
  <2>1. h = Len(s)
    BY <1>3
  <2>2. QED
    BY <1>2, <2>1, PathRootRuns
<1>10. /\ PathRoot(Leaf(other, chunk), chunk, s) = up[h]
      /\ up[0] = Leaf(other, chunk)
      /\ \A i \in 1..h : up[i] = StepUp(s[i], up[i - 1],
                                        chunk \div Pow2[i - 1])
  BY <1>9 DEF RunsUp
<1>11. \A i \in 1..h : up[i] = StepUp(SiblingAt(r[i - 1], at(i - 1)), up[i - 1],
                                      at(i - 1))
  BY <1>3, <1>10 DEF at
<1> DEFINE Good(k) == /\ at(k) < Len(o[k])
                      /\ Twins(o[k], r[k], at(k))
                      /\ AllHashes(r[k])
                      /\ up[k] = o[k][at(k) + 1]
           T == {k \in Nat : k <= h => Good(k)}
<1>12. 0 \in T
  <2>1. chunk \in 0..(n - 1) /\ \A i \in Nat : i < n => i \in 0..(n - 1)
    BY <1>1
  <2>2. Twins(o[0], r[0], chunk)
    BY <1>5, <2>1 DEF Twins
  <2>3. AllHashes(r[0])
    <3>1. \A i : Leaf(data, i).tag = 0
      BY DEF Leaf, Hash
    <3>2. QED
      BY <1>5, <2>1, <3>1 DEF AllHashes
  <2>4. up[0] = o[0][chunk + 1]
    BY <1>5, <1>10, <2>1
  <2>5. QED
    BY <1>5, <1>8, <2>2, <2>3, <2>4
<1>13. ASSUME NEW k \in Nat, k \in T PROVE k + 1 \in T
  <2>0. SUFFICES ASSUME k + 1 <= h PROVE Good(k + 1)
    <3> HIDE DEF Good
    <3> QED OBVIOUS
  <2> DEFINE c == at(k)
             a == o[k]
             b == r[k]
             a2 == o[k + 1]
             b2 == r[k + 1]
  <2>1. k <= h /\ k \in 0..h /\ k + 1 \in 1..h /\ (k + 1) - 1 = k
    BY <1>2, <2>0
  <2>2. /\ c < Len(a) /\ Twins(a, b, c) /\ AllHashes(b)
        /\ up[k] = a[c + 1]
    BY <1>13, <2>1
  <2>3. Len(a) \in Nat /\ Len(b) \in Nat /\ c \in Nat /\ c \div 2 = at(k + 1)
    BY <1>6, <1>7, <2>1
  <2>4. Above(a2, a) /\ Above(b2, b)
    <3>1. Above(o[k + 1], o[(k + 1) - 1]) /\ Above(r[k + 1], r[(k + 1) - 1])
      BY <1>2, <2>1 DEF AreLevels
    <3>2. QED
      BY <2>1, <3>1
  <2>5. up[k + 1] = StepUp(SiblingAt(b, c), up[k], c)
    <3>1. up[k + 1] = StepUp(SiblingAt(r[(k + 1) - 1], at((k + 1) - 1)),
                             up[(k + 1) - 1], at((k + 1) - 1))
      BY <1>11, <2>1
    <3>2. QED
      BY <2>1, <3>1
  <2> HIDE DEF a, b, c, a2, b2
  <2>6. Twins(a2, b2, c \div 2)
    BY <2>2, <2>3, <2>4, TwinsRise
  <2>7. AllHashes(b2)
    BY <2>2, <2>3, <2>4, HashesRise
  <2>8. c \div 2 < Len(a2) /\ a2[(c \div 2) + 1] = StepUp(SiblingAt(b, c), a[c + 1], c)
    BY <2>2, <2>3, <2>4, StepUpIs
  <2>9. QED
    BY <2>2, <2>3, <2>5, <2>6, <2>7, <2>8 DEF a2, b2
<1>14. Nat \subseteq T
  <2> HIDE DEF T
  <2> QED BY <1>12, <1>13, SetInduction
<1>15. Good(h)
  <2>1. h \in T /\ h <= h
    <3> HIDE DEF T
    <3> QED BY <1>2, <1>14
  <2> HIDE DEF Good
  <2>2. QED
    BY <2>1
<1>16. Len(o[h]) = 1 /\ at(h) \in Nat
  BY <1>2, <1>7 DEF AreLevels
<1>17. at(h) = 0
  <2>1. at(h) < 1
    BY <1>15, <1>16
  <2>2. QED
    BY <1>16, <2>1
<1>18. up[h] = o[h][1]
  <2>1. at(h) + 1 = 1
    BY <1>17
  <2>2. up[h] = o[h][at(h) + 1]
    BY <1>15
  <2>3. QED
    BY <2>1, <2>2
<1>19. QED
  BY <1>4, <1>10, <1>18 DEF s

-----------------------------------------------------------------------------
(* Slices.  Where a chunk ends.                                            *)
LEMMA ChunkEndIs ==
  ASSUME NEW len \in Nat, NEW i \in Nat, NEW e, e = ChunkEnd(len, i)
  PROVE  /\ i * ChunkLen \in Nat /\ e \in Nat
         /\ e <= len /\ e <= i * ChunkLen + ChunkLen
         /\ e = len \/ e = i * ChunkLen + ChunkLen
<1>1. ChunkLen \in Nat \ {0}
  BY StreamAssumption
<1>2. i * ChunkLen \in Nat /\ (i + 1) * ChunkLen = i * ChunkLen + ChunkLen
  BY <1>1, Multiples
<1> DEFINE x == i * ChunkLen
           y == (i + 1) * ChunkLen
<1>3. x \in Nat /\ y = x + ChunkLen /\ y \in Int /\ len \in Int
  BY <1>1, <1>2
<1> HIDE DEF x, y
<1>4. Min({y, len}) = IF y <= len THEN y ELSE len
  BY <1>3, MinOfTwo
<1>5. e = IF y <= len THEN y ELSE len
  BY <1>4 DEF ChunkEnd, y
<1>6. QED
  BY <1>1, <1>3, <1>5 DEF x

(* A chunk inside the data is not empty.                                   *)
LEMMA ChunkIsFull ==
  ASSUME NEW len \in Nat, NEW i \in Nat, len > 0, i < NumChunks(len)
  PROVE  i * ChunkLen < ChunkEnd(len, i)
<1> DEFINE n == NumChunks(len)
           e == ChunkEnd(len, i)
           x == i * ChunkLen
           z == (n - 1) * ChunkLen
<1>1. ChunkLen \in Nat \ {0}
  BY StreamAssumption
<1>2. n \in Nat \ {0} /\ z < len
  BY NumChunksIs
<1>3. x \in Nat /\ (e = len \/ e = x + ChunkLen)
  BY ChunkEndIs
<1>4. z \in Nat /\ x <= z
  <2> DEFINE m == n - 1
  <2>1. m \in Nat /\ i <= m
    BY <1>2
  <2> HIDE DEF m, n
  <2>2. m * ChunkLen \in Nat /\ i * ChunkLen <= m * ChunkLen
    BY <1>1, <2>1, Multiples
  <2>3. QED
    BY <2>2 DEF m
<1> HIDE DEF n, e, x, z
<1>5. x < e
  BY <1>1, <1>2, <1>3, <1>4
<1>6. QED
  BY <1>5 DEF e, x

IsPatched(S, data, start, slice, patched) ==
  /\ patched \in Seq(S) /\ Len(patched) = Len(data)
  /\ \A i \in 1..Len(slice) : patched[start + i] = slice[i]
  /\ \A i \in 1..Len(data) :
       i <= start \/ i > start + Len(slice) => patched[i] = data[i]

LEMMA PatchedIs ==
  ASSUME NEW S, NEW data \in Seq(S), NEW start \in Nat, NEW slice \in Seq(S),
         NEW end, end = start + Len(slice), end <= Len(data)
  PROVE  IsPatched(S, data, start, slice, Patched(data, start, slice))
<1> DEFINE patched == Patched(data, start, slice)
           n == Len(data)
           m == Len(slice)
           f(i) == IF i > start /\ i <= start + m THEN slice[i - start] ELSE data[i]
<1>1. n \in Nat /\ m \in Nat /\ start + m <= n
  BY LenProperties
<1>2. \A i \in 1..n : data[i] \in S
  BY ElementOfSeq
<1>3. \A i \in 1..m : slice[i] \in S
  BY ElementOfSeq
<1>4. patched = [i \in 1..n |-> f(i)]
  BY DEF Patched
<1> HIDE DEF patched, n, m
<1>5. ASSUME NEW i \in 1..n PROVE f(i) \in S
  <2>1. CASE i > start /\ i <= start + m
    <3>1. i - start \in 1..m
      BY <1>1, <2>1
    <3>2. QED
      BY <1>3, <2>1, <3>1
  <2>2. CASE ~(i > start /\ i <= start + m)
    BY <1>2, <2>2
  <2>3. QED
    BY <2>1, <2>2
<1>6. ASSUME NEW i \in 1..m PROVE patched[start + i] = slice[i]
  <2>1. start + i \in 1..n /\ start + i > start /\ start + i <= start + m
        /\ (start + i) - start = i
    BY <1>1
  <2>2. patched[start + i] = f(start + i)
    BY <1>4, <2>1
  <2>3. QED
    BY <2>1, <2>2
<1>7. ASSUME NEW i \in 1..n, i <= start \/ i > start + m
      PROVE  patched[i] = data[i]
  <2>1. ~(i > start /\ i <= start + m)
    BY <1>1, <1>7
  <2>2. patched[i] = f(i)
    BY <1>4
  <2>3. QED
    BY <2>1, <2>2
<1>8. patched \in [1..n -> S]
  <2> HIDE DEF f
  <2> QED BY <1>4, <1>5
<1>9. patched \in Seq(S) /\ Len(patched) = n
  BY <1>1, <1>8
<1>10. QED
  BY <1>6, <1>7, <1>9 DEF patched, n, m, IsPatched

IsWindow(s, start, end, w) == Bytes(s, start, end) = w

LEMMA WindowHolds ==
  ASSUME NEW S, NEW w \in Seq(S), NEW s, NEW start \in Nat, NEW end,
         end = start + Len(w), \A i \in 1..Len(w) : s[start + i] = w[i]
  PROVE  IsWindow(s, start, end, w)
<1> DEFINE n == Len(w)
           a == 1
           a2 == start + a
<1>1. n \in Nat /\ a \in Int /\ n \in Int /\ start \in Int /\ a2 \in Int /\ end \in Int
      /\ a2 = start + a /\ end = start + n
  BY LenProperties
<1>2. \A i \in a..n : w[i] \in S /\ s[start + i] = w[i]
  BY ElementOfSeq
<1>3. SubSeq(w, a, n) = w
  BY WholeWindow
<1> HIDE DEF n, a, a2
<1>4. SubSeq(s, a2, end) = SubSeq(w, a, n)
  BY <1>1, <1>2, SubSeqSame
<1>5. QED
  BY <1>3, <1>4 DEF a, a2, IsWindow, Bytes

(* Data with one chunk replaced: the other chunks keep their hashes.       *)
Replaced(data, chunk, slice, patched) ==
  /\ Len(patched) = Len(data)
  /\ Leaf(patched, chunk) = Hash(slice)
  /\ \A i \in Nat : i # chunk => Leaf(patched, i) = Leaf(data, i)

LEMMA PatchedChunks ==
  ASSUME NEW S, NEW data \in Seq(S), NEW chunk \in Nat, NEW start, NEW end,
         start = chunk * ChunkLen, end = ChunkEnd(Len(data), chunk), start < end,
         NEW slice \in Seq(S), Len(slice) = end - start,
         NEW patched, patched = Patched(data, start, slice)
  PROVE  Replaced(data, chunk, slice, patched)
<1> DEFINE n == Len(data)
           m == Len(slice)
<1>1. ChunkLen \in Nat \ {0}
  BY StreamAssumption
<1>2. n \in Nat /\ m \in Nat
  BY LenProperties
<1>3. start \in Nat /\ end \in Nat /\ end <= n /\ end <= start + ChunkLen
  BY <1>2, ChunkEndIs
<1>4. start + m = end /\ m = end - start
  BY <1>2, <1>3
<1>5. /\ patched \in Seq(S) /\ Len(patched) = n
      /\ \A i \in 1..m : patched[start + i] = slice[i]
      /\ \A i \in 1..n : i <= start \/ i > start + m => patched[i] = data[i]
  <2>1. IsPatched(S, data, start, slice, patched)
    BY <1>3, <1>4, PatchedIs
  <2>2. QED
    BY <2>1 DEF IsPatched
<1>6. \A i \in 1..n : data[i] \in S
  BY ElementOfSeq
<1>7. Leaf(patched, chunk) = Hash(Bytes(patched, start, end))
  BY <1>5 DEF Leaf
<1>8. Bytes(patched, start, end) = slice
  <2>1. end = start + Len(slice) /\ \A i \in 1..Len(slice) : patched[start + i] = slice[i]
    BY <1>4, <1>5
  <2>2. IsWindow(patched, start, end, slice)
    BY <1>3, <2>1, WindowHolds
  <2>3. QED
    BY <2>2 DEF IsWindow
<1> HIDE DEF n, m
<1>9. Leaf(patched, chunk) = Hash(slice)
  BY <1>7, <1>8
<1>10. ASSUME NEW i \in Nat, i # chunk
       PROVE  Leaf(patched, i) = Leaf(data, i)
  <2> DEFINE a == i * ChunkLen
             b == ChunkEnd(n, i)
  <2>1. a \in Nat /\ b \in Nat /\ b <= n /\ b <= a + ChunkLen
    BY <1>2, ChunkEndIs
  <2>2. a + ChunkLen <= start \/ start + ChunkLen <= a
    <3>1. CASE i < chunk
      <4>1. i * ChunkLen + ChunkLen <= chunk * ChunkLen
        BY <1>1, <3>1, Multiples
      <4>2. QED
        BY <4>1
    <3>2. CASE chunk < i
      <4>1. chunk * ChunkLen + ChunkLen <= i * ChunkLen
        BY <1>1, <3>2, Multiples
      <4>2. QED
        BY <4>1
    <3>3. QED
      BY <1>10, <3>1, <3>2
  <2> HIDE DEF a, b
  <2>3. ASSUME NEW j \in (a + 1)..b
        PROVE  data[j] \in S /\ patched[0 + j] = data[j]
    <3>1. j \in 1..n /\ 0 + j = j /\ (j <= start \/ j > start + m)
      BY <1>1, <1>2, <1>3, <1>4, <2>1, <2>2
    <3>2. QED
      BY <1>5, <1>6, <3>1
  <2>4. SubSeq(patched, a + 1, b) = SubSeq(data, a + 1, b)
    <3> DEFINE a1 == a + 1
    <3>1. a1 \in Int /\ b \in Int /\ 0 \in Int /\ a1 = 0 + a1 /\ b = 0 + b
      BY <2>1
    <3>2. \A j \in a1..b : data[j] \in S /\ patched[0 + j] = data[j]
      BY <2>3
    <3> HIDE DEF a1
    <3>3. SubSeq(patched, a1, b) = SubSeq(data, a1, b)
      BY <3>1, <3>2, SubSeqSame
    <3>4. QED
      BY <3>3 DEF a1
  <2>5. QED
    BY <1>5, <2>4 DEF Leaf, Bytes, a, b, n
<1>11. QED
  BY <1>5, <1>9, <1>10 DEF n, Replaced

(* A slice of a whole chunk is accepted if the proof names the root that   *)
(* is expected, and if the data with the slice in place of the chunk has   *)
(* this root.                                                              *)
Vouched(data, p, slice, expected) ==
  p.root = expected /\ RefRoot(Patched(data, p.start, slice)) = expected

LEMMA SliceOK ==
  ASSUME NEW data \in Seq(StreamBytes), NEW p, IsProofOf(p, data),
         WholeChunk(p.start, p.end, p.len),
         NEW slice \in Seq(StreamBytes), Len(slice) = p.end - p.start,
         NEW expected
  PROVE  SliceStatus(expected, p.start, p.end, slice, p) = "OK"
           <=> Vouched(data, p, slice, expected)
<1> DEFINE n == NumChunks(Len(data))
           chunk == p.chunk
           start == p.start
           end == p.end
           patched == Patched(data, start, slice)
<1>1. ChunkLen \in Nat \ {0} /\ Len(data) \in Nat
  BY StreamAssumption, LenProperties
<1>2. /\ p.format = "proof" /\ p.len = Len(data)
      /\ start \in Nat /\ end \in Nat /\ start < end /\ end <= Len(data)
      /\ chunk = start \div ChunkLen /\ p.siblings = MerklePath(data, chunk)
      /\ p.depth = Len(p.siblings)
  BY DEF IsProofOf
<1>3. start = chunk * ChunkLen /\ end = ChunkEnd(Len(data), chunk)
  BY <1>2 DEF WholeChunk
<1>4. chunk \in Nat
  <2> HIDE DEF chunk, start
  <2> QED BY <1>1, <1>2
<1>5. chunk < n
  <2>1. n \in Nat /\ Len(data) <= n * ChunkLen
    BY <1>1, NumChunksIs
  <2> HIDE DEF n, chunk, start, end
  <2>2. SUFFICES ASSUME n <= chunk PROVE FALSE
    BY <1>4, <2>1
  <2>3. n * ChunkLen \in Nat /\ n * ChunkLen <= chunk * ChunkLen
    BY <1>1, <1>4, <2>1, <2>2, Multiples
  <2> DEFINE len == Len(data)
             x == n * ChunkLen
  <2>4. x \in Nat /\ len \in Nat /\ len <= x /\ x <= start /\ start < end /\ end <= len
    BY <1>1, <1>2, <1>3, <2>1, <2>3
  <2> HIDE DEF len, x
  <2>5. QED
    BY <1>2, <2>4
<1>6. /\ Len(patched) = Len(data)
      /\ Leaf(patched, chunk) = Hash(slice)
      /\ \A i \in Nat : i # chunk => Leaf(patched, i) = Leaf(data, i)
  <2>1. Len(slice) = end - start
    OBVIOUS
  <2> HIDE DEF chunk, start, end, patched
  <2>2. patched = Patched(data, start, slice)
    BY DEF patched
  <2>3. Replaced(data, chunk, slice, patched)
    BY <1>2, <1>3, <1>4, <2>1, <2>2, PatchedChunks
  <2>4. QED
    BY <2>3 DEF Replaced
<1>7. PathRoot(Hash(slice), chunk, p.siblings) = RefRoot(patched)
  <2> HIDE DEF n, chunk, patched
  <2>1. n = NumChunks(Len(data))
    BY DEF n
  <2>2. \A i \in Nat : i < n /\ i # chunk => Leaf(patched, i) = Leaf(data, i)
    BY <1>6
  <2>3. PathRoot(Leaf(patched, chunk), chunk, MerklePath(data, chunk))
          = RefRoot(patched)
    BY <1>1, <1>4, <1>5, <1>6, <2>1, <2>2, PathFollows
  <2>4. QED
    BY <1>2, <1>6, <2>3
<1>8. SubSeq(p.siblings, 1, p.depth) = p.siblings
  <2>1. IsSeq(p.siblings)
    BY <1>1, <1>2, PathIs
  <2>2. PICK S : p.siblings \in Seq(S)
    BY <2>1 DEF IsSeq
  <2>3. QED
    BY <1>2, <2>2, WholeWindow
<1>9. p.depth \in Nat
  BY <1>1, <1>2, PathIs, LenProperties DEF IsSeq
<1>10. PathRoot(Hash(slice), chunk, SubSeq(p.siblings, 1, p.depth)) = RefRoot(patched)
  BY <1>7, <1>8
<1> DEFINE up == PathRoot(Hash(slice), p.chunk, SubSeq(p.siblings, 1, p.depth))
<1>11. /\ ~(p.format \in {"short", "foreign"}) /\ ~(p.format = "version")
       /\ ~(p.start # p.start \/ p.end # p.end)
       /\ ~(Len(slice) # p.end - p.start)
       /\ ~(Len(p.siblings) < p.depth)
       /\ ~(p.chunk # p.start \div ChunkLen)
  <2>1. ~(Len(p.siblings) < p.depth)
    BY <1>2, <1>9
  <2>2. QED
    BY <1>2, <2>1
<1>12. SliceStatus(expected, p.start, p.end, slice, p)
         = IF p.root # expected THEN "VERIFY"
           ELSE IF up # expected THEN "VERIFY" ELSE "OK"
  <2>1. CASE p.root # expected
    BY <1>11, <2>1 DEF SliceStatus
  <2>2. CASE p.root = expected /\ up # expected
    BY <1>11, <2>2 DEF SliceStatus
  <2>3. CASE p.root = expected /\ up = expected
    BY <1>11, <2>3 DEF SliceStatus
  <2>4. QED
    <3> HIDE DEF up
    <3> QED BY <2>1, <2>2, <2>3
<1>13. up = RefRoot(patched)
  BY <1>10
<1> HIDE DEF up, patched
<1>14. QED
  BY <1>12, <1>13 DEF Vouched, patched

LEMMA InvVerdict == StreamInv => SliceVerdict
<1> SUFFICES ASSUME StreamInv, proof # NoProof,
                    WholeChunk(proof.start, proof.end, proof.len),
                    NEW f \in Files, Len(f) = proof.len,
                    NEW slice, slice = Bytes(f, proof.start, proof.end)
             PROVE  SliceStatus(root, proof.start, proof.end, slice, proof) = "OK"
                      <=> Vouched(origin, proof, slice, root)
  BY DEF SliceVerdict, Vouched
<1>1. origin \in Seq(StreamBytes) /\ IsProofOf(proof, origin)
  BY DEF StreamInv, ProofInv
<1>2. proof.start \in Nat /\ proof.end \in Nat /\ proof.start < proof.end
      /\ proof.end <= Len(origin) /\ proof.len = Len(origin)
  BY <1>1 DEF IsProofOf
<1>3. f \in Seq(StreamBytes) /\ proof.start <= proof.end /\ proof.end <= Len(f)
  BY <1>2, FilesAre
<1>4. IsSeqOf(slice, StreamBytes, proof.end - proof.start)
  BY <1>2, <1>3, BytesAre
<1>5. slice \in Seq(StreamBytes) /\ Len(slice) = proof.end - proof.start
  BY <1>4 DEF IsSeqOf
<1>6. QED
  BY <1>1, <1>5, SliceOK

(* verify_slice (blake4_stream.c:663-758) accepts a slice of a whole chunk *)
(* exactly if its proof names the root expected now and the file the proof *)
(* was made from, with the slice in place of that chunk, has this root:    *)
(* for any chunk length and number of chunks, however nodes are promoted   *)
(* on the way up, whatever was encoded or hashed since extract_slice.      *)
THEOREM SlicesVouch == Spec => []SliceVerdict
BY StreamInvariant, InvVerdict, PTL

-----------------------------------------------------------------------------
(* A file and its slices.  Data with a slice of its own put back.          *)
PutBack(data, start, end) == Patched(data, start, Bytes(data, start, end)) = data

LEMMA PatchedBack ==
  ASSUME NEW S, NEW data \in Seq(S), NEW start \in Nat, NEW end \in Nat,
         start <= end, end <= Len(data)
  PROVE  PutBack(data, start, end)
<1> DEFINE slice == Bytes(data, start, end)
           patched == Patched(data, start, slice)
           n == Len(data)
           m == end - start
<1>1. /\ slice \in Seq(S) /\ Len(slice) = m
      /\ \A i \in 1..m : slice[i] = data[start + i]
  BY BytesIs
<1>2. n \in Nat /\ m \in Nat /\ end = start + m /\ end <= n
  BY LenProperties
<1> HIDE DEF slice, m
<1>3. /\ patched \in Seq(S) /\ Len(patched) = n
      /\ \A i \in 1..m : patched[start + i] = slice[i]
      /\ \A i \in 1..n : i <= start \/ i > start + m => patched[i] = data[i]
  <2>1. end = start + Len(slice)
    BY <1>1, <1>2
  <2>2. IsPatched(S, data, start, slice, patched)
    BY <1>1, <2>1, PatchedIs
  <2>3. QED
    BY <1>1, <2>2 DEF IsPatched
<1> HIDE DEF patched, n
<1>4. ASSUME NEW i \in 1..n PROVE patched[i] = data[i]
  <2>1. CASE i <= start \/ i > start + m
    BY <1>3, <2>1
  <2>2. CASE ~(i <= start \/ i > start + m)
    <3> DEFINE j == i - start
    <3>1. j \in 1..m /\ start + j = i
      BY <1>2, <2>2
    <3> HIDE DEF j
    <3>2. patched[start + j] = data[start + j]
      BY <1>1, <1>3, <3>1
    <3>3. QED
      BY <3>1, <3>2
  <2>3. QED
    BY <2>1, <2>2
<1>5. Len(data) = n
  BY DEF n
<1>6. patched = data
  BY <1>3, <1>4, <1>5, SeqEqual
<1>7. QED
  BY <1>6 DEF PutBack, patched, slice

(* Extraction and verification of one chunk of a file, both with the tree  *)
(* at hand.                                                                *)
ChunkVerifies(file, c) ==
  LET start == c * ChunkLen
      end == ChunkEnd(Len(file), c)
  IN  /\ ExtractStatus(tree, file, start, end, ProofSlots(Len(file))) = "OK"
      /\ SliceStatus(root, start, end, Bytes(file, start, end),
                     ExtractedProof(tree, file, start, end)) = "OK"

FileVouched(file) ==
  tree.len = Len(file) /\ tree.root = root /\ RefRoot(file) = root

LEMMA ChunkVerifiesIs ==
  ASSUME NEW file \in Files, Len(file) > 0, tree.format = "tree",
         NEW c \in Nat, c < NumChunks(Len(file))
  PROVE  ChunkVerifies(file, c) <=> FileVouched(file)
<1> DEFINE len == Len(file)
           start == c * ChunkLen
           end == ChunkEnd(len, c)
           slice == Bytes(file, start, end)
           room == ProofSlots(len)
           p == ExtractedProof(tree, file, start, end)
<1>1. file \in Seq(StreamBytes) /\ len \in Nat /\ ChunkLen \in Nat \ {0}
  BY FilesAre, LenProperties, StreamAssumption
<1>2. start \in Nat /\ end \in Nat /\ end <= len
  BY <1>1, ChunkEndIs
<1>3. start < end
  BY <1>1, ChunkIsFull
<1>4. room \in Nat
  <2>1. NumChunks(len) \in Nat \ {0}
    BY <1>1, NumChunksIs
  <2>2. TreeDepth(NumChunks(len)) \in Nat
    BY <2>1, LevelsAre
  <2>3. QED
    BY <2>2 DEF ProofSlots
<1>5. start \div ChunkLen = c
  <2>1. 0 \in 0..(ChunkLen - 1)
    BY <1>1
  <2>2. (c * ChunkLen + 0) \div ChunkLen = c
    BY <1>1, <2>1, DivisionIs
  <2>3. start + 0 = start
    BY <1>2
  <2>4. QED
    BY <2>2, <2>3
<1>6. /\ IsSeqOf(slice, StreamBytes, end - start)
      /\ PutBack(file, start, end)
  <2> HIDE DEF start, end
  <2>1. start <= end /\ end <= Len(file)
    BY <1>2, <1>3
  <2>2. IsSeqOf(Bytes(file, start, end), StreamBytes, end - start)
    BY <1>1, <1>2, <2>1, BytesAre
  <2>3. QED
    BY <1>1, <1>2, <2>1, <2>2, PatchedBack
<1>7. WholeChunk(start, end, len)
  BY <1>5 DEF WholeChunk
<1>8. /\ p.root = tree.root /\ p.len = len /\ p.start = start /\ p.end = end
  BY DEF ExtractedProof
<1>9. ChunkVerifies(file, c)
        <=> /\ ExtractStatus(tree, file, start, end, room) = "OK"
            /\ SliceStatus(root, start, end, slice, p) = "OK"
  BY DEF ChunkVerifies
<1>10. Patched(file, start, slice) = file
  BY <1>6 DEF PutBack
<1> HIDE DEF start, end, slice, room, p
<1>11. ExtractStatus(tree, file, start, end, room) = "OK" <=> tree.len = len
  <2>1. ~(start >= end \/ end > len) /\ ~(room < room)
    BY <1>1, <1>2, <1>3, <1>4
  <2>2. ~(tree.format \in {"short", "foreign"})
    OBVIOUS
  <2>3. room = ProofSlots(Len(file))
    BY DEF room
  <2>4. QED
    BY <2>1, <2>2, <2>3 DEF ExtractStatus
<1>12. ASSUME ExtractStatus(tree, file, start, end, room) = "OK"
       PROVE  SliceStatus(root, start, end, slice, p) = "OK"
                <=> tree.root = root /\ RefRoot(file) = root
  <2>1. IsProofOf(p, file)
    BY <1>2, <1>12, ExtractedIsProof DEF p
  <2>2. slice \in Seq(StreamBytes) /\ Len(slice) = p.end - p.start
    BY <1>6, <1>8 DEF IsSeqOf
  <2>3. WholeChunk(p.start, p.end, p.len)
    BY <1>7, <1>8
  <2>4. SliceStatus(root, p.start, p.end, slice, p) = "OK"
          <=> Vouched(file, p, slice, root)
    BY <1>1, <2>1, <2>2, <2>3, SliceOK
  <2>5. QED
    BY <1>8, <1>10, <2>4 DEF Vouched
<1>13. QED
  BY <1>9, <1>11, <1>12 DEF FileVouched

LEMMA FileAndSlices == FileAgreesWithSlices
<1> SUFFICES ASSUME tree.format = "tree", NEW file \in Files \ {<<>>}
             PROVE  FileStatus(root, tree, file, BuildTree(file).root) = "OK"
                      <=> EveryChunkVerifies(file)
  BY DEF FileAgreesWithSlices
<1> DEFINE n == NumChunks(Len(file))
<1>1. file \in Seq(StreamBytes) /\ Len(file) \in Nat /\ Len(file) > 0
  BY FilesAre, LenProperties, EmptySeq
<1>2. n \in Nat /\ 0 < n
  BY <1>1, NumChunksIs
<1>3. EveryChunkVerifies(file) <=> \A c \in 0..n - 1 : ChunkVerifies(file, c)
  BY DEF EveryChunkVerifies, ChunkVerifies
<1>4. \A c \in Nat : c < n => (ChunkVerifies(file, c) <=> FileVouched(file))
  BY <1>1, ChunkVerifiesIs
<1>5. BuildTree(file).root = RefRoot(file)
  BY <1>1, NodesAre
<1>6. FileStatus(root, tree, file, RefRoot(file)) = "OK" <=> FileVouched(file)
  BY DEF FileStatus, FileVouched
<1> HIDE DEF n
<1>7. 0 \in 0..n - 1 /\ \A c \in 0..n - 1 : c \in Nat /\ c < n
  BY <1>2
<1>8. QED
  BY <1>3, <1>4, <1>5, <1>6, <1>7

(* blake4_stream_verify (blake4_stream.c:775-806) accepts a file that is   *)
(* not empty with its tree exactly if extract_slice makes a proof of each  *)
(* of its chunks and verify_slice accepts every chunk with it: checking a  *)
(* file as a whole and chunk by chunk is the same, at any length.          *)
THEOREM FileIsItsSlices == Spec => []FileAgreesWithSlices
BY FileAndSlices, PTL
=============================================================================
