--------------------------- MODULE ParallelProofs ---------------------------
(***************************************************************************)
(* Proofs about ParallelHasher, for any number of threads, any lengths and *)
(* any inputs: its type invariant, that no memory is released under a      *)
(* worker, that no wakeup is lost, and that the threads implement the      *)
(* batch.                                                                  *)
(***************************************************************************)
EXTENDS ParallelHasher, BasicProofs, FiniteSetTheorems

-----------------------------------------------------------------------------
(* The states of a worker.  One that serves a unit has taken it, or will,  *)
(* or has finished it and says so; the others have nothing to do with any. *)
Locks == {"free", "caller", "worker"}

Resting(i) ==
  /\ work[i] = None /\ mine[i] = None
  /\ wpc[i] \in {"check", "asleep"}

Up(i) == Resting(i) /\ ~shutdown[i] /\ mutex[i] \in Locks

Down(i) ==
  /\ work[i] = None /\ mine[i] = None
  /\ wpc[i] \in {"check", "exited"}
  /\ shutdown[i] /\ mutex[i] \in Locks

Gone(i) ==
  /\ work[i] = None /\ mine[i] = None
  /\ wpc[i] = "none"
  /\ mutex[i] \in {"destroyed", "leaked"}

Destroyed(i) == Gone(i) /\ mutex[i] = "destroyed"

Answer(i) == ProcessChunks(units[i], key)

Posted(i) ==
  /\ ~shutdown[i] /\ mutex[i] \in Locks
  /\ \/ /\ work[i] = units[i] /\ mine[i] = None
        /\ wpc[i] = "check" /\ ~done[i]
     \/ /\ work[i] = None /\ mine[i] = units[i]
        /\ wpc[i] = "process" /\ ~done[i]
     \/ /\ work[i] = None /\ mine[i] = None
        /\ wpc[i] = "finish" /\ ~done[i] /\ results[i] = Answer(i)
     \/ Resting(i) /\ done[i] /\ results[i] = Answer(i)

-----------------------------------------------------------------------------
(* What the workers may be doing at each place of the caller.              *)
Serving == {"post", "await", "asleep", "collect"}

IdleInv ==
  pc = "idle" =>
    \A i \in Workers : IF alive THEN Up(i) ELSE Destroyed(i)

CreateInv ==
  pc = "create" =>
    /\ ~alive
    /\ \A i \in Workers : IF i < next THEN Up(i) ELSE Destroyed(i)

(* f is the worker that could not be created.                              *)
AbortInv ==
  pc = "abort" =>
    /\ ~alive
    /\ \E f \in next..NumThreads :
         /\ mutex[f] = "leaked"
         /\ \A i \in Workers : IF next <= i /\ i < f THEN Up(i) ELSE Gone(i)

AbortJoinInv ==
  pc = "abortJoin" =>
    /\ ~alive
    /\ \E f \in (next + 1)..NumThreads :
         /\ mutex[f] = "leaked"
         /\ \A i \in Workers :
              IF i = next THEN Down(i)
              ELSE IF next < i /\ i < f THEN Up(i) ELSE Gone(i)

StopInv ==
  pc = "stop" =>
    /\ alive /\ next \in Workers
    /\ \A i \in Workers : IF i < next THEN Down(i) ELSE Up(i)

JoinInv ==
  pc = "join" =>
    /\ alive
    /\ \A i \in Workers : IF i < next THEN Destroyed(i) ELSE Down(i)

ServeInv ==
  pc \in Serving =>
    /\ alive /\ initialized
    /\ input \in InputsAt(Len(message))
    /\ Len(message) + Len(input) <= MaxLen
    /\ GoesParallel(input)
    /\ units = Units(input, total_chunks)
    /\ pc # "collect" => next \in DOMAIN units
    /\ \A i \in Workers :
         IF i \in DOMAIN units /\ (pc = "post" => i < next)
         THEN Posted(i) ELSE Up(i)

(* The caller waits for the units in order.                                *)
DoneInv ==
  /\ pc \in {"await", "asleep"} =>
       \A i \in DOMAIN units : i < next => done[i]
  /\ pc = "asleep" => ~done[next]
  /\ pc = "collect" => \A i \in DOMAIN units : done[i]

UnitsInv == pc \notin Serving => units = <<>>

LockInv ==
  \A i \in Workers :
    /\ mutex[i] = "caller" =>
         i = next /\ pc \in {"post", "await", "abort", "stop"}
    /\ mutex[i] = "worker" => wpc[i] \in {"check", "finish"}

-----------------------------------------------------------------------------
(* The data.  A sequence of whatever elements is listed.                   *)
Listed(s) == s \in Seq({s[i] : i \in DOMAIN s})

BatchTypes ==
  /\ message \in Seq(DataBytes) /\ Len(message) <= MaxLen
  /\ total_chunks \in Nat
  /\ cv_stack_cap \in Nat \ {0}
  /\ Listed(cv_stack) /\ Len(cv_stack) <= cv_stack_cap

ThreadTypes ==
  /\ pc \in {"idle", "create", "abort", "abortJoin", "stop", "join", "post",
             "await", "asleep", "collect"}
  /\ next \in 1..(NumThreads + 1)
  /\ wpc \in [Workers -> {"none", "check", "asleep", "process", "finish",
                          "exited"}]
  /\ mutex \in [Workers -> {"free", "caller", "worker", "leaked",
                            "destroyed"}]
  /\ done \in [Workers -> BOOLEAN] /\ shutdown \in [Workers -> BOOLEAN]
  /\ work = [i \in Workers |-> work[i]]
  /\ mine = [i \in Workers |-> mine[i]]
  /\ results = [i \in Workers |-> results[i]]

(* The inductive invariant.                                                *)
IInv ==
  /\ ThreadTypes /\ BatchTypes
  /\ IdleInv /\ CreateInv /\ AbortInv /\ AbortJoinInv /\ StopInv /\ JoinInv
  /\ ServeInv /\ DoneInv /\ UnitsInv /\ LockInv

-----------------------------------------------------------------------------
(* Sequences.                                                              *)
LEMMA FunctionIsListed ==
  ASSUME NEW n \in Nat, NEW s, s = [i \in 1..n |-> s[i]]
  PROVE  Listed(s) /\ Len(s) = n /\ DOMAIN s = 1..n
<1> DEFINE S == {s[i] : i \in DOMAIN s}
<1>1. DOMAIN s = 1..n
  OBVIOUS
<1>2. \A i \in 1..n : s[i] \in S
  BY <1>1
<1> HIDE DEF S
<1>3. s \in [1..n -> S]
  BY <1>2
<1>4. s \in Seq(S) /\ Len(s) = n
  BY <1>3, <1>1, IsASeq
<1>5. QED
  BY <1>1, <1>4 DEF Listed, S

LEMMA ConcatIsListed ==
  ASSUME NEW s, NEW t, Listed(s), Listed(t)
  PROVE  Listed(s \o t) /\ Len(s \o t) = Len(s) + Len(t)
<1> DEFINE S == {s[i] : i \in DOMAIN s}
           T == {t[i] : i \in DOMAIN t}
           U == S \cup T
<1>1. s \in Seq(S) /\ t \in Seq(T)
  BY DEF Listed
<1>2. s \in Seq(U) /\ t \in Seq(U)
  <2> HIDE DEF S, T
  <2> QED BY <1>1, SeqMonotonic
<1> HIDE DEF S, T, U
<1>3. s \o t \in Seq(U) /\ Len(s \o t) = Len(s) + Len(t)
  BY <1>2, ConcatProperties
<1>4. Len(s \o t) \in Nat /\ s \o t \in [1..Len(s \o t) -> U]
  BY <1>3, LenProperties
<1>5. s \o t = [i \in 1..Len(s \o t) |-> (s \o t)[i]]
  BY <1>4
<1>6. QED
  BY <1>3, <1>4, <1>5, FunctionIsListed

LEMMA EmptyIsListed == Listed(<<>>) /\ Len(<<>>) = 0
BY DEF Listed

LEMMA ListedLen ==
  ASSUME NEW s, Listed(s)
  PROVE  Len(s) \in Nat /\ DOMAIN s = 1..Len(s)
BY LenProperties DEF Listed

-----------------------------------------------------------------------------
(* The capacity of the CV array covers the CVs that are stored.            *)
GrowStep(len, cap, k) == IF len + k - 1 >= cap THEN 2 * cap ELSE cap
Growth == INSTANCE Recursion WITH Step <- GrowStep

LEMMA CapForCovers ==
  ASSUME NEW cap \in Nat \ {0}, NEW len \in 0..cap, NEW kept \in Nat
  PROVE  CapFor(cap, len, kept) \in Nat \ {0}
         /\ len + kept <= CapFor(cap, len, kept)
<1>1. PICK grown : /\ Growth!IsRecursion(grown, len, cap, kept)
                   /\ CapFor(cap, len, kept) = grown[kept]
  BY DEF CapFor, Growth!IsRecursion, GrowStep
<1>2. /\ grown[0] = cap
      /\ \A k \in 1..kept : grown[k] = GrowStep(len, grown[k - 1], k)
  BY <1>1, Growth!RecursionRuns
<1> DEFINE T == {k \in Nat : k <= kept =>
                   grown[k] \in Nat \ {0} /\ len + k <= grown[k]}
<1>3. 0 \in T
  BY <1>2
<1>4. \A n \in Nat : n \in T => n + 1 \in T
  <2> TAKE n \in Nat
  <2> HAVE n \in T
  <2>1. SUFFICES ASSUME n + 1 <= kept
                 PROVE  /\ grown[n + 1] \in Nat \ {0}
                        /\ len + (n + 1) <= grown[n + 1]
    OBVIOUS
  <2>2. grown[n] \in Nat \ {0} /\ len + n <= grown[n]
    BY <2>1
  <2>3. grown[n + 1] = IF len + n >= grown[n] THEN 2 * grown[n] ELSE grown[n]
    <3>1. n + 1 \in 1..kept /\ (n + 1) - 1 = n
      BY <2>1
    <3>2. grown[n + 1] = GrowStep(len, grown[(n + 1) - 1], n + 1)
      BY <1>2, <3>1
    <3>3. QED
      BY <3>1, <3>2, <2>2 DEF GrowStep
  <2>4. QED
    BY <2>2, <2>3
<1>5. Nat \subseteq T
  <2> HIDE DEF T
  <2> QED BY <1>3, <1>4, SetInduction
<1>6. QED
  BY <1>1, <1>5

-----------------------------------------------------------------------------
(* The count of chunks after an update is a number.                        *)
CountStep(results_, sum, i) == sum + results_[i].chunks_processed
Count == INSTANCE Recursion WITH Step <- CountStep

LEMMA CountIsNat ==
  ASSUME NEW r, NEW n \in Nat, NEW base \in Nat,
         \A i \in 1..n : r[i].chunks_processed \in Nat,
         NEW total, Count!IsFold(total, r, base, [i \in 1..n |-> i])
  PROVE  total \in Nat
<1> DEFINE xs == [i \in 1..n |-> i]
<1>1. DOMAIN xs = 1..n
  OBVIOUS
<1>2. Count!IsFold(total, r, base, xs)
  OBVIOUS
<1>3. PICK t : Count!IsRun(t, r, base, xs, n) /\ total = t[n]
  <2> HIDE DEF xs
  <2> QED BY <1>1, <1>2, Count!FoldRuns
<1>4. /\ t[0] = base
      /\ \A k \in 1..n : t[k] = t[k - 1] + r[k].chunks_processed
  BY <1>3 DEF Count!IsRun, CountStep
<1> DEFINE T == {k \in Nat : k <= n => t[k] \in Nat}
<1>5. 0 \in T
  BY <1>4
<1>6. \A k \in Nat : k \in T => k + 1 \in T
  <2> TAKE k \in Nat
  <2> HAVE k \in T
  <2>1. SUFFICES ASSUME k + 1 <= n PROVE t[k + 1] \in Nat
    OBVIOUS
  <2>2. k + 1 \in 1..n /\ (k + 1) - 1 = k /\ t[k] \in Nat
    BY <2>1
  <2>3. t[k + 1] = t[k] + r[k + 1].chunks_processed
    BY <1>4, <2>2
  <2>4. QED
    BY <2>2, <2>3
<1>7. Nat \subseteq T
  <2> HIDE DEF T
  <2> QED BY <1>5, <1>6, SetInduction
<1>8. QED
  BY <1>3, <1>7

-----------------------------------------------------------------------------
(* Merging leaves a sequence that is no longer than the one merged.        *)
PassStep(key_, cvs, x) == MergePass(cvs, key_)
Merge == INSTANCE Recursion WITH Step <- PassStep

LEMMA MergePassShrinks ==
  ASSUME NEW cvs, NEW k, Listed(cvs)
  PROVE  Listed(MergePass(cvs, k)) /\ Len(MergePass(cvs, k)) <= Len(cvs)
<1> DEFINE n == (Len(cvs) + 1) \div 2
           s == MergePass(cvs, k)
<1>1. Len(cvs) \in Nat
  BY ListedLen
<1>2. n \in Nat /\ n <= Len(cvs)
  BY <1>1
<1>3. s = [i \in 1..n |-> s[i]]
  BY DEF MergePass
<1> HIDE DEF n, s
<1>4. Listed(s) /\ Len(s) = n
  BY <1>2, <1>3, FunctionIsListed
<1>5. QED
  BY <1>2, <1>4 DEF s

LEMMA MergeShrinks ==
  ASSUME NEW cvs, NEW k, Listed(cvs)
  PROVE  Listed(MergeCVs(cvs, k)) /\ Len(MergeCVs(cvs, k)) <= Len(cvs)
<1> DEFINE n == Len(cvs)
           merged == MergeCVs(cvs, k)
<1>1. n \in Nat /\ DOMAIN cvs = 1..n
  BY ListedLen
<1>2. Merge!IsFold(merged, k, cvs, cvs)
  BY DEF Merge!IsFold, Merge!FoldTable, Merge!FoldStep, MergeCVs, FoldLeft,
         MapThenFoldSet, Max, Merge!Max, PassStep
<1> HIDE DEF n, merged
<1>3. PICK t : Merge!IsRun(t, k, cvs, cvs, n) /\ merged = t[n]
  BY <1>1, <1>2, Merge!FoldRuns
<1>4. /\ t[0] = cvs
      /\ \A i \in 1..n : t[i] = MergePass(t[i - 1], k)
  BY <1>3 DEF Merge!IsRun, PassStep
<1> DEFINE T == {i \in Nat : i <= n => Listed(t[i]) /\ Len(t[i]) <= n}
<1>5. 0 \in T
  BY <1>1, <1>4 DEF n
<1>6. \A i \in Nat : i \in T => i + 1 \in T
  <2> TAKE i \in Nat
  <2> HAVE i \in T
  <2>1. SUFFICES ASSUME i + 1 <= n
                 PROVE  Listed(t[i + 1]) /\ Len(t[i + 1]) <= n
    OBVIOUS
  <2>2. i + 1 \in 1..n /\ (i + 1) - 1 = i /\ Listed(t[i]) /\ Len(t[i]) <= n
    BY <1>1, <2>1
  <2>3. t[i + 1] = MergePass(t[i], k)
    BY <1>4, <2>2
  <2>4. Listed(t[i + 1]) /\ Len(t[i + 1]) <= Len(t[i])
    BY <2>2, <2>3, MergePassShrinks
  <2>5. Len(t[i]) \in Nat /\ Len(t[i + 1]) \in Nat
    BY <2>2, <2>4, ListedLen
  <2>6. QED
    BY <1>1, <2>2, <2>4, <2>5
<1>7. Nat \subseteq T
  <2> HIDE DEF T
  <2> QED BY <1>5, <1>6, SetInduction
<1>8. QED
  BY <1>1, <1>3, <1>7 DEF n, merged

-----------------------------------------------------------------------------
(* Work units.                                                             *)
(* A set of indices with 1 and all below each of its own is an interval.   *)
Closed(S) == 1 \in S /\ \A i \in S : \A j \in 1..i : j \in S

LEMMA ClosedIsInterval ==
  ASSUME NEW n \in Nat, NEW S \in SUBSET (1..n), Closed(S)
  PROVE  \E m \in 1..n : S = 1..m
<1> DEFINE T == {k \in Nat : \A R \in SUBSET (1..k) :
                   Closed(R) => \E m \in 1..k : R = 1..m}
<1>1. 0 \in T
  BY DEF Closed
<1>2. \A k \in Nat : k \in T => k + 1 \in T
  <2> TAKE k \in Nat
  <2> HAVE k \in T
  <2>1. SUFFICES ASSUME NEW R \in SUBSET (1..(k + 1)), Closed(R)
                 PROVE  \E m \in 1..(k + 1) : R = 1..m
    OBVIOUS
  <2>2. CASE k + 1 \in R
    <3>1. R = 1..(k + 1)
      BY <2>1, <2>2 DEF Closed
    <3>2. QED
      BY <3>1
  <2>3. CASE k + 1 \notin R
    <3>1. R \in SUBSET (1..k)
      BY <2>3
    <3>2. PICK m \in 1..k : R = 1..m
      BY <2>1, <3>1
    <3>3. QED
      BY <3>2
  <2>4. QED
    BY <2>2, <2>3
<1>3. Nat \subseteq T
  <2> HIDE DEF T
  <2> QED BY <1>1, <1>2, SetInduction
<1>4. QED
  BY <1>3

LEMMA BytesPerThreadIsPositive ==
  ASSUME NEW in, Len(in) \in Nat
  PROVE  BytesPerThread(in) \in Nat \ {0}
<1> DEFINE chunks == (Len(in) \div ChunkLen) \div NumThreads
           most == Max({1, chunks})
<1>1. ChunkLen \in Nat \ {0} /\ NumThreads \in Nat \ {0}
  BY LengthAssumption, ParallelAssumption
<1>2. chunks \in Nat
  <2>1. Len(in) \div ChunkLen \in Nat
    BY <1>1
  <2>2. QED
    BY <1>1, <2>1
<1> HIDE DEF chunks
<1>3. most \in Nat \ {0}
  BY <1>2, MaxOfTwo
<1> HIDE DEF most
<1>4. ChunkLen * most \in Nat \ {0}
  BY <1>1, <1>3
<1>5. QED
  BY <1>4 DEF BytesPerThread, most, chunks

LEMMA InputIsSequence ==
  ASSUME NEW in \in AllInputs
  PROVE  in \in Seq(DataBytes) /\ Len(in) \in Nat
<1>1. PICK n \in 0..MaxLen : in \in InputsAt(n)
  BY DEF AllInputs
<1>2. in \in Seq(DataBytes)
  BY <1>1, InputAssumption
<1>3. QED
  BY <1>2, LenProperties

(* Where unit i starts and ends in the input.                              *)
LEMMA UnitPlace ==
  ASSUME NEW in, Len(in) \in Nat, NEW c \in Nat, NEW i \in Workers,
         (i - 1) * BytesPerThread(in) < Len(in)
  PROVE  \E from, to \in 0..Len(in), start \in Nat :
           Unit(in, c, i) = [data |-> SubSeq(in, from + 1, to),
                             chunk_start |-> start]
<1> DEFINE b == BytesPerThread(in)
           from == (i - 1) * b
           to == IF i = NumThreads THEN Len(in)
                 ELSE Min({from + b, Len(in)})
           start == c + (from \div ChunkLen)
<1>1. i - 1 \in Nat /\ b \in Nat /\ ChunkLen \in Nat \ {0}
  BY BytesPerThreadIsPositive, LengthAssumption, ParallelAssumption
     DEF Workers
<1>2. Unit(in, c, i) = [data |-> SubSeq(in, from + 1, to),
                        chunk_start |-> start]
  BY DEF Unit
<1>3. from < Len(in)
  OBVIOUS
<1> HIDE DEF b
<1>4. from \in Nat
  BY <1>1
<1> HIDE DEF from
<1>5. from \in 0..Len(in)
  BY <1>3, <1>4
<1>6. Min({from + b, Len(in)}) \in 0..Len(in)
  BY <1>1, <1>4, MinOfTwo
<1>7. to \in 0..Len(in) /\ start \in Nat
  BY <1>1, <1>4, <1>6
<1> HIDE DEF to, start
<1>8. QED
  BY <1>2, <1>5, <1>7

(* The units of an update that goes parallel: those of the first workers,  *)
(* each of them one that NULL is not, and with a positive count of chunks. *)
LEMMA UnitsOfUpdate ==
  ASSUME NEW in \in AllInputs, NEW c \in Nat, GoesParallel(in)
  PROVE  /\ \E m \in Workers : DOMAIN Units(in, c) = 1..m
         /\ \A i \in DOMAIN Units(in, c) :
              /\ Units(in, c)[i] # None
              /\ UnitType(Units(in, c)[i])
              /\ \A k : ProcessChunks(Units(in, c)[i], k).chunks_processed
                          \in Nat
<1> DEFINE b == BytesPerThread(in)
           active == {i \in Workers : (i - 1) * b < Len(in)}
<1>1. in \in Seq(DataBytes) /\ Len(in) \in Nat /\ b \in Nat \ {0}
  BY InputIsSequence, BytesPerThreadIsPositive
<1>2. /\ Len(in) > 0 /\ NumThreads \in Nat \ {0} /\ Workers = 1..NumThreads
      /\ ChunkLen \in Nat \ {0}
  BY <1>1, ParallelAssumption, LengthAssumption DEF GoesParallel, Workers
<1>3. DOMAIN Units(in, c) = active
  BY DEF Units
<1>4. \A i \in active : Units(in, c)[i] = Unit(in, c, i)
  BY DEF Units
<1>5. Closed(active)
  <2> HIDE DEF b
  <2>1. 1 \in active
    BY <1>1, <1>2
  <2>2. ASSUME NEW i \in active, NEW j \in 1..i PROVE j \in active
    <3>1. i - 1 \in Nat /\ j - 1 \in Nat /\ j - 1 <= i - 1
      BY <1>2
    <3>2. (j - 1) * b <= (i - 1) * b
      BY <1>1, <3>1
    <3>3. (j - 1) * b \in Nat /\ (i - 1) * b \in Nat
      BY <1>1, <3>1
    <3>4. QED
      BY <1>1, <1>2, <3>2, <3>3
  <2>3. QED
    BY <2>1, <2>2 DEF Closed
<1>6. \E m \in Workers : DOMAIN Units(in, c) = 1..m
  <2>1. active \in SUBSET (1..NumThreads)
    BY <1>2
  <2> HIDE DEF active
  <2>2. QED
    BY <1>2, <1>3, <1>5, <2>1, ClosedIsInterval
<1>7. ASSUME NEW i \in DOMAIN Units(in, c)
      PROVE  /\ Units(in, c)[i] # None
             /\ UnitType(Units(in, c)[i])
             /\ \A k : ProcessChunks(Units(in, c)[i], k).chunks_processed
                         \in Nat
  <2>1. PICK from \in 0..Len(in), to \in 0..Len(in), start \in Nat :
          Units(in, c)[i] = [data |-> SubSeq(in, from + 1, to),
                             chunk_start |-> start]
    <3>1. i \in Workers /\ (i - 1) * BytesPerThread(in) < Len(in)
      BY <1>3
    <3>2. Units(in, c)[i] = Unit(in, c, i)
      BY <1>3, <1>4
    <3>3. Len(in) \in Nat
      BY <1>1
    <3>4. \E from, to \in 0..Len(in), start \in Nat :
            Unit(in, c, i) = [data |-> SubSeq(in, from + 1, to),
                              chunk_start |-> start]
      BY <3>1, <3>3, UnitPlace
    <3>5. QED
      BY <3>2, <3>4
  <2> DEFINE data == SubSeq(in, from + 1, to)
             u == [data |-> data, chunk_start |-> start]
             n == (Len(data) + ChunkLen - 1) \div ChunkLen
  <2>2. u # None
    BY NoneAssumption
  <2>3. UnitType(u)
    BY DEF UnitType
  <2>4. n \in Nat
    <3>1. \A j \in (from + 1)..to : in[j] \in DataBytes
      BY <1>1, LenProperties
    <3>2. data \in Seq(DataBytes)
      BY <3>1, SubSeqProperties
    <3> HIDE DEF data
    <3>3. Len(data) \in Nat
      BY <3>2, LenProperties
    <3>4. QED
      BY <1>2, <3>3
  <2>5. \A k : ProcessChunks(u, k).chunks_processed = Max({1, n})
    BY DEF ProcessChunks
  <2>6. \A k : ProcessChunks(u, k).chunks_processed \in Nat
    <3> HIDE DEF u, n
    <3> QED BY <2>4, <2>5, MaxOfTwo
  <2>7. QED
    BY <2>1, <2>2, <2>3, <2>6
<1>8. QED
  BY <1>6, <1>7

-----------------------------------------------------------------------------
(* What the calls do to the data.                                          *)
LEMMA BatchTypesInit == BatchInit => BatchTypes
BY EmptyIsListed, CapAssumption, InputAssumption, EmptySeq
   DEF BatchInit, BatchTypes

LEMMA BatchTypesStutter ==
  ASSUME BatchTypes, UNCHANGED batch
  PROVE  BatchTypes'
BY DEF BatchTypes, Listed, batch

LEMMA InputAtIsInput ==
  ASSUME BatchTypes, NEW in \in InputsAt(Len(message)),
         Len(message) + Len(in) <= MaxLen
  PROVE  /\ in \in AllInputs
         /\ message \o in \in Seq(DataBytes)
         /\ Len(message \o in) <= MaxLen
<1>1. Len(message) \in 0..MaxLen
  BY InputAssumption, LenProperties DEF BatchTypes
<1>2. in \in AllInputs
  BY <1>1 DEF AllInputs
<1>3. in \in Seq(DataBytes)
  BY <1>2, InputIsSequence
<1>4. message \o in \in Seq(DataBytes)
      /\ Len(message \o in) = Len(message) + Len(in)
  BY <1>3, ConcatProperties DEF BatchTypes
<1>5. QED
  BY <1>2, <1>4

LEMMA EmptyKeepsTypes ==
  ASSUME BatchTypes, Empty, cv_stack_cap' \in Nat \ {0}
  PROVE  BatchTypes'
BY EmptyIsListed, EmptySeq, InputAssumption DEF BatchTypes, Empty

LEMMA CollectKeepsTypes ==
  ASSUME BatchTypes, NEW in \in InputsAt(Len(message)),
         Len(message) + Len(in) <= MaxLen,
         NEW n \in Nat, NEW r, DOMAIN r = 1..n,
         \A i \in 1..n : r[i].chunks_processed \in Nat,
         NEW kept \in 0..Cardinality(DOMAIN r), Collect(in, r, kept)
  PROVE  BatchTypes'
<1> DEFINE cvs == [i \in 1..kept |-> r[i].cv_out]
<1>1. kept \in 0..n
  <2>1. Cardinality(1..n) = n
    BY FS_Interval
  <2>2. QED
    BY <2>1
<1>2. Listed(cvs) /\ Len(cvs) = kept
  <2>1. cvs = [i \in 1..kept |-> cvs[i]]
    OBVIOUS
  <2> HIDE DEF cvs
  <2>2. QED
    BY <1>1, <2>1, FunctionIsListed
<1>3. /\ message' = message \o in
      /\ cv_stack_cap' = CapFor(cv_stack_cap, Len(cv_stack), kept)
      /\ cv_stack' = cv_stack \o cvs
  BY DEF Collect
<1> HIDE DEF cvs
<1>4. total_chunks' \in Nat
  <2>1. \A i \in 1..kept : r[i].chunks_processed \in Nat
    BY <1>1
  <2>2. total_chunks \in Nat /\ kept \in Nat
    BY <1>1 DEF BatchTypes
  <2>3. Count!IsFold(total_chunks', r, total_chunks, [i \in 1..kept |-> i])
    BY DEF Collect, Count!IsFold, Count!FoldTable, Count!FoldStep, FoldLeft,
           MapThenFoldSet, Max, Count!Max, CountStep
  <2>4. QED
    BY <2>1, <2>2, <2>3, CountIsNat
<1>5. /\ message' \in Seq(DataBytes) /\ Len(message') <= MaxLen
  BY <1>3, InputAtIsInput
<1>6. /\ Listed(cv_stack') /\ Len(cv_stack') = Len(cv_stack) + kept
  BY <1>2, <1>3, ConcatIsListed DEF BatchTypes
<1>7. cv_stack_cap' \in Nat \ {0} /\ Len(cv_stack') <= cv_stack_cap'
  <2>1. Len(cv_stack) \in 0..cv_stack_cap /\ cv_stack_cap \in Nat \ {0}
    BY ListedLen DEF BatchTypes
  <2>2. QED
    BY <1>1, <1>3, <1>6, <2>1, CapForCovers
<1>8. QED
  BY <1>4, <1>5, <1>6, <1>7 DEF BatchTypes, Listed

LEMMA LocalCallKeepsTypes ==
  ASSUME BatchTypes, LocalCall
  PROVE  BatchTypes'
<1>1. ASSUME NEW k \in Keys \cup {NoKey}, InitHasherTo(k) PROVE BatchTypes'
  BY <1>1, EmptyKeepsTypes DEF InitHasherTo, BatchTypes
<1>2. ASSUME NEW in \in InputsAt(Len(message)), UpdateSerial(in)
      PROVE  BatchTypes'
  BY <1>2, InputAtIsInput DEF UpdateSerial, BatchTypes, Listed
<1>3. ASSUME NEW out_len \in OutLens, Finalize(out_len) PROVE BatchTypes'
  <2>1. /\ Listed(cv_stack') /\ Len(cv_stack') <= cv_stack_cap
    <3>1. CASE cv_stack # <<>>
      <4>1. cv_stack' = MergeCVs(cv_stack, key)
        BY <1>3, <3>1 DEF Finalize
      <4>2. Listed(cv_stack') /\ Len(cv_stack') <= Len(cv_stack)
        BY <4>1, MergeShrinks DEF BatchTypes
      <4>3. Len(cv_stack) \in Nat /\ Len(cv_stack') \in Nat
        BY <4>2, ListedLen DEF BatchTypes
      <4>4. QED
        BY <4>2, <4>3 DEF BatchTypes
    <3>2. CASE cv_stack = <<>>
      <4>1. cv_stack' = cv_stack
        BY <1>3, <3>2 DEF Finalize
      <4>2. QED
        BY <4>1 DEF BatchTypes
    <3>3. QED
      BY <3>1, <3>2
  <2>2. QED
    BY <1>3, <2>1 DEF Finalize, BatchTypes, Listed
<1>4. ASSUME Reset PROVE BatchTypes'
  BY <1>4, EmptyKeepsTypes DEF Reset, BatchTypes
<1>5. QED
  BY <1>1, <1>2, <1>3, <1>4 DEF LocalCall

-----------------------------------------------------------------------------
(* The units that are being served.                                        *)
LEMMA UnitsServed ==
  ASSUME IInv
  PROVE  /\ DOMAIN units \in SUBSET Workers
         /\ pc \in Serving =>
              /\ \E m \in Workers : DOMAIN units = 1..m
              /\ \A i \in DOMAIN units :
                   /\ units[i] # None /\ UnitType(units[i])
                   /\ \A k : ProcessChunks(units[i], k).chunks_processed \in Nat
<1>1. CASE pc \in Serving
  <2>1. input \in AllInputs /\ GoesParallel(input) /\ total_chunks \in Nat
        /\ units = Units(input, total_chunks)
    BY <1>1, InputAtIsInput DEF IInv, ServeInv, BatchTypes
  <2>2. PICK m \in Workers : DOMAIN units = 1..m
    BY <2>1, UnitsOfUpdate
  <2>3. \A i \in DOMAIN units :
          /\ units[i] # None /\ UnitType(units[i])
          /\ \A k : ProcessChunks(units[i], k).chunks_processed \in Nat
    BY <2>1, UnitsOfUpdate, Zenon
  <2>4. DOMAIN units \in SUBSET Workers
    BY <2>2, ParallelAssumption DEF Workers
  <2>5. QED
    BY <2>2, <2>3, <2>4, Zenon
<1>2. CASE pc \notin Serving
  BY <1>2 DEF IInv, UnitsInv
<1>3. QED
  BY <1>1, <1>2

-----------------------------------------------------------------------------
(* A step of a worker, or one of the caller at a lock, may change what the *)
(* worker is at, but not what it is to the caller: up, shut down, gone or  *)
(* serving its unit.                                                       *)
KeepsKind(j) ==
  /\ Up(j) => Up(j)'
  /\ Down(j) => Down(j)'
  /\ Gone(j) => Gone(j)' /\ mutex'[j] = mutex[j]
  /\ pc \in Serving /\ j \in DOMAIN units /\ Posted(j) => Posted(j)'
  /\ done[j] => done'[j]

LEMMA KindsKeepIInv ==
  ASSUME IInv, UNCHANGED <<batch, next, input, units>>, ThreadTypes',
         LockInv', \A j \in Workers : KeepsKind(j),
         pc' = pc \/ (pc = "asleep" /\ pc' = "await"),
         pc' = "asleep" => ~done'[next]
  PROVE  IInv'
<1>1. BatchTypes'
  BY BatchTypesStutter DEF IInv
<1>2. /\ alive' = alive /\ initialized' = initialized /\ message' = message
      /\ total_chunks' = total_chunks
  BY DEF batch
<1>3. IdleInv' /\ CreateInv'
  BY <1>2 DEF IInv, IdleInv, CreateInv, KeepsKind, Destroyed
<1>4. AbortInv'
  <2>1. SUFFICES ASSUME pc = "abort" PROVE AbortInv'
    BY DEF AbortInv
  <2>2. PICK f \in next..NumThreads :
          /\ mutex[f] = "leaked"
          /\ \A i \in Workers : IF next <= i /\ i < f THEN Up(i) ELSE Gone(i)
    BY <2>1 DEF IInv, AbortInv
  <2>3. f \in Workers /\ next' = next /\ next \in Nat
    BY ParallelAssumption DEF IInv, ThreadTypes, Workers
  <2>4. mutex'[f] = "leaked"
    BY <2>2, <2>3 DEF KeepsKind
  <2>5. \A i \in Workers : IF next' <= i /\ i < f THEN Up(i)' ELSE Gone(i)'
    BY <2>2, <2>3 DEF KeepsKind
  <2>6. QED
    BY <1>2, <2>1, <2>3, <2>4, <2>5 DEF IInv, AbortInv
<1>5. AbortJoinInv'
  <2>1. SUFFICES ASSUME pc = "abortJoin" PROVE AbortJoinInv'
    BY DEF AbortJoinInv
  <2>2. PICK f \in (next + 1)..NumThreads :
          /\ mutex[f] = "leaked"
          /\ \A i \in Workers : IF i = next THEN Down(i)
                               ELSE IF next < i /\ i < f THEN Up(i)
                               ELSE Gone(i)
    BY <2>1 DEF IInv, AbortJoinInv
  <2>3. f \in Workers /\ next' = next /\ next \in Nat /\ f # next
    BY ParallelAssumption DEF IInv, ThreadTypes, Workers
  <2>4. mutex'[f] = "leaked"
    BY <2>2, <2>3 DEF KeepsKind
  <2>5. \A i \in Workers : IF i = next' THEN Down(i)'
                          ELSE IF next' < i /\ i < f THEN Up(i)'
                          ELSE Gone(i)'
    BY <2>2, <2>3 DEF KeepsKind
  <2>6. QED
    BY <1>2, <2>1, <2>3, <2>4, <2>5 DEF IInv, AbortJoinInv
<1>6. StopInv' /\ JoinInv'
  BY <1>2 DEF IInv, StopInv, JoinInv, KeepsKind, Destroyed
<1>7. ServeInv'
  BY <1>2 DEF IInv, ServeInv, KeepsKind, Serving
<1>8. DoneInv' /\ UnitsInv'
  BY UnitsServed DEF IInv, DoneInv, UnitsInv, KeepsKind, Serving
<1>9. QED
  BY <1>1, <1>3, <1>4, <1>5, <1>6, <1>7, <1>8 DEF IInv

LEMMA WorkerLockStep ==
  ASSUME IInv, NEW i \in Workers, WorkerLock(i)
  PROVE  IInv'
<1> USE DEF WorkerLock
<1>1. ThreadTypes' /\ LockInv'
  BY DEF IInv, ThreadTypes, LockInv
<1>2. ASSUME NEW j \in Workers PROVE KeepsKind(j)
  BY DEF IInv, ThreadTypes, KeepsKind, Up, Down, Gone, Posted, Resting, Answer,
         Locks, batch
<1>3. pc' = "asleep" => ~done'[next]
  BY DEF IInv, DoneInv
<1>4. QED
  BY <1>1, <1>2, <1>3, KindsKeepIInv

LEMMA WorkerSpuriousStep ==
  ASSUME IInv, NEW i \in Workers, WorkerSpurious(i)
  PROVE  IInv'
<1> USE DEF WorkerSpurious
<1>1. ThreadTypes' /\ LockInv'
  BY DEF IInv, ThreadTypes, LockInv
<1>2. ASSUME NEW j \in Workers PROVE KeepsKind(j)
  BY DEF IInv, ThreadTypes, KeepsKind, Up, Down, Gone, Posted, Resting, Answer,
         Locks, batch
<1>3. pc' = "asleep" => ~done'[next]
  BY DEF IInv, DoneInv
<1>4. QED
  BY <1>1, <1>2, <1>3, KindsKeepIInv

LEMMA WorkerCheckStep ==
  ASSUME IInv, NEW i \in Workers, WorkerCheck(i)
  PROVE  IInv'
<1> USE DEF WorkerCheck
<1>1. ThreadTypes' /\ LockInv'
  BY DEF IInv, ThreadTypes, LockInv
<1>2. ASSUME NEW j \in Workers PROVE KeepsKind(j)
  BY UnitsServed
     DEF IInv, ThreadTypes, KeepsKind, Up, Down, Gone, Posted, Resting, Answer,
         Locks, batch
<1>3. pc' = "asleep" => ~done'[next]
  BY DEF IInv, DoneInv
<1>4. QED
  BY <1>1, <1>2, <1>3, KindsKeepIInv

LEMMA WorkerProcessStep ==
  ASSUME IInv, NEW i \in Workers, WorkerProcess(i)
  PROVE  IInv'
<1> USE DEF WorkerProcess
<1>1. ThreadTypes' /\ LockInv'
  BY DEF IInv, ThreadTypes, LockInv
<1>2. ASSUME NEW j \in Workers PROVE KeepsKind(j)
  BY DEF IInv, ThreadTypes, KeepsKind, Up, Down, Gone, Posted, Resting, Answer,
         Locks, batch
<1>3. pc' = "asleep" => ~done'[next]
  BY DEF IInv, DoneInv
<1>4. QED
  BY <1>1, <1>2, <1>3, KindsKeepIInv

LEMMA WorkerFinishStep ==
  ASSUME IInv, NEW i \in Workers, WorkerFinish(i)
  PROVE  IInv'
<1> USE DEF WorkerFinish, WakeCaller
<1>1. ThreadTypes' /\ LockInv'
  BY DEF IInv, ThreadTypes, LockInv
<1>2. ASSUME NEW j \in Workers PROVE KeepsKind(j)
  BY DEF IInv, ThreadTypes, KeepsKind, Up, Down, Gone, Posted, Resting, Answer,
         Locks, batch
<1>3. pc' = "asleep" => ~done'[next]
  BY DEF IInv, DoneInv, ThreadTypes
<1>4. QED
  BY <1>1, <1>2, <1>3, KindsKeepIInv

-----------------------------------------------------------------------------
(* The caller's steps: locking and waiting.                                *)
LEMMA CallerLockStep ==
  ASSUME IInv, CallerLock
  PROVE  IInv'
<1> USE DEF CallerLock
<1>1. ThreadTypes' /\ LockInv'
  BY DEF IInv, ThreadTypes, LockInv
<1>2. ASSUME NEW j \in Workers PROVE KeepsKind(j)
  BY DEF IInv, ThreadTypes, KeepsKind, Up, Down, Gone, Posted, Resting, Answer,
         Locks, batch
<1>3. pc' # "asleep"
  OBVIOUS
<1>4. QED
  BY <1>1, <1>2, <1>3, KindsKeepIInv

LEMMA CallerSpuriousStep ==
  ASSUME IInv, CallerSpurious
  PROVE  IInv'
<1> USE DEF CallerSpurious
<1>1. ThreadTypes' /\ LockInv'
  BY DEF IInv, ThreadTypes, LockInv
<1>2. ASSUME NEW j \in Workers PROVE KeepsKind(j)
  BY DEF IInv, ThreadTypes, KeepsKind, Up, Down, Gone, Posted, Resting, Answer,
         Locks, batch
<1>3. QED
  BY <1>1, <1>2, KindsKeepIInv

(* At every other place the invariants of the phases but one are vacuous.  *)
LEMMA OnePhase ==
  ASSUME ThreadTypes', BatchTypes', DoneInv', UnitsInv', LockInv',
         \/ pc' = "idle" /\ IdleInv'
         \/ pc' = "create" /\ CreateInv'
         \/ pc' = "abort" /\ AbortInv'
         \/ pc' = "abortJoin" /\ AbortJoinInv'
         \/ pc' = "stop" /\ StopInv'
         \/ pc' = "join" /\ JoinInv'
         \/ pc' \in Serving /\ ServeInv'
  PROVE  IInv'
BY DEF IInv, IdleInv, CreateInv, AbortInv, AbortJoinInv, StopInv, JoinInv,
       ServeInv, Serving

-----------------------------------------------------------------------------
(* The caller's steps: new.                                                *)
LEMMA BeginNewStep ==
  ASSUME IInv, BeginNew
  PROVE  IInv'
<1> USE DEF BeginNew
<1>1. ThreadTypes' /\ LockInv' /\ UnitsInv' /\ DoneInv'
  BY ParallelAssumption
     DEF IInv, ThreadTypes, LockInv, UnitsInv, DoneInv, Serving
<1>2. CreateInv'
  BY DEF IInv, IdleInv, CreateInv, Destroyed, Gone, batch, Workers
<1>3. QED
  BY <1>1, <1>2, OnePhase, BatchTypesStutter DEF IInv

LEMMA CreateWorkerStep ==
  ASSUME IInv, CreateWorker
  PROVE  IInv'
<1> USE DEF CreateWorker
<1>1. ThreadTypes' /\ LockInv' /\ UnitsInv' /\ DoneInv'
  <2>1. ThreadTypes'
    <3>1. /\ next' \in 1..(NumThreads + 1)
          /\ wpc' \in [Workers -> {"none", "check", "asleep", "process",
                                  "finish", "exited"}]
          /\ mutex' \in [Workers -> {"free", "caller", "worker", "leaked",
                                    "destroyed"}]
      BY ParallelAssumption DEF IInv, ThreadTypes, Workers
    <3>2. /\ done' \in [Workers -> BOOLEAN]
          /\ shutdown' \in [Workers -> BOOLEAN]
      BY DEF IInv, ThreadTypes
    <3>3. work' = [i \in Workers |-> work'[i]]
      BY DEF IInv, ThreadTypes
    <3>4. QED
      BY <3>1, <3>2, <3>3 DEF IInv, ThreadTypes
  <2>2. LockInv' /\ UnitsInv' /\ DoneInv'
    BY DEF IInv, ThreadTypes, LockInv, UnitsInv, DoneInv, Serving
  <2>3. QED
    BY <2>1, <2>2
<1>2. CreateInv'
  BY DEF IInv, ThreadTypes, CreateInv, Destroyed, Gone, Up, Resting, Locks,
         batch, Workers
<1>3. QED
  BY <1>1, <1>2, OnePhase, BatchTypesStutter DEF IInv

LEMMA CreateFailsStep ==
  ASSUME IInv, CreateFails
  PROVE  IInv'
<1> USE DEF CreateFails
<1>1. ThreadTypes' /\ LockInv' /\ UnitsInv' /\ DoneInv'
  BY ParallelAssumption
     DEF IInv, ThreadTypes, LockInv, UnitsInv, DoneInv, Serving, Workers
<1>2. AbortInv'
  <2>1. next \in next'..NumThreads /\ mutex'[next] = "leaked"
    BY DEF IInv, ThreadTypes, Workers
  <2>2. \A i \in Workers : IF next' <= i /\ i < next THEN Up(i)' ELSE Gone(i)'
    BY DEF IInv, ThreadTypes, CreateInv, Destroyed, Gone, Up, Resting, Locks,
           batch, Workers
  <2>3. ~alive'
    BY DEF IInv, CreateInv, batch
  <2>4. QED
    BY <2>1, <2>2, <2>3 DEF AbortInv
<1>3. QED
  BY <1>1, <1>2, OnePhase, BatchTypesStutter DEF IInv

LEMMA EndNewStep ==
  ASSUME IInv, EndNew
  PROVE  IInv'
<1> USE DEF EndNew, NewHasher
<1>1. ThreadTypes' /\ LockInv' /\ UnitsInv' /\ DoneInv'
  BY ParallelAssumption
     DEF IInv, ThreadTypes, LockInv, UnitsInv, DoneInv, Serving, Workers
<1>2. IdleInv'
  BY ParallelAssumption DEF IInv, ThreadTypes, CreateInv, IdleInv, Up, Resting, Workers
<1>3. BatchTypes'
  BY DEF IInv, BatchTypes, Listed
<1>4. QED
  BY <1>1, <1>2, <1>3, OnePhase

LEMMA AbortShutdownStep ==
  ASSUME IInv, AbortShutdown
  PROVE  IInv'
<1> USE DEF AbortShutdown, Shutdown, Wake
<1>1. PICK f \in next..NumThreads :
        /\ mutex[f] = "leaked"
        /\ \A i \in Workers : IF next <= i /\ i < f THEN Up(i) ELSE Gone(i)
  BY DEF IInv, AbortInv
<1>2. next \in Workers /\ f \in (next + 1)..NumThreads
  <2>1. next \in Workers /\ f \in Workers
    BY ParallelAssumption DEF IInv, ThreadTypes, Workers
  <2>2. f # next
    BY <1>1
  <2>3. QED
    BY <2>1, <2>2 DEF Workers
<1>3. ThreadTypes' /\ LockInv' /\ UnitsInv' /\ DoneInv'
  BY DEF IInv, ThreadTypes, LockInv, UnitsInv, DoneInv, Serving
<1>4. AbortJoinInv'
  <2>1. mutex'[f] = "leaked"
    BY <1>1, <1>2 DEF IInv, ThreadTypes, Workers
  <2>2. \A i \in Workers : IF i = next' THEN Down(i)'
                          ELSE IF next' < i /\ i < f THEN Up(i)' ELSE Gone(i)'
    BY <1>1, <1>2
       DEF IInv, ThreadTypes, Down, Gone, Up, Resting, Locks, Workers
  <2>3. ~alive'
    BY DEF IInv, AbortInv, batch
  <2>4. QED
    BY <1>2, <2>1, <2>2, <2>3 DEF AbortJoinInv
<1>5. QED
  BY <1>3, <1>4, OnePhase, BatchTypesStutter DEF IInv

LEMMA AbortJoinStep ==
  ASSUME IInv, AbortJoin
  PROVE  IInv'
<1> USE DEF AbortJoin, Join
<1>1. PICK f \in (next + 1)..NumThreads :
        /\ mutex[f] = "leaked"
        /\ \A i \in Workers : IF i = next THEN Down(i)
                             ELSE IF next < i /\ i < f THEN Up(i) ELSE Gone(i)
  BY DEF IInv, AbortJoinInv
<1>2. next \in Workers /\ f \in Workers
  BY <1>1, ParallelAssumption DEF IInv, ThreadTypes, Workers, Up, Locks
<1>3. ThreadTypes' /\ LockInv' /\ UnitsInv' /\ DoneInv'
  BY <1>2, ParallelAssumption
     DEF IInv, ThreadTypes, LockInv, UnitsInv, DoneInv, Serving, Workers
<1>4. AbortInv'
  <2>1. mutex'[f] = "leaked" /\ f \in next'..NumThreads
    BY <1>1, <1>2 DEF IInv, ThreadTypes, Workers
  <2>2. \A i \in Workers : IF next' <= i /\ i < f THEN Up(i)' ELSE Gone(i)'
    BY <1>1, <1>2
       DEF IInv, ThreadTypes, Down, Gone, Up, Resting, Locks, Workers
  <2>3. ~alive'
    BY DEF IInv, AbortJoinInv, batch
  <2>4. QED
    BY <2>1, <2>2, <2>3 DEF AbortInv
<1>5. QED
  BY <1>3, <1>4, OnePhase, BatchTypesStutter DEF IInv

LEMMA EndAbortStep ==
  ASSUME IInv, EndAbort
  PROVE  IInv'
<1> USE DEF EndAbort
<1>1. PICK f \in next..NumThreads :
        /\ mutex[f] = "leaked"
        /\ \A i \in Workers : IF next <= i /\ i < f THEN Up(i) ELSE Gone(i)
  BY DEF IInv, AbortInv
<1>2. f = next
  <2>1. next \in Workers /\ f \in Workers
    BY ParallelAssumption DEF IInv, ThreadTypes, Workers
  <2>2. mutex[next] \notin Locks
    BY <2>1 DEF Locks
  <2>3. ~(next < f)
    BY <1>1, <2>1, <2>2 DEF Up, Workers
  <2>4. QED
    BY <2>1, <2>3 DEF Workers
<1>3. ThreadTypes' /\ LockInv' /\ UnitsInv' /\ DoneInv'
  BY ParallelAssumption
     DEF IInv, ThreadTypes, LockInv, UnitsInv, DoneInv, Serving
<1>4. IdleInv'
  BY <1>1, <1>2
     DEF IInv, ThreadTypes, AbortInv, IdleInv, Destroyed, Gone, Workers, batch
<1>5. QED
  BY <1>3, <1>4, OnePhase, BatchTypesStutter DEF IInv

-----------------------------------------------------------------------------
(* The caller's steps: free.                                               *)
LEMMA BeginFreeStep ==
  ASSUME IInv, BeginFree
  PROVE  IInv'
<1> USE DEF BeginFree
<1>1. ThreadTypes' /\ LockInv' /\ UnitsInv' /\ DoneInv'
  BY ParallelAssumption
     DEF IInv, ThreadTypes, LockInv, UnitsInv, DoneInv, Serving
<1>2. StopInv'
  BY ParallelAssumption
     DEF IInv, IdleInv, StopInv, Up, Resting, batch, Workers
<1>3. QED
  BY <1>1, <1>2, OnePhase, BatchTypesStutter DEF IInv

LEMMA FreeShutdownStep ==
  ASSUME IInv, FreeShutdown
  PROVE  IInv'
<1> USE DEF FreeShutdown, Shutdown, Wake
<1>1. next \in Workers /\ alive
  BY DEF IInv, StopInv
<1>2. ThreadTypes' /\ LockInv' /\ UnitsInv' /\ DoneInv'
  BY <1>1, ParallelAssumption
     DEF IInv, ThreadTypes, LockInv, UnitsInv, DoneInv, Serving, Workers
<1>3. \A i \in Workers : IF i <= next THEN Down(i)' ELSE Up(i)'
  BY <1>1 DEF IInv, StopInv, ThreadTypes, Down, Up, Resting, Locks, Workers
<1>4. CASE next = NumThreads
  <2>1. JoinInv'
    BY <1>1, <1>3, <1>4, ParallelAssumption DEF JoinInv, Workers, batch
  <2>2. QED
    BY <1>2, <1>4, <2>1, OnePhase, BatchTypesStutter DEF IInv
<1>5. CASE next # NumThreads
  <2>1. StopInv'
    BY <1>1, <1>3, <1>5, ParallelAssumption DEF StopInv, Workers, batch
  <2>2. QED
    BY <1>2, <1>5, <2>1, OnePhase, BatchTypesStutter DEF IInv
<1>6. QED
  BY <1>4, <1>5

LEMMA FreeJoinStep ==
  ASSUME IInv, FreeJoin
  PROVE  IInv'
<1> USE DEF FreeJoin, Join
<1>1. ThreadTypes' /\ LockInv' /\ UnitsInv' /\ DoneInv'
  BY ParallelAssumption
     DEF IInv, ThreadTypes, LockInv, UnitsInv, DoneInv, Serving, Workers
<1>2. JoinInv'
  BY DEF IInv, ThreadTypes, JoinInv, Down, Destroyed, Gone, Workers, batch
<1>3. QED
  BY <1>1, <1>2, OnePhase, BatchTypesStutter DEF IInv

LEMMA EndFreeStep ==
  ASSUME IInv, EndFree
  PROVE  IInv'
<1> USE DEF EndFree, FreeHasher
<1>1. ThreadTypes' /\ LockInv' /\ UnitsInv' /\ DoneInv'
  BY ParallelAssumption
     DEF IInv, ThreadTypes, LockInv, UnitsInv, DoneInv, Serving
<1>2. IdleInv'
  BY ParallelAssumption
     DEF IInv, ThreadTypes, JoinInv, IdleInv, Destroyed, Gone, Workers
<1>3. BatchTypes'
  BY EmptyKeepsTypes, CapAssumption DEF IInv
<1>4. QED
  BY <1>1, <1>2, <1>3, OnePhase

-----------------------------------------------------------------------------
(* The caller's steps: update.                                             *)
LEMMA BeginUpdateStep ==
  ASSUME IInv, NEW in \in InputsAt(Len(message)), BeginUpdate(in)
  PROVE  IInv'
<1> USE DEF BeginUpdate
<1>1. ThreadTypes' /\ LockInv' /\ UnitsInv' /\ DoneInv'
  BY ParallelAssumption
     DEF IInv, ThreadTypes, LockInv, UnitsInv, DoneInv, Serving
<1>2. ServeInv'
  <2>1. in \in AllInputs /\ total_chunks \in Nat
    BY InputAtIsInput DEF IInv, BatchTypes
  <2>2. 1 \in DOMAIN units'
    BY <2>1, UnitsOfUpdate DEF Workers
  <2>3. \A i \in Workers : Up(i)'
    BY DEF IInv, IdleInv, Up, Resting
  <2>4. \A i \in Workers : ~(i < next')
    BY DEF Workers
  <2>5. QED
    BY <2>2, <2>3, <2>4 DEF ServeInv, batch
<1>3. QED
  BY <1>1, <1>2, OnePhase, BatchTypesStutter DEF IInv, Serving

LEMMA PostStep ==
  ASSUME IInv, Post
  PROVE  IInv'
<1> USE DEF Post, Wake
<1>1. PICK m \in Workers : DOMAIN units = 1..m
  BY UnitsServed DEF Serving
<1>2. next \in DOMAIN units /\ next \in Workers /\ 1..m \in SUBSET Workers
  BY <1>1, UnitsServed DEF IInv, ServeInv, Serving
<1>3. ThreadTypes' /\ LockInv' /\ UnitsInv' /\ DoneInv'
  <2>1. ThreadTypes'
    <3>1. next' \in 1..(NumThreads + 1) /\ pc' \in {"post", "await"}
      BY <1>1, <1>2, ParallelAssumption DEF Advance, Workers
    <3>2. /\ wpc' \in [Workers -> {"none", "check", "asleep", "process",
                                  "finish", "exited"}]
          /\ mutex' \in [Workers -> {"free", "caller", "worker", "leaked",
                                    "destroyed"}]
          /\ done' \in [Workers -> BOOLEAN]
      BY DEF IInv, ThreadTypes
    <3>3. work' = [i \in Workers |-> work'[i]]
      BY DEF IInv, ThreadTypes
    <3>4. QED
      BY <3>1, <3>2, <3>3 DEF IInv, ThreadTypes
  <2>2. LockInv' /\ UnitsInv' /\ DoneInv'
    BY <1>1, <1>2
       DEF IInv, ThreadTypes, LockInv, UnitsInv, DoneInv, Serving, Advance,
           Workers
  <2>3. QED
    BY <2>1, <2>2
<1>4. \A i \in Workers : IF i \in DOMAIN units /\ i <= next
                        THEN Posted(i)' ELSE Up(i)'
  <2> TAKE i \in Workers
  <2>1. CASE i = next
    BY <1>2, <2>1
       DEF IInv, ServeInv, Serving, ThreadTypes, Posted, Up, Resting, Locks,
           Workers
  <2>2. CASE i < next /\ i \in DOMAIN units
    BY <1>2, <2>2
       DEF IInv, ServeInv, Serving, ThreadTypes, Posted, Resting, Answer,
           Locks, batch, Workers
  <2>3. CASE i # next /\ ~(i < next /\ i \in DOMAIN units)
    BY <1>2, <2>3
       DEF IInv, ServeInv, Serving, ThreadTypes, Up, Resting, Locks, Workers
  <2>4. QED
    BY <1>2, <2>1, <2>2, <2>3 DEF Workers
<1>5. next' \in DOMAIN units'
      /\ \/ pc' = "post" /\ next' = next + 1
         \/ pc' = "await" /\ next = m
  BY <1>1, <1>2 DEF Advance, Workers
<1>6. ServeInv'
  <2>1. /\ alive' /\ initialized'
        /\ input' \in InputsAt(Len(message'))
        /\ Len(message') + Len(input') <= MaxLen
        /\ GoesParallel(input')
        /\ units' = Units(input', total_chunks')
    BY DEF IInv, ServeInv, Serving, batch
  <2>2. \A i \in Workers : IF i \in DOMAIN units' /\ (pc' = "post" => i < next')
                          THEN Posted(i)' ELSE Up(i)'
    BY <1>1, <1>2, <1>4, <1>5 DEF Workers
  <2>3. QED
    BY <1>5, <2>1, <2>2 DEF ServeInv
<1>7. QED
  BY <1>3, <1>5, <1>6, OnePhase, BatchTypesStutter DEF IInv, Serving

LEMMA AwaitStep ==
  ASSUME IInv, Await
  PROVE  IInv'
<1> USE DEF Await
<1>1. PICK m \in Workers : DOMAIN units = 1..m
  BY UnitsServed DEF Serving
<1>2. next \in DOMAIN units /\ next \in Workers /\ 1..m \in SUBSET Workers
  BY <1>1, UnitsServed DEF IInv, ServeInv, Serving
<1>3. \/ done[next] /\ pc' = "await" /\ next' = next + 1 /\ next' <= m
      \/ done[next] /\ pc' = "collect" /\ next' = 1 /\ next = m
      \/ ~done[next] /\ pc' = "asleep" /\ next' = next
  BY <1>1, <1>2 DEF Advance, Workers
<1>4. ThreadTypes' /\ LockInv' /\ UnitsInv'
  BY <1>1, <1>2, <1>3, ParallelAssumption
     DEF IInv, ThreadTypes, LockInv, UnitsInv, Serving, Workers
<1>5. DoneInv'
  BY <1>1, <1>2, <1>3 DEF IInv, DoneInv, Workers
<1>6. \A i \in Workers : IF i \in DOMAIN units THEN Posted(i)' ELSE Up(i)'
  BY <1>2
     DEF IInv, ServeInv, Serving, ThreadTypes, Posted, Up, Resting, Answer,
         Locks, batch
<1>7. ServeInv'
  BY <1>1, <1>2, <1>3, <1>6 DEF IInv, ServeInv, Serving, batch, Workers
<1>8. QED
  BY <1>3, <1>4, <1>5, <1>7, OnePhase, BatchTypesStutter DEF IInv, Serving

(* At the end of an update each unit has its answer and each worker rests. *)
LEMMA AllAnswered ==
  ASSUME IInv, pc = "collect"
  PROVE  /\ \A i \in DOMAIN units : results[i] = Answer(i)
         /\ \A i \in Workers : Up(i)
<1>1. \A i \in DOMAIN units : i \in Workers /\ Posted(i) /\ done[i]
  BY UnitsServed DEF IInv, ServeInv, DoneInv, Serving
<1>2. \A i \in DOMAIN units : results[i] = Answer(i) /\ Up(i)
  BY <1>1 DEF Posted, Up
<1>3. \A i \in Workers : i \notin DOMAIN units => Up(i)
  BY DEF IInv, ServeInv, Serving
<1>4. QED
  BY <1>2, <1>3

LEMMA EndUpdateStep ==
  ASSUME IInv, EndUpdate
  PROVE  IInv'
<1> USE DEF EndUpdate
<1>1. ThreadTypes' /\ LockInv' /\ UnitsInv' /\ DoneInv'
  BY ParallelAssumption
     DEF IInv, ThreadTypes, LockInv, UnitsInv, DoneInv, Serving
<1>2. IdleInv'
  <2>1. alive'
    <3>1. alive
      BY DEF IInv, ServeInv, Serving
    <3>2. alive' = alive
      BY DEF Collect
    <3>3. QED
      BY <3>1, <3>2
  <2>2. \A i \in Workers : Up(i)'
    BY AllAnswered DEF Up, Resting
  <2>3. QED
    BY <2>1, <2>2 DEF IdleInv
<1>3. BatchTypes'
  <2> DEFINE r == [i \in DOMAIN units |-> results[i]]
  <2>1. PICK m \in Workers : DOMAIN units = 1..m
    BY UnitsServed DEF Serving
  <2>2. \A i \in 1..m : r[i].chunks_processed \in Nat
    BY <2>1, UnitsServed, AllAnswered DEF Serving, Answer
  <2>3. DOMAIN r = 1..m /\ m \in Nat
    BY <2>1 DEF Workers
  <2>4. PICK kept \in 0..Cardinality(DOMAIN r) : Collect(input, r, kept)
    BY <2>1
  <2>5. /\ input \in InputsAt(Len(message))
        /\ Len(message) + Len(input) <= MaxLen
    BY DEF IInv, ServeInv, Serving
  <2> HIDE DEF r
  <2>6. QED
    BY <2>2, <2>3, <2>4, <2>5, CollectKeepsTypes DEF IInv
<1>4. QED
  BY <1>1, <1>2, <1>3, OnePhase

LEMMA LocalCallStep ==
  ASSUME IInv, LocalCall
  PROVE  IInv'
<1>1. UNCHANGED threads /\ pc = "idle"
  BY DEF LocalCall
<1>2. alive' = alive
  BY DEF LocalCall, InitHasherTo, UpdateSerial, Finalize, Reset
<1>3. ThreadTypes' /\ LockInv' /\ UnitsInv' /\ DoneInv'
  BY <1>1 DEF IInv, ThreadTypes, LockInv, UnitsInv, DoneInv, Serving, threads
<1>4. IdleInv'
  BY <1>1, <1>2 DEF IInv, IdleInv, Up, Destroyed, Gone, Resting, threads
<1>5. BatchTypes'
  BY LocalCallKeepsTypes DEF IInv
<1>6. QED
  BY <1>1, <1>3, <1>4, <1>5, OnePhase DEF threads

-----------------------------------------------------------------------------
(* The inductive invariant holds in every state.                           *)
LEMMA IInvInit == PInit => IInv
<1> SUFFICES ASSUME PInit PROVE IInv
  OBVIOUS
<1>1. ThreadTypes /\ LockInv /\ UnitsInv /\ DoneInv
  BY ParallelAssumption
     DEF PInit, ThreadTypes, LockInv, UnitsInv, DoneInv, Serving
<1>2. IdleInv
  BY DEF PInit, BatchInit, IdleInv, Destroyed, Gone
<1>3. CreateInv /\ AbortInv /\ AbortJoinInv /\ StopInv /\ JoinInv /\ ServeInv
  BY DEF PInit, CreateInv, AbortInv, AbortJoinInv, StopInv, JoinInv, ServeInv,
         Serving
<1>4. QED
  BY <1>1, <1>2, <1>3, BatchTypesInit DEF PInit, IInv

LEMMA IInvStutter ==
  ASSUME IInv, UNCHANGED vars
  PROVE  IInv'
<1>1. ASSUME NEW j \in Workers PROVE KeepsKind(j)
  BY DEF vars, threads, batch, KeepsKind, Up, Down, Gone, Posted, Resting,
         Answer
<1>2. ThreadTypes' /\ LockInv'
  BY DEF IInv, ThreadTypes, LockInv, vars, threads
<1>3. pc' = pc /\ (pc' = "asleep" => ~done'[next])
      /\ UNCHANGED <<batch, next, input, units>>
  BY DEF IInv, DoneInv, vars, threads
<1>4. QED
  BY <1>1, <1>2, <1>3, KindsKeepIInv

LEMMA IInvStep == IInv /\ [PNext]_vars => IInv'
<1> SUFFICES ASSUME IInv, [PNext]_vars PROVE IInv'
  OBVIOUS
<1>1. CASE BeginNew \/ BeginFree \/ LocalCall
  BY <1>1, BeginNewStep, BeginFreeStep, LocalCallStep
<1>2. ASSUME NEW in \in InputsAt(Len(message)), BeginUpdate(in) PROVE IInv'
  BY <1>2, BeginUpdateStep
<1>3. CASE CallerLock \/ CallerSpurious
  BY <1>3, CallerLockStep, CallerSpuriousStep
<1>4. CASE CallerStep
  BY <1>4, CreateWorkerStep, CreateFailsStep, EndNewStep, AbortShutdownStep,
     AbortJoinStep, EndAbortStep, FreeShutdownStep, FreeJoinStep, EndFreeStep,
     PostStep, AwaitStep, EndUpdateStep
     DEF CallerStep
<1>5. ASSUME NEW i \in Workers,
             WorkerLock(i) \/ WorkerStep(i) \/ WorkerSpurious(i)
      PROVE  IInv'
  BY <1>5, WorkerLockStep, WorkerCheckStep, WorkerProcessStep,
     WorkerFinishStep, WorkerSpuriousStep
     DEF WorkerStep
<1>6. CASE UNCHANGED vars
  BY <1>6, IInvStutter
<1>7. QED
  BY <1>1, <1>2, <1>3, <1>4, <1>5, <1>6 DEF PNext

THEOREM Inductive == PSpec => []IInv
BY IInvInit, IInvStep, PTL DEF PSpec

-----------------------------------------------------------------------------
(* Every unit belongs to a worker, every loop index is in bounds, and the  *)
(* CV array has room for the CVs in it, however often it had to grow.      *)
LEMMA IInvTypes == IInv => TypeOK
<1> SUFFICES ASSUME IInv PROVE TypeOK
  OBVIOUS
<1>1. DOMAIN units \subseteq Workers /\ \A i \in DOMAIN units : UnitType(units[i])
  <2>1. CASE pc \in Serving
    BY <2>1, UnitsServed, Zenon
  <2>2. CASE pc \notin Serving
    BY <2>2 DEF IInv, UnitsInv
  <2>3. QED
    BY <2>1, <2>2
<1>2. DOMAIN work = Workers /\ DOMAIN mine = Workers /\ DOMAIN results = Workers
  BY DEF IInv, ThreadTypes
<1>3. QED
  BY <1>1, <1>2 DEF IInv, ThreadTypes, BatchTypes, TypeOK

THEOREM TypeCorrect == PSpec => []TypeOK
BY Inductive, IInvTypes, PTL

(* No worker holds a unit after update has freed the units, and none runs  *)
(* after its mutex has been destroyed.                                     *)
LEMMA IInvMemory == IInv => MemoryOutlivesWorkers
<1> SUFFICES ASSUME IInv, NEW i \in Workers
             PROVE  /\ work[i] # None => i \in DOMAIN units /\ work[i] = units[i]
                    /\ mine[i] # None => i \in DOMAIN units /\ mine[i] = units[i]
                    /\ wpc[i] \notin {"none", "exited"} =>
                         mutex[i] \in {"free", "caller", "worker"}
  BY DEF MemoryOutlivesWorkers
<1>1. \/ Up(i) \/ Down(i) \/ Gone(i)
      \/ i \in DOMAIN units /\ Posted(i)
  BY DEF IInv, ThreadTypes, IdleInv, CreateInv, AbortInv, AbortJoinInv,
         StopInv, JoinInv, ServeInv, Serving, Destroyed
<1>2. QED
  BY <1>1 DEF Up, Down, Gone, Posted, Resting, Locks

THEOREM MemorySafe == PSpec => []MemoryOutlivesWorkers
BY Inductive, IInvMemory, PTL

(* No signal is missed: nobody sleeps through what it waits for.           *)
LEMMA IInvWakeups == IInv => NoLostWakeup
<1> SUFFICES ASSUME IInv PROVE NoLostWakeup
  OBVIOUS
<1>1. ASSUME NEW i \in Workers, wpc[i] = "asleep"
      PROVE  work[i] = None /\ ~shutdown[i]
  <2>1. \/ Up(i) \/ Down(i) \/ Gone(i)
        \/ i \in DOMAIN units /\ Posted(i)
    BY DEF IInv, ThreadTypes, IdleInv, CreateInv, AbortInv, AbortJoinInv,
           StopInv, JoinInv, ServeInv, Serving, Destroyed
  <2>2. QED
    BY <1>1, <2>1 DEF Up, Down, Gone, Posted, Resting
<1>2. ASSUME pc = "asleep"
      PROVE  ~done[next] /\ wpc[next] \in {"check", "process", "finish"}
  <2>1. next \in DOMAIN units /\ next \in Workers /\ ~done[next]
    BY <1>2, UnitsServed DEF IInv, ServeInv, DoneInv, Serving
  <2>2. Posted(next)
    BY <1>2, <2>1 DEF IInv, ServeInv, Serving
  <2>3. QED
    BY <2>1, <2>2 DEF Posted
<1>3. QED
  BY <1>1, <1>2 DEF NoLostWakeup

THEOREM WakeupsArrive == PSpec => []NoLostWakeup
BY Inductive, IInvWakeups, PTL

-----------------------------------------------------------------------------
(* The threads implement the batch.                                        *)
LEMMA EndUpdateIsUpdate ==
  ASSUME IInv, EndUpdate
  PROVE  BatchNext
<1> DEFINE r == [i \in DOMAIN units |-> results[i]]
           answers == [i \in DOMAIN units |-> ProcessChunks(units[i], key)]
<1>1. pc = "collect" /\ pc \in Serving
  BY DEF EndUpdate, Serving
<1>2. r = answers
  BY <1>1, AllAnswered DEF Answer
<1>3. /\ alive /\ initialized
      /\ input \in InputsAt(Len(message))
      /\ Len(message) + Len(input) <= MaxLen
      /\ GoesParallel(input)
      /\ units = Units(input, total_chunks)
  BY <1>1 DEF IInv, ServeInv
<1>4. PICK kept \in 0..Cardinality(DOMAIN units) : Collect(input, r, kept)
  BY DEF EndUpdate
<1> HIDE DEF r
<1>5. Collect(input, answers, kept)
  BY <1>2, <1>4, Zenon
<1>6. UpdateParallel(input)
  BY <1>3, <1>5, Zenon DEF UpdateParallel
<1>7. QED
  BY <1>3, <1>6 DEF BatchNext, Update

LEMMA StepImplements ==
  ASSUME IInv, [PNext]_vars
  PROVE  UNCHANGED batch \/ BatchNext
<1>1. CASE BeginNew \/ BeginFree \/ CallerLock \/ CallerSpurious
  BY <1>1 DEF BeginNew, BeginFree, CallerLock, CallerSpurious
<1>2. CASE LocalCall
  BY <1>2, Zenon DEF LocalCall, BatchNext, Update
<1>3. ASSUME NEW in \in InputsAt(Len(message)), BeginUpdate(in)
      PROVE  UNCHANGED batch
  BY <1>3 DEF BeginUpdate
<1>4. CASE CallerStep
  <2>1. CASE EndNew
    BY <2>1, Zenon DEF EndNew, BatchNext
  <2>2. CASE EndFree
    BY <2>2, Zenon DEF EndFree, BatchNext
  <2>3. CASE EndUpdate
    BY <2>3, EndUpdateIsUpdate
  <2>4. CASE \/ CreateWorker \/ CreateFails
             \/ AbortShutdown \/ AbortJoin \/ EndAbort
             \/ FreeShutdown \/ FreeJoin \/ Post \/ Await
    BY <2>4, Zenon
       DEF CreateWorker, CreateFails, AbortShutdown, AbortJoin, EndAbort,
           FreeShutdown, FreeJoin, Post, Await, Shutdown, Join
  <2>5. QED
    BY <1>4, <2>1, <2>2, <2>3, <2>4, Zenon DEF CallerStep
<1>5. ASSUME NEW i \in Workers,
             WorkerLock(i) \/ WorkerStep(i) \/ WorkerSpurious(i)
      PROVE  UNCHANGED batch
  BY <1>5, Zenon
     DEF WorkerLock, WorkerStep, WorkerCheck, WorkerProcess, WorkerFinish,
         WorkerSpurious
<1>6. CASE UNCHANGED vars
  BY <1>6 DEF vars
<1>7. QED
  BY <1>1, <1>2, <1>3, <1>4, <1>5, <1>6, Zenon DEF PNext

THEOREM ThreadsImplementBatch == PSpec => ImplementsBatch
<1>1. PInit => BatchInit
  BY DEF PInit
<1>2. IInv /\ [PNext]_vars => [UNCHANGED batch \/ BatchNext]_batch
  BY StepImplements
<1>3. QED
  BY <1>1, <1>2, Inductive, PTL DEF PSpec, ImplementsBatch

(* The same in the words of the abstract specification.                    *)
THEOREM ThreadsImplementBatchSpec == PSpec => BatchSpec
<1>1. PInit => BatchInit
  BY DEF PInit
<1>2. IInv /\ [PNext]_vars => [BatchNext]_batch
  BY StepImplements
<1>3. QED
  BY <1>1, <1>2, Inductive, PTL DEF PSpec, BatchSpec
=============================================================================
