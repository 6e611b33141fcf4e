------------------------------- MODULE Hasher -------------------------------
(***************************************************************************)
(* One blake4_hasher driven by its caller (src/blake4.c): every public     *)
(* call that changes it or reads a digest from it, in any legal order.     *)
(*                                                                         *)
(* blake4_hasher_update is modelled turn by turn of its two nested loops:  *)
(* BeginUpdate, then FlushChunk, MergeCV and EndPush (hasher_push_cv) and  *)
(* FillBuffer until EndUpdate.  The other calls have no inner state that   *)
(* survives a turn and are one action each.                                *)
(*                                                                         *)
(* mode, message and savedAs are history variables: what was asked for, as *)
(* HashSpec sees it.  No other variable depends on them, except that       *)
(* MaxLen and SaveAt bound the runs by the length of the message.          *)
(*                                                                         *)
(* blake4_hasher_deserialize looks at a magic and at three lengths, so it  *)
(* also accepts buffers that no serialize filled.  mode = None marks a     *)
(* hasher restored from one: nobody asked for what it holds.               *)
(***************************************************************************)
EXTENDS HasherOps, BitCount

CONSTANTS
  Keys, Contexts,     \* keys and key-derivation contexts in use
  InputsAt(_),        \* inputs to append to a message of the given length
  Seeks, OutLens,     \* output positions and lengths asked for
  MaxLen,             \* bound: bytes hashed between two inits
  SaveAt,             \* bound: message lengths at which callers serialize
  Others,             \* structs in buffers that deserialize accepts anyway
  Overruns,           \* what a write behind cv_stack leaves in the two bytes there
  ResetRefused,       \* do callers reset a hasher a failed restore has touched?
  None

ASSUME InputAssumption ==
  /\ MaxLen \in Nat
  /\ \A n \in 0..MaxLen : InputsAt(n) \subseteq Seq(Nat)

(* A context is hashed like any message; positions are counted from 0.     *)
ASSUME ArgumentAssumption ==
  /\ \A c \in Contexts : c \in Seq(Nat) /\ Len(c) <= MaxLen
  /\ Seeks \subseteq Nat
  /\ OutLens \subseteq Nat

(* "Max tree depth for 2^54 chunks" (include/blake4.h:29): the stack has a *)
(* slot for every one bit of a chunk count that is reached.                *)
ASSUME DepthCoversMaxLen ==
  \A n \in 0..MaxLen : n * ChunkLen <= MaxLen => Ones[n] <= MaxDepth

HasherType(h) ==
  /\ h = [ cv            |-> h.cv,
           key_words     |-> h.key_words,
           chunk_counter |-> h.chunk_counter,
           chunk_buf     |-> h.chunk_buf,
           cv_stack      |-> h.cv_stack,
           cv_stack_len  |-> h.cv_stack_len,
           flags         |-> h.flags ]
  /\ h.chunk_counter \in Nat
  /\ h.chunk_buf \in Seq(Nat)
  /\ DOMAIN h.cv_stack = Slots
  /\ h.cv_stack_len \in 0..255

(* Faulty variant: a chunk that waits to be flushed is taken for an error. *)
AcceptsPartial(h) == Len(h.chunk_buf) < ChunkLen /\ h.cv_stack_len <= MaxDepth

(* What deserialize accepts (blake4.c:495, 506, 516): nothing says that the *)
(* stack fits the counter, or that the bytes were ever hashed.             *)
Accepts(h) == Len(h.chunk_buf) <= ChunkLen /\ h.cv_stack_len <= MaxDepth

(* Bound: no counter of Others is so high that a run reaches 2^64 chunks.  *)
ASSUME OthersAssumption ==
  /\ \A b \in Others : HasherType(b)
  /\ Overruns # {}
  /\ \A o \in Overruns : o.cv_stack_len \in 0..255

VARIABLES
  hasher,     \* the struct
  pc,         \* "idle", "update", "push" or "refused"
  input,      \* update's in, input_len: the bytes not yet consumed
  carry,      \* hasher_push_cv's cv
  total,      \* hasher_push_cv's total_chunks, shifted right at each merge
  state,      \* the buffer blake4_hasher_serialize filled, or None
  digest,     \* what the last call wrote to its output, or None
  mode, message, savedAs

calling == <<input, carry, total>>
history == <<mode, message, savedAs>>
vars == <<hasher, pc, calling, state, digest, history>>

Fresh ==
  {[hasher |-> InitPlain, mode |-> [key |-> IV, flags |-> {}]]}
  \cup {[hasher |-> InitKeyed(k),
         mode |-> [key |-> Key(k), flags |-> {"KEYED_HASH"}]] : k \in Keys}
  \cup {[hasher |-> InitDeriveKey(c),
         mode |-> [key |-> InitDeriveKey(c).key_words,
                   flags |-> {"DERIVE_KEY_MATERIAL"}]] : c \in Contexts}

ModesInUse == {f.mode : f \in Fresh}

ASSUME NoneAssumption ==
  /\ None \notin ModesInUse
  /\ None \notin [mode : ModesInUse \cup {None}, message : Seq(Nat)]

Init ==
  /\ \E f \in Fresh : hasher = f.hasher /\ mode = f.mode
  /\ pc = "idle"
  /\ input = <<>> /\ carry = None /\ total = 0
  /\ state = None
  /\ digest = None
  /\ message = <<>> /\ savedAs = None

-----------------------------------------------------------------------------
(* init, init_keyed, init_derive_key[_raw], on a hasher in any condition.  *)
Start ==
  /\ pc \in {"idle", "refused"}
  /\ \E f \in Fresh : hasher' = f.hasher /\ mode' = f.mode
  /\ pc' = "idle"
  /\ digest' = None
  /\ message' = <<>>
  /\ UNCHANGED <<calling, state, savedAs>>

BeginUpdate(in) ==
  /\ pc = "idle"
  /\ Len(message) + Len(in) <= MaxLen
  /\ pc' = "update"
  /\ input' = in
  /\ digest' = None
  /\ message' = message \o in
  /\ UNCHANGED <<hasher, carry, total, state, mode, savedAs>>

(* Faulty variant: a full chunk is flushed without waiting for a byte that *)
(* follows it.                                                             *)
FlushChunkEager ==
  /\ pc = "update"
  /\ Len(hasher.chunk_buf) = ChunkLen
  /\ pc' = "push"
  /\ carry' = ChainingValue(ChunkOutput(hasher))
  /\ total' = hasher.chunk_counter + 1
  /\ UNCHANGED <<hasher, input, state, digest, history>>

(* Faulty variant: the number of chunks before this one is passed.         *)
FlushChunkOffByOne ==
  /\ pc = "update"
  /\ input # <<>>
  /\ Len(hasher.chunk_buf) = ChunkLen
  /\ pc' = "push"
  /\ carry' = ChainingValue(ChunkOutput(hasher))
  /\ total' = hasher.chunk_counter
  /\ UNCHANGED <<hasher, input, state, digest, history>>

FlushChunk ==
  /\ pc = "update"
  /\ input # <<>>
  /\ Len(hasher.chunk_buf) = ChunkLen
  /\ pc' = "push"
  /\ carry' = ChainingValue(ChunkOutput(hasher))
  /\ total' = hasher.chunk_counter + 1
  /\ UNCHANGED <<hasher, input, state, digest, history>>

MergeCV ==
  /\ pc = "push"
  /\ total % 2 = 0
  /\ hasher' = PopTop(hasher)
  /\ carry' = MergedCV(hasher, carry)
  /\ total' = total \div 2
  /\ UNCHANGED <<pc, input, state, digest, history>>

(* Behind the last slot lie cv_stack_len and flags (include/blake4.h:41-43);*)
(* a slot after that is behind the struct.                                 *)
Pushed(h, cv) ==
  IF h.cv_stack_len < MaxDepth THEN {PushTop(h, cv)}
  ELSE IF h.cv_stack_len = MaxDepth
  THEN {[h EXCEPT !.cv_stack_len = o.cv_stack_len, !.flags = o.flags] :
          o \in Overruns}
  ELSE {[h EXCEPT !.cv_stack_len = (@ + 1) % 256]}

EndPush ==
  /\ pc = "push"
  /\ total % 2 = 1
  /\ \E h \in Pushed(hasher, carry) :
       hasher' = NextChunk(h, hasher.chunk_counter + 1)
  /\ pc' = "update"
  /\ carry' = None
  /\ total' = 0
  /\ UNCHANGED <<input, state, digest, history>>

FillBuffer ==
  /\ pc = "update"
  /\ input # <<>>
  /\ Len(hasher.chunk_buf) < ChunkLen
  /\ hasher' = Buffer(hasher, SubSeq(input, 1, Take(hasher, input)))
  /\ input' = SubSeq(input, Take(hasher, input) + 1, Len(input))
  /\ UNCHANGED <<pc, carry, total, state, digest, history>>

EndUpdate ==
  /\ pc = "update"
  /\ input = <<>>
  /\ pc' = "idle"
  /\ UNCHANGED <<hasher, calling, state, digest, history>>

-----------------------------------------------------------------------------
(* finalize (seek 0) and finalize_seek: the hasher is const.               *)
Finalize(seek, out_len) ==
  /\ pc = "idle"
  /\ digest' = FinalizeSeek(hasher, seek, out_len)
  /\ UNCHANGED <<hasher, pc, calling, state, history>>

Reset ==
  /\ pc = "idle" \/ (ResetRefused /\ pc = "refused")
  /\ hasher' = ResetHasher(hasher)
  /\ pc' = "idle"
  /\ digest' = None
  /\ message' = <<>>
  /\ UNCHANGED <<calling, state, mode, savedAs>>

-----------------------------------------------------------------------------
(* serialize and deserialize.  The buffer holds every field; the lengths   *)
(* are stored beside the arrays they describe.                             *)
Serialize ==
  /\ pc = "idle"
  /\ Len(message) \in SaveAt
  /\ state' = hasher
  /\ digest' = None
  /\ savedAs' = [mode |-> mode, message |-> message]
  /\ UNCHANGED <<hasher, pc, calling, mode, message>>

(* A buffer that serialize filled.  It is not accepted if the stack of a   *)
(* hasher of other origin had left its array when it was saved.            *)
Deserialize ==
  /\ pc \in {"idle", "refused"}
  /\ state # None
  /\ Accepts(state)
  /\ hasher' = state
  /\ pc' = "idle"
  /\ digest' = None
  /\ mode' = savedAs.mode
  /\ message' = savedAs.message
  /\ UNCHANGED <<calling, state, savedAs>>

(* Any other buffer with the magic and three lengths in range.             *)
DeserializeOther(b) ==
  /\ pc \in {"idle", "refused"}
  /\ Accepts(b)
  /\ hasher' = b
  /\ pc' = "idle"
  /\ digest' = None
  /\ mode' = None
  /\ message' = <<>>
  /\ UNCHANGED <<calling, state, savedAs>>

(* The fields are stored in self as they are read, so a buffer refused for *)
(* one of its three lengths leaves the fields before that length, and the  *)
(* length itself, overwritten.                                             *)
LoadedBefore(b, damage) ==
  LET to_buf == [hasher EXCEPT !.cv = b.cv, !.key_words = b.key_words,
                               !.chunk_counter = b.chunk_counter]
  IN  CASE damage = "buf_len" -> to_buf
        [] damage = "chunk_buf_len" ->
             [to_buf EXCEPT !.chunk_buf = [i \in 1..(ChunkLen + 1) |-> 0]]
        [] damage = "cv_stack_len" ->
             [to_buf EXCEPT !.chunk_buf = b.chunk_buf, !.cv_stack = b.cv_stack,
                            !.cv_stack_len = MaxDepth + 1]

(* Too small a buffer or a wrong magic is noticed before anything is read. *)
DeserializeNoState ==
  /\ pc \in {"idle", "refused"}
  /\ digest' = None
  /\ UNCHANGED <<hasher, pc, calling, state, history>>

(* The buffers callers have, whoever filled them.                          *)
Buffers == Others \cup (IF state = None THEN {} ELSE {state})

DeserializeDamaged(b, damage) ==
  /\ pc \in {"idle", "refused"}
  /\ hasher' = LoadedBefore(b, damage)
  /\ pc' = "refused"
  /\ digest' = None
  /\ message' = <<>>
  /\ UNCHANGED <<calling, state, mode, savedAs>>

UpdateStep == FlushChunk \/ MergeCV \/ EndPush \/ FillBuffer \/ EndUpdate

Next ==
  \/ Start
  \/ \E in \in InputsAt(Len(message)) : BeginUpdate(in)
  \/ UpdateStep
  \/ \E seek \in Seeks, out_len \in OutLens : Finalize(seek, out_len)
  \/ Reset
  \/ Serialize
  \/ Deserialize
  \/ \E b \in Others : DeserializeOther(b)
  \/ DeserializeNoState
  \/ \E b \in Buffers, damage \in {"buf_len", "chunk_buf_len", "cv_stack_len"} :
       DeserializeDamaged(b, damage)

Spec == Init /\ [][Next]_vars

-----------------------------------------------------------------------------
(* Type invariant: the struct, and the copy of it that was serialized,     *)
(* keep their shape and every counter its range.                           *)
TypeOK ==
  /\ HasherType(hasher)
  /\ state # None => HasherType(state)
  /\ pc \in {"idle", "update", "push", "refused"}
  /\ input \in Seq(Nat)
  /\ total \in Nat
  /\ message \in Seq(Nat)

(* What a caller asked for is known: every restore was of a state that     *)
(* serialize had written, of a hasher of which this held.                  *)
Own == mode # None

(* hasher_push_cv decrements cv_stack_len without looking at it and writes *)
(* at cv_stack[cv_stack_len] without a bound.  Unless the hasher comes     *)
(* from a buffer that serialize did not fill, it never pops an empty stack *)
(* and never pushes on a full one.                                         *)
StackInBounds ==
  Own /\ pc = "push" => IF total % 2 = 0 THEN hasher.cv_stack_len > 0
                                         ELSE hasher.cv_stack_len < MaxDepth

(* Between pushes the stack of such a hasher holds one CV per one bit of   *)
(* chunk_counter: a complete subtree for each power of two in the number   *)
(* of chunks pushed.  finalize_seek relies on it when it folds the whole   *)
(* stack.                                                                  *)
StackMatchesCounter ==
  Own /\ pc \in {"idle", "update"} =>
    hasher.cv_stack_len = Ones[hasher.chunk_counter]

(* No byte is lost or counted twice across any sequence of updates, saves  *)
(* and restores, and update never flushes the last chunk of a non-empty    *)
(* message: it stays buffered, since it may have to be compressed as the   *)
(* root or as the right edge of the tree.                                  *)
BytesAccounted ==
  Own /\ pc # "refused" =>
    /\ Len(message) = hasher.chunk_counter * ChunkLen
                      + Len(hasher.chunk_buf) + Len(input)
    /\ Len(hasher.chunk_buf) <= ChunkLen
    /\ message # <<>> => hasher.chunk_buf # <<>> \/ input # <<>>

(* With an ideal compression function two hashers finish with the same     *)
(* root exactly when they were given the same mode and the same message:   *)
(* the flags, counters, lengths and tree shapes separate all others.       *)
DigestSeparates ==
  Own /\ pc = "idle" /\ savedAs # None /\ savedAs.mode # None =>
    (RootBlock(RootNode(hasher), 0) = RootBlock(RootNode(state), 0)
       <=> savedAs = [mode |-> mode, message |-> message])

(* "Reset hasher to initial state (preserving key if keyed)"               *)
(* (include/blake4.h:92): a hasher that is ready hashes under the key and  *)
(* the flags of the mode it was last initialised or restored with.         *)
KeepsMode ==
  Own /\ pc = "idle" => /\ hasher.key_words = mode.key
                        /\ hasher.flags = mode.flags

(* Saves restore: the state of a hasher that is ready is one deserialize   *)
(* accepts when it has been saved, however full buffer and stack are.      *)
(* fuzz/fuzz_deserialize.c:44 expects it of hashers of other origin, too   *)
(* ("Re-deserialization should work"), but their stack may have left its   *)
(* array by then.                                                          *)
SavesRestore == Own /\ pc = "idle" => Accepts(hasher)

(* The hasher implements its abstract specification: whatever way the      *)
(* bytes were cut into updates, and whatever resets, saves and restores    *)
(* came between, each digest is the requested window of the output stream  *)
(* of TreeHash on exactly the bytes the caller appended, under the mode    *)
(* the caller asked for.  A hasher left half overwritten by a refused      *)
(* restore, or restored from a buffer that serialize did not fill, has no  *)
(* mode until it is initialised or restored from a saved one.              *)
ShownMode    == IF pc = "refused" THEN None ELSE mode
ShownMessage == IF mode = None THEN <<>> ELSE message
ShownDigest  == IF mode = None THEN None ELSE digest
ShownSaved   == IF savedAs # None /\ savedAs.mode = None THEN None ELSE savedAs
Promise == INSTANCE HashSpec
  WITH mode <- ShownMode, message <- ShownMessage, digest <- ShownDigest,
       saved <- ShownSaved
ImplementsHashSpec == Promise!Spec
=============================================================================
