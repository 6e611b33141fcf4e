--------------------------- MODULE ParallelBatch ---------------------------
(***************************************************************************)
(* What a caller may rely on of blake4_parallel_hasher: each call takes    *)
(* effect at once, as if the work units of an update were processed one    *)
(* after the other by the caller, whatever the worker threads do.          *)
(***************************************************************************)
EXTENDS ParallelOps

CONSTANTS
  Keys,
  InputsAt(_),   \* inputs to append to a message of the given length
  OutLens,
  InitialCap,    \* 64 in the code
  MaxLen,        \* bound: bytes hashed between two inits or resets
  None

ASSUME CapAssumption == InitialCap \in Nat \ {0}

(* Inputs are finite sequences of bytes.                                   *)
AllInputs == UNION {InputsAt(n) : n \in 0..MaxLen}
DataBytes == UNION {{in[i] : i \in DOMAIN in} : in \in AllInputs}
ASSUME InputAssumption ==
  /\ MaxLen \in Nat
  /\ \A n \in 0..MaxLen : InputsAt(n) \subseteq Seq(DataBytes)

VARIABLES
  alive,          \* has new returned a hasher that is not yet freed?
  initialized,
  key, serial, cv_stack, cv_stack_cap, total_chunks,
  digest,         \* what the last call wrote to its output, or None
  message         \* history: the bytes passed to update

batch == <<alive, initialized, key, serial, cv_stack, cv_stack_cap,
           total_chunks, digest, message>>

BatchInit ==
  /\ alive = FALSE /\ initialized = FALSE
  /\ key = NoKey /\ serial = None
  /\ cv_stack = <<>> /\ cv_stack_cap = InitialCap /\ total_chunks = 0
  /\ digest = None /\ message = <<>>

Empty ==
  /\ cv_stack' = <<>>
  /\ total_chunks' = 0
  /\ digest' = None
  /\ message' = <<>>

NewHasher ==
  /\ ~alive
  /\ alive' = TRUE
  /\ UNCHANGED <<initialized, key, serial, cv_stack, cv_stack_cap,
                 total_chunks, digest, message>>

FreeHasher ==
  /\ alive
  /\ alive' = FALSE /\ initialized' = FALSE
  /\ key' = NoKey /\ serial' = None
  /\ cv_stack_cap' = InitialCap
  /\ Empty

InitHasherTo(k) ==
  /\ alive
  /\ initialized' = TRUE
  /\ key' = k
  /\ serial' = SerialInit(k)
  /\ Empty
  /\ UNCHANGED <<alive, cv_stack_cap>>

(* The serial path: a small input, or no memory for the work units.        *)
UpdateSerial(in) ==
  /\ alive /\ initialized
  /\ Len(message) + Len(in) <= MaxLen
  /\ message' = message \o in
  /\ serial' = HasherUpdate(serial, in)
  /\ digest' = None
  /\ UNCHANGED <<alive, initialized, key, cv_stack, cv_stack_cap,
                 total_chunks>>

(* Results of the units, of which the first kept find room.                *)
Collect(in, results, kept) ==
  LET len == Len(cv_stack)
      n   == Cardinality(DOMAIN results)
  IN  /\ message' = message \o in
      /\ MayStopAt(kept, n, len, cv_stack_cap)
      /\ cv_stack_cap' = CapFor(cv_stack_cap, len, kept)
      /\ cv_stack' = cv_stack \o [i \in 1..kept |-> results[i].cv_out]
      /\ total_chunks' = FoldLeft(LAMBDA sum, i : sum + results[i].chunks_processed,
                                  total_chunks, [i \in 1..kept |-> i])
      /\ digest' = None
      /\ UNCHANGED <<alive, initialized, key, serial>>

UpdateParallel(in) ==
  /\ alive /\ initialized
  /\ Len(message) + Len(in) <= MaxLen
  /\ GoesParallel(in)
  /\ LET units == Units(in, total_chunks)
     IN  \E kept \in 0..Cardinality(DOMAIN units) :
           Collect(in, [i \in DOMAIN units |-> ProcessChunks(units[i], key)],
                   kept)

Update(in) == UpdateSerial(in) \/ UpdateParallel(in)

Finalize(out_len) ==
  /\ alive /\ initialized
  /\ IF cv_stack # <<>>
     THEN /\ cv_stack' = MergeCVs(cv_stack, key)
          /\ digest' = ExtendCV(cv_stack'[1], key, out_len)
     ELSE /\ digest' = FinalizeSeek(serial, 0, out_len)
          /\ UNCHANGED cv_stack
  /\ UNCHANGED <<alive, initialized, key, serial, cv_stack_cap, total_chunks,
                 message>>

(* reset does not look at initialized, nor set it.                         *)
Reset ==
  /\ alive
  /\ serial' = SerialInit(key)
  /\ Empty
  /\ UNCHANGED <<alive, initialized, key, cv_stack_cap>>

BatchNext ==
  \/ NewHasher \/ FreeHasher \/ Reset
  \/ \E k \in Keys \cup {NoKey} : InitHasherTo(k)
  \/ \E in \in InputsAt(Len(message)) : Update(in)
  \/ \E out_len \in OutLens : Finalize(out_len)

BatchSpec == BatchInit /\ [][BatchNext]_batch
=============================================================================
