------------------------------ MODULE HashSpec ------------------------------
(***************************************************************************)
(* The promise of the incremental hasher (include/blake4.h): it is an      *)
(* accumulated message under a mode.  Updates append, a digest is a window *)
(* of the output stream of TreeHash on everything appended, reading it     *)
(* changes nothing, reset forgets the message and keeps the mode, and a    *)
(* serialized state can replace the present one at any time.  About a      *)
(* hasher restored from a buffer of another origin nothing is promised.    *)
(***************************************************************************)
EXTENDS TreeHash

CONSTANTS
  Keys, Contexts,        \* keys and key-derivation contexts callers use
  InputsAt(_),           \* inputs a caller may append to a message of a length
  Seeks, OutLens,        \* positions and lengths of the output callers ask for
  MaxLen,                \* bound: bytes hashed between two inits
  None

VARIABLES
  mode,      \* [key, flags], or None when a restore voided the hasher
  message,   \* bytes appended since init or reset
  saved,     \* the serialized [mode, message] the caller keeps, or None
  digest     \* what the last call returned, or None if it was not a finalize

vars == <<mode, message, saved, digest>>

Modes == {PlainMode} \cup {KeyedMode(k) : k \in Keys}
                     \cup {DeriveMode(c) : c \in Contexts}

Start(m) ==
  /\ mode' = m
  /\ message' = <<>>
  /\ digest' = None
  /\ UNCHANGED saved

Append_(input) ==
  /\ mode # None
  /\ Len(message) + Len(input) <= MaxLen
  /\ message' = message \o input
  /\ digest' = None
  /\ UNCHANGED <<mode, saved>>

Digest(seek, len) ==
  /\ mode # None
  /\ digest' = XOF(mode, message, seek, len)
  /\ UNCHANGED <<mode, message, saved>>

Reset ==
  /\ mode # None
  /\ Start(mode)

Save ==
  /\ saved' = IF mode = None THEN None ELSE [mode |-> mode, message |-> message]
  /\ digest' = None
  /\ UNCHANGED <<mode, message>>

Restore ==
  /\ saved # None
  /\ mode' = saved.mode
  /\ message' = saved.message
  /\ digest' = None
  /\ UNCHANGED saved

(* What is not a serialized state at all is refused at once.               *)
Refuse ==
  /\ digest' = None
  /\ UNCHANGED <<mode, message, saved>>

(* A buffer that begins like a serialized state but is none that Save left *)
(* voids the hasher until it is started or restored again, whether it is   *)
(* refused half way or, as its lengths are in range, accepted: there is no *)
(* checksum in it.                                                         *)
Void ==
  /\ mode' = None
  /\ message' = <<>>
  /\ digest' = None
  /\ UNCHANGED saved

Init ==
  /\ mode \in Modes
  /\ message = <<>>
  /\ saved = None
  /\ digest = None

Next ==
  \/ \E m \in Modes : Start(m)
  \/ \E input \in InputsAt(Len(message)) : Append_(input)
  \/ \E seek \in Seeks, len \in OutLens : Digest(seek, len)
  \/ Reset
  \/ Save
  \/ Restore
  \/ Refuse
  \/ Void

Spec == Init /\ [][Next]_vars
=============================================================================
