------------------------------ MODULE MCBatch ------------------------------
(***************************************************************************)
(* Instance of ParallelBatch for TLC, with a record of the digests given.  *)
(***************************************************************************)
EXTENDS ParallelBatch

VARIABLE seen    \* [key, message, digest] of the default digests so far

(* Inputs of one repeated byte, just long enough for the workers.          *)
RepeatedInputs(n) ==
  IF n > 0 THEN {}
  ELSE {[i \in 1..Threshold |-> <<<<"data", b, b>>, 0>>] : b \in {1, 2}}

Record ==
  seen' = IF digest' # None /\ Len(digest') = OutLen
          THEN seen \cup {[key |-> key', message |-> message',
                           digest |-> digest']}
          ELSE seen

RecordedSpec ==
  BatchInit /\ seen = {} /\ [][BatchNext /\ Record]_<<batch, seen>>

(* Under one key and one number of threads, a digest belongs to a single   *)
(* message: what the workers return depends on the chunks they were given. *)
DigestBindsMessage ==
  \A a, b \in seen :
    a.key = b.key /\ a.digest = b.digest => a.message = b.message
=============================================================================
