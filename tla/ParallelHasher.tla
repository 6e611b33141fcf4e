--------------------------- MODULE ParallelHasher ---------------------------
(***************************************************************************)
(* blake4_parallel_hasher with its worker threads (src/blake4_parallel.c,  *)
(* over src/blake4_thread.h).  One caller thread creates, uses and frees   *)
(* the hasher.  It shares with worker i a mutex, the condition variables   *)
(* work_avail and work_done, a pointer to a work unit and two flags.       *)
(*                                                                         *)
(* A thread locks in one step and makes the whole critical section in the  *)
(* next.  cond_wait releases the mutex and sleeps in one step, wakes when  *)
(* it is signalled or for no reason at all, and locks again before it      *)
(* looks at its condition.  A signal with nobody asleep is lost.           *)
(*                                                                         *)
(* The hasher's own key and the workers' copies of it are one variable:    *)
(* init writes all of them while every worker is idle.                     *)
(***************************************************************************)
EXTENDS ParallelBatch

(* NULL is not the address of a work unit.                                 *)
ASSUME NoneAssumption ==
  \A in \in AllInputs : \A from, to \in 0..Len(in) :
    None \notin [data : {SubSeq(in, from + 1, to)}, chunk_start : Nat]

VARIABLES
  pc,        \* where the caller is
  next,      \* its loop index i
  input,     \* update's input
  units,     \* the calloc'ed work units, <<>> before and after
  wpc,       \* where each worker is
  mutex,     \* who holds each mutex
  work,      \* worker->work, or None
  done, shutdown,
  mine,      \* the unit each worker has taken, or None
  results    \* cv_out and chunks_processed of the units

threads == <<pc, next, input, units, wpc, mutex, work, done, shutdown, mine,
             results>>
vars == <<batch, threads>>

(* What a calloc'ed unit holds before its worker has filled it.            *)
Blank == [cv_out |-> CVBytes(ZeroCV), chunks_processed |-> 0]

PInit ==
  /\ BatchInit
  /\ pc = "idle" /\ next = 1 /\ input = <<>> /\ units = <<>>
  /\ wpc = [i \in Workers |-> "none"]
  /\ mutex = [i \in Workers |-> "destroyed"]
  /\ work = [i \in Workers |-> None]
  /\ done = [i \in Workers |-> FALSE]
  /\ shutdown = [i \in Workers |-> FALSE]
  /\ mine = [i \in Workers |-> None]
  /\ results = [i \in Workers |-> Blank]

-----------------------------------------------------------------------------
(* Worker i: worker_thread_func.                                           *)
WorkerLock(i) ==
  /\ wpc[i] \in {"check", "finish"}
  /\ mutex[i] = "free"
  /\ mutex' = [mutex EXCEPT ![i] = "worker"]
  /\ UNCHANGED <<batch, pc, next, input, units, wpc, work, done, shutdown,
                 mine, results>>

WorkerCheck(i) ==
  /\ wpc[i] = "check" /\ mutex[i] = "worker"
  /\ mutex' = [mutex EXCEPT ![i] = "free"]
  /\ \/ /\ shutdown[i]
        /\ wpc' = [wpc EXCEPT ![i] = "exited"]
        /\ UNCHANGED <<work, mine>>
     \/ /\ ~shutdown[i] /\ work[i] = None
        /\ wpc' = [wpc EXCEPT ![i] = "asleep"]
        /\ UNCHANGED <<work, mine>>
     \/ /\ ~shutdown[i] /\ work[i] # None
        /\ mine' = [mine EXCEPT ![i] = work[i]]
        /\ work' = [work EXCEPT ![i] = None]
        /\ wpc' = [wpc EXCEPT ![i] = "process"]
  /\ UNCHANGED <<batch, pc, next, input, units, done, shutdown, results>>

WorkerSpurious(i) ==
  /\ wpc[i] = "asleep"
  /\ wpc' = [wpc EXCEPT ![i] = "check"]
  /\ UNCHANGED <<batch, pc, next, input, units, mutex, work, done, shutdown,
                 mine, results>>

WorkerProcess(i) ==
  /\ wpc[i] = "process"
  /\ results' = [results EXCEPT ![i] = ProcessChunks(mine[i], key)]
  /\ mine' = [mine EXCEPT ![i] = None]
  /\ wpc' = [wpc EXCEPT ![i] = "finish"]
  /\ UNCHANGED <<batch, pc, next, input, units, mutex, work, done, shutdown>>

(* The caller waits on work_done of one worker at a time.                  *)
WakeCaller(i) == IF pc = "asleep" /\ next = i THEN "await" ELSE pc

(* Faulty variant: work_done is not signalled.                             *)
WorkerFinishSilently(i) ==
  /\ wpc[i] = "finish" /\ mutex[i] = "worker"
  /\ done' = [done EXCEPT ![i] = TRUE]
  /\ mutex' = [mutex EXCEPT ![i] = "free"]
  /\ wpc' = [wpc EXCEPT ![i] = "check"]
  /\ UNCHANGED <<batch, pc, next, input, units, work, shutdown, mine, results>>

WorkerFinish(i) ==
  /\ wpc[i] = "finish" /\ mutex[i] = "worker"
  /\ done' = [done EXCEPT ![i] = TRUE]
  /\ pc' = WakeCaller(i)
  /\ mutex' = [mutex EXCEPT ![i] = "free"]
  /\ wpc' = [wpc EXCEPT ![i] = "check"]
  /\ UNCHANGED <<batch, next, input, units, work, shutdown, mine, results>>

-----------------------------------------------------------------------------
(* The caller: locking, and blake4_parallel_hasher_new.                    *)
CallerLock ==
  /\ pc \in {"post", "await", "abort", "stop"}
  /\ mutex[next] = "free"
  /\ mutex' = [mutex EXCEPT ![next] = "caller"]
  /\ UNCHANGED <<batch, pc, next, input, units, wpc, work, done, shutdown,
                 mine, results>>

Wake(i) == IF wpc[i] = "asleep" THEN [wpc EXCEPT ![i] = "check"] ELSE wpc

BeginNew ==
  /\ pc = "idle" /\ ~alive
  /\ pc' = "create"
  /\ next' = 1
  /\ UNCHANGED <<batch, input, units, wpc, mutex, work, done, shutdown, mine,
                 results>>

CreateWorker ==
  /\ pc = "create" /\ next \in Workers
  /\ mutex' = [mutex EXCEPT ![next] = "free"]
  /\ work' = [work EXCEPT ![next] = None]
  /\ done' = [done EXCEPT ![next] = FALSE]
  /\ shutdown' = [shutdown EXCEPT ![next] = FALSE]
  /\ wpc' = [wpc EXCEPT ![next] = "check"]
  /\ next' = next + 1
  /\ UNCHANGED <<batch, pc, input, units, mine, results>>

(* pthread_create fails for worker next: its mutex and condition variables *)
(* have been initialised and are not destroyed.                            *)
CreateFails ==
  /\ pc = "create" /\ next \in Workers
  /\ pc' = "abort"
  /\ next' = 1
  /\ mutex' = [mutex EXCEPT ![next] = "leaked"]
  /\ UNCHANGED <<batch, input, units, wpc, work, done, shutdown, mine,
                 results>>

EndNew ==
  /\ pc = "create" /\ next \notin Workers
  /\ NewHasher
  /\ pc' = "idle"
  /\ next' = 1
  /\ UNCHANGED <<input, units, wpc, mutex, work, done, shutdown, mine,
                 results>>

(* Shutting down: one after the other when new fails, all at once and then *)
(* joined in order by free.                                                *)
Shutdown(label) ==
  /\ mutex[next] = "caller"
  /\ shutdown' = [shutdown EXCEPT ![next] = TRUE]
  /\ wpc' = Wake(next)
  /\ mutex' = [mutex EXCEPT ![next] = "free"]
  /\ pc' = label
  /\ UNCHANGED <<batch, input, units, work, done, mine, results>>

AbortShutdown == pc = "abort" /\ Shutdown("abortJoin") /\ UNCHANGED next

(* thread_join, then mutex_destroy and cond_destroy.                       *)
Join(label) ==
  /\ wpc[next] = "exited"
  /\ wpc' = [wpc EXCEPT ![next] = "none"]
  /\ mutex' = [mutex EXCEPT ![next] = "destroyed"]
  /\ next' = next + 1
  /\ pc' = label
  /\ UNCHANGED <<batch, input, units, work, done, shutdown, mine, results>>

AbortJoin == pc = "abortJoin" /\ Join("abort")

EndAbort ==
  /\ pc = "abort" /\ (next \in Workers => mutex[next] = "leaked")
  /\ mutex' = [i \in Workers |-> "destroyed"]    \* the memory is freed
  /\ pc' = "idle"
  /\ next' = 1
  /\ UNCHANGED <<batch, input, units, wpc, work, done, shutdown, mine,
                 results>>

-----------------------------------------------------------------------------
(* blake4_parallel_hasher_free.                                            *)
BeginFree ==
  /\ pc = "idle" /\ alive
  /\ pc' = "stop"
  /\ next' = 1
  /\ UNCHANGED <<batch, input, units, wpc, mutex, work, done, shutdown, mine,
                 results>>

FreeShutdown ==
  /\ pc = "stop"
  /\ Shutdown(IF next = NumThreads THEN "join" ELSE "stop")
  /\ next' = IF next = NumThreads THEN 1 ELSE next + 1

FreeJoin == pc = "join" /\ next \in Workers /\ Join("join")

EndFree ==
  /\ pc = "join" /\ next \notin Workers
  /\ FreeHasher
  /\ pc' = "idle"
  /\ next' = 1
  /\ UNCHANGED <<input, units, wpc, mutex, work, done, shutdown, mine,
                 results>>

-----------------------------------------------------------------------------
(* blake4_parallel_hasher_update.                                          *)
BeginUpdate(in) ==
  /\ pc = "idle" /\ alive /\ initialized
  /\ Len(message) + Len(in) <= MaxLen
  /\ GoesParallel(in)
  /\ pc' = "post"
  /\ next' = 1
  /\ input' = in
  /\ units' = Units(in, total_chunks)
  /\ results' = [i \in Workers |-> Blank]
  /\ UNCHANGED <<batch, wpc, mutex, work, done, shutdown, mine>>

(* The caller goes on to the next unit, or starts over to wait for them.   *)
Advance(again, after) ==
  IF next + 1 \in DOMAIN units THEN next' = next + 1 /\ pc' = again
                               ELSE next' = 1 /\ pc' = after

(* Faulty variant: done is not cleared.                                    *)
PostKeepDone ==
  /\ pc = "post" /\ mutex[next] = "caller"
  /\ work' = [work EXCEPT ![next] = units[next]]
  /\ wpc' = Wake(next)
  /\ mutex' = [mutex EXCEPT ![next] = "free"]
  /\ Advance("post", "await")
  /\ UNCHANGED <<batch, input, units, done, shutdown, mine, results>>

Post ==
  /\ pc = "post" /\ mutex[next] = "caller"
  /\ work' = [work EXCEPT ![next] = units[next]]
  /\ done' = [done EXCEPT ![next] = FALSE]
  /\ wpc' = Wake(next)
  /\ mutex' = [mutex EXCEPT ![next] = "free"]
  /\ Advance("post", "await")
  /\ UNCHANGED <<batch, input, units, shutdown, mine, results>>

(* Faulty variant: the condition is tested with if, not while, so that the *)
(* caller goes on when it is woken.                                        *)
CallerWakesIf ==
  /\ pc = "asleep"
  /\ Advance("await", "collect")
  /\ UNCHANGED <<batch, input, units, wpc, mutex, work, done, shutdown, mine,
                 results>>

CallerSpurious ==
  /\ pc = "asleep"
  /\ pc' = "await"
  /\ UNCHANGED <<batch, next, input, units, wpc, mutex, work, done, shutdown,
                 mine, results>>

Await ==
  /\ pc = "await" /\ mutex[next] = "caller"
  /\ mutex' = [mutex EXCEPT ![next] = "free"]
  /\ IF done[next] THEN Advance("await", "collect")
     ELSE pc' = "asleep" /\ UNCHANGED next
  /\ UNCHANGED <<batch, input, units, wpc, work, done, shutdown, mine, results>>

(* The CVs are appended in the order of the units and the units freed.     *)
EndUpdate ==
  /\ pc = "collect"
  /\ \E kept \in 0..Cardinality(DOMAIN units) :
       Collect(input, [i \in DOMAIN units |-> results[i]], kept)
  /\ pc' = "idle"
  /\ next' = 1
  /\ input' = <<>>
  /\ units' = <<>>
  /\ results' = [i \in Workers |-> Blank]
  /\ UNCHANGED <<wpc, mutex, work, done, shutdown, mine>>

(* The calls that involve no worker.                                       *)
LocalCall ==
  /\ pc = "idle"
  /\ \/ \E k \in Keys \cup {NoKey} : InitHasherTo(k)
     \/ \E in \in InputsAt(Len(message)) : UpdateSerial(in)
     \/ \E out_len \in OutLens : Finalize(out_len)
     \/ Reset
  /\ UNCHANGED threads

CallerStep ==
  \/ CreateWorker \/ CreateFails \/ EndNew
  \/ AbortShutdown \/ AbortJoin \/ EndAbort
  \/ FreeShutdown \/ FreeJoin \/ EndFree
  \/ Post \/ Await \/ EndUpdate

WorkerStep(i) == WorkerCheck(i) \/ WorkerProcess(i) \/ WorkerFinish(i)

PNext ==
  \/ BeginNew \/ BeginFree \/ LocalCall
  \/ \E in \in InputsAt(Len(message)) : BeginUpdate(in)
  \/ CallerLock \/ CallerStep \/ CallerSpurious
  \/ \E i \in Workers : WorkerLock(i) \/ WorkerStep(i) \/ WorkerSpurious(i)

PSpec == PInit /\ [][PNext]_vars

(* The scheduler runs every thread that can run, and a thread that finds   *)
(* a mutex free again and again obtains it in the end.  Nothing makes the  *)
(* caller start a call, and nothing wakes a sleeper without a signal.      *)
(* (Processed names WorkerProcess by its control part alone, which no      *)
(* other step has; TLC need not evaluate the hash to see it enabled.)      *)
Processed(i) ==
  wpc[i] = "process" /\ wpc' = [wpc EXCEPT ![i] = "finish"]

Fairness ==
  /\ WF_vars(CallerStep) /\ SF_vars(CallerLock)
  /\ \A i \in Workers :
       /\ WF_vars(WorkerCheck(i)) /\ WF_wpc(Processed(i))
       /\ WF_vars(WorkerFinish(i)) /\ SF_vars(WorkerLock(i))

FairPSpec == PSpec /\ Fairness

-----------------------------------------------------------------------------
UnitType(u) == u = [data |-> u.data, chunk_start |-> u.chunk_start]
                 /\ u.chunk_start \in Nat

(* Type invariant: every unit belongs to a worker, and every loop index is *)
(* within the workers or one past them.                                    *)
TypeOK ==
  /\ pc \in {"idle", "create", "abort", "abortJoin", "stop", "join", "post",
             "await", "asleep", "collect"}
  /\ next \in 1..(NumThreads + 1)
  /\ DOMAIN units \subseteq Workers
  /\ \A i \in DOMAIN units : UnitType(units[i])
  /\ wpc \in [Workers -> {"none", "check", "asleep", "process", "finish",
                          "exited"}]
  /\ mutex \in [Workers -> {"free", "caller", "worker", "leaked",
                            "destroyed"}]
  /\ done \in [Workers -> BOOLEAN] /\ shutdown \in [Workers -> BOOLEAN]
  /\ DOMAIN work = Workers /\ DOMAIN mine = Workers
  /\ DOMAIN results = Workers
  /\ total_chunks \in Nat /\ cv_stack_cap \in Nat
  /\ Len(cv_stack) <= cv_stack_cap

(* The units live in memory that update frees and the mutexes in memory    *)
(* that free and a failed new release: no worker holds a unit once update  *)
(* has collected the results, and none is running once its mutex is gone.  *)
MemoryOutlivesWorkers ==
  \A i \in Workers :
    /\ work[i] # None => i \in DOMAIN units /\ work[i] = units[i]
    /\ mine[i] # None => i \in DOMAIN units /\ mine[i] = units[i]
    /\ wpc[i] \notin {"none", "exited"} =>
         mutex[i] \in {"free", "caller", "worker"}

(* No wakeup is lost: a worker sleeps only while it has no unit to take    *)
(* and is not to shut down, and the caller only while the worker it waits  *)
(* for has not finished and is awake.                                      *)
NoLostWakeup ==
  /\ \A i \in Workers : wpc[i] = "asleep" => work[i] = None /\ ~shutdown[i]
  /\ pc = "asleep" =>
       ~done[next] /\ wpc[next] \in {"check", "process", "finish"}

(* A worker hashes its chunks as blake4_hasher_update does: each push pops *)
(* CVs that the same worker pushed before, never an empty stack.           *)
WorkersKeepStack ==
  \A i \in Workers :
    wpc[i] = "process" =>
      PopsWhatWasPushed(WorkerHasher(mine[i], key), mine[i].data)

(* The threads implement the batch: no interleaving of the workers, no     *)
(* spurious wakeup and no failed allocation or thread creation shows in    *)
(* what a caller sees.  (BatchSpec, with the stutter named first: TLC then *)
(* evaluates no digest for the many steps that change nothing of it.)      *)
ImplementsBatch == BatchInit /\ [][UNCHANGED batch \/ BatchNext]_batch

(* Every call returns: no wakeup is lost between the caller's test of done *)
(* and its wait, or between a worker's test of work and shutdown and its   *)
(* wait, and every join finds its thread exiting.                          *)
CallsReturn == pc # "idle" ~> pc = "idle"
=============================================================================
