------------------------------ MODULE Dispatch ------------------------------
(***************************************************************************)
(* Run-time choice of the compression function (src/blake4_dispatch.c),    *)
(* called by any number of threads at once and without a lock: the first   *)
(* use detects the CPU, registers the SIMD functions and picks one, while  *)
(* blake4_dispatch_set_impl may be forcing another.                        *)
(*                                                                         *)
(* Every load and store of a shared variable is a step of its own.  The    *)
(* function pointers and the name are not atomic in the code: their        *)
(* accesses race.  The builds the project targets access them as whole     *)
(* words, and the two plain stores that precede the sequentially           *)
(* consistent store of g_impl_selected may be made in either order, so     *)
(* both orders are steps here (WriteFn, WriteName).                        *)
(***************************************************************************)
EXTENDS Naturals, Sequences

CONSTANTS
  Threads,
  Selections,   \* the blake4_impl_select values passed to set_impl
  Supported,    \* features the CPU and the OS have
  Linked,       \* the SIMD functions in this build, in registration order
  NULL

Ranking == <<"avx512_asm", "avx512", "avx2_asm", "avx2",
             "neon_asm", "neon", "portable">>
Impls == {"avx512_asm", "avx512", "avx2_asm", "avx2",
          "neon_asm", "neon", "portable"}
Features == {"SSE41", "AVX", "AVX2", "AVX512F", "AVX512VL", "NEON"}

Needs ==
  [i \in Impls |->
     CASE i \in {"avx512_asm", "avx512"} -> {"AVX512F", "AVX512VL"}
       [] i \in {"avx2_asm", "avx2"} -> {"AVX2"}
       [] i \in {"neon_asm", "neon"} -> {"NEON"}
       [] i = "portable" -> {}]

(* What each forced selection tries, best first.                           *)
Preferences ==
  [PORTABLE   |-> <<"portable">>,
   AVX2       |-> <<"avx2", "avx2_asm">>,
   AVX2_ASM   |-> <<"avx2_asm">>,
   AVX512     |-> <<"avx512", "avx512_asm">>,
   AVX512_ASM |-> <<"avx512_asm">>,
   NEON       |-> <<"neon", "neon_asm">>,
   NEON_ASM   |-> <<"neon_asm">>]
Forcing == DOMAIN Preferences

ASSUME SelectionAssumption == Selections \subseteq Forcing \cup {"AUTO"}
ASSUME BuildAssumption ==
  /\ Linked \in Seq(Impls)
  /\ Supported \subseteq Features
  /\ NULL \notin Impls \cup (Impls \X {"auto", "forced"})

VARIABLES
  features_detected, cpu_features,   \* g_features_detected, g_cpu_features
  registered,        \* the g_*_fn pointers that are not NULL
  simd_initialized,
  impl_selected, compress_fn, impl_name,
  pc, op, job, feat, at, target, todo, answer,   \* each thread's locals
  forced             \* history: what set_impl has chosen so far

shared == <<features_detected, cpu_features, registered, simd_initialized,
            impl_selected, compress_fn, impl_name>>
locals == <<pc, op, job, feat, at, target, todo, answer>>
vars == <<shared, locals, forced>>

Init ==
  /\ features_detected = FALSE /\ cpu_features = {}
  /\ registered = {} /\ simd_initialized = FALSE
  /\ impl_selected = FALSE /\ compress_fn = NULL /\ impl_name = NULL
  /\ pc = [t \in Threads |-> "idle"]
  /\ op = [t \in Threads |-> NULL]
  /\ job = [t \in Threads |-> NULL]
  /\ feat = [t \in Threads |-> {}]
  /\ at = [t \in Threads |-> 1]
  /\ target = [t \in Threads |-> NULL]
  /\ todo = [t \in Threads |-> {}]
  /\ answer = [t \in Threads |-> NULL]
  /\ forced = {}

Goto(t, label) == pc' = [pc EXCEPT ![t] = label]

(* The functions thread t is trying, and whether the i-th can be called.   *)
Order(t) == IF job[t] = "force" THEN Preferences[op[t]] ELSE Ranking
(* Faulty variant: the CPU features are not checked.                       *)
CallableUnchecked(t, i) == Order(t)[i] \in registered \cup {"portable"}

Callable(t, i) ==
  /\ Needs[Order(t)[i]] \subseteq feat[t]
  /\ Order(t)[i] \in registered \cup {"portable"}
-----------------------------------------------------------------------------
(* The caller of thread t: compress a block (or read the function or its   *)
(* name), read the CPU features, or set_impl.                              *)
CallDispatch(t) ==
  /\ pc[t] = "idle"
  /\ op' = [op EXCEPT ![t] = "dispatch"]
  /\ answer' = [answer EXCEPT ![t] = NULL]
  /\ target' = [target EXCEPT ![t] = NULL]
  /\ Goto(t, "dispatch")
  /\ UNCHANGED <<shared, job, feat, at, todo, forced>>

CallFeatures(t) ==
  /\ pc[t] = "idle"
  /\ op' = [op EXCEPT ![t] = "features"]
  /\ job' = [job EXCEPT ![t] = "features"]
  /\ answer' = [answer EXCEPT ![t] = NULL]
  /\ target' = [target EXCEPT ![t] = NULL]
  /\ Goto(t, "detect")
  /\ UNCHANGED <<shared, feat, at, todo, forced>>

CallSetImpl(t, selection) ==
  /\ pc[t] = "idle"
  /\ op' = [op EXCEPT ![t] = selection]
  /\ job' = [job EXCEPT ![t] = "force"]
  /\ answer' = [answer EXCEPT ![t] = NULL]
  /\ target' = [target EXCEPT ![t] = NULL]
  /\ Goto(t, "detect")
  /\ UNCHANGED <<shared, feat, at, todo, forced>>

(* The call ends: a dispatch goes on to use the shared choice.             *)
Return(t, result) ==
  /\ Goto(t, IF op[t] = "dispatch" THEN "use" ELSE "idle")
  /\ answer' = [answer EXCEPT ![t] = result]
  /\ job' = [job EXCEPT ![t] = NULL]
  /\ feat' = [feat EXCEPT ![t] = {}]
  /\ at' = [at EXCEPT ![t] = 1]
-----------------------------------------------------------------------------
(* if (!g_impl_selected) in the dispatch functions                         *)
CheckSelected(t) ==
  /\ pc[t] = "dispatch"
  /\ Goto(t, IF impl_selected THEN "use" ELSE "select")
  /\ UNCHANGED <<shared, op, job, feat, at, target, todo, answer, forced>>

(* select_implementation looks again.                                      *)
EnterSelect(t) ==
  /\ pc[t] = "select"
  /\ \/ impl_selected /\ Return(t, "ok")
     \/ /\ ~impl_selected
        /\ job' = [job EXCEPT ![t] = "select"]
        /\ Goto(t, "init")
        /\ UNCHANGED <<answer, feat, at>>
  /\ UNCHANGED <<shared, op, target, todo, forced>>

(* Faulty variant: registration is marked as done before it is.            *)
EnterInitFlagFirst(t) ==
  /\ pc[t] = "init"
  /\ at' = [at EXCEPT ![t] = 1]
  /\ simd_initialized' = TRUE
  /\ Goto(t, IF simd_initialized THEN "detect" ELSE "register")
  /\ UNCHANGED <<features_detected, cpu_features, registered, impl_selected,
                 compress_fn, impl_name, op, job, feat, target, todo, answer,
                 forced>>

(* init_simd_implementations                                               *)
EnterInit(t) ==
  /\ pc[t] = "init"
  /\ at' = [at EXCEPT ![t] = 1]
  /\ Goto(t, IF simd_initialized THEN "detect" ELSE "register")
  /\ UNCHANGED <<shared, op, job, feat, target, todo, answer, forced>>

Register(t) ==
  /\ pc[t] = "register"
  /\ \/ /\ at[t] \in DOMAIN Linked
        /\ registered' = registered \cup {Linked[at[t]]}
        /\ at' = [at EXCEPT ![t] = @ + 1]
        /\ UNCHANGED <<simd_initialized, pc>>
     \/ /\ at[t] \notin DOMAIN Linked
        /\ simd_initialized' = TRUE
        /\ at' = [at EXCEPT ![t] = 1]
        /\ Goto(t, "detect")
        /\ UNCHANGED registered
  /\ UNCHANGED <<features_detected, cpu_features, impl_selected, compress_fn,
                 impl_name, op, job, feat, target, todo, answer, forced>>
-----------------------------------------------------------------------------
(* get_cpu_features: answer from the cache, or detect and fill the cache.  *)
Detect(t) ==
  /\ pc[t] = "detect"
  /\ \/ features_detected /\ Goto(t, "load") /\ UNCHANGED feat
     \/ /\ ~features_detected
        /\ feat' = [feat EXCEPT ![t] = Supported]
        /\ Goto(t, "store")
  /\ UNCHANGED <<shared, op, job, at, target, todo, answer, forced>>

(* What follows get_cpu_features in its caller.                            *)
AfterFeatures(t) ==
  CASE job[t] = "features" -> "give"
    [] job[t] = "force" /\ op[t] = "AUTO" -> "auto"
    [] OTHER -> "look"

LoadFeatures(t) ==
  /\ pc[t] = "load"
  /\ feat' = [feat EXCEPT ![t] = cpu_features]
  /\ Goto(t, AfterFeatures(t))
  /\ UNCHANGED <<shared, op, job, at, target, todo, answer, forced>>

(* Faulty variant: the value the flag vouches for is not stored.           *)
StoreFeaturesDropped(t) ==
  /\ pc[t] = "store"
  /\ Goto(t, "flag")
  /\ UNCHANGED <<features_detected, cpu_features, registered, simd_initialized,
                 impl_selected, compress_fn, impl_name, op, job, feat, at,
                 target, todo, answer, forced>>

StoreFeatures(t) ==
  /\ pc[t] = "store"
  /\ cpu_features' = feat[t]
  /\ Goto(t, "flag")
  /\ UNCHANGED <<features_detected, registered, simd_initialized,
                 impl_selected, compress_fn, impl_name, op, job, feat, at,
                 target, todo, answer, forced>>

FlagFeatures(t) ==
  /\ pc[t] = "flag"
  /\ features_detected' = TRUE
  /\ Goto(t, AfterFeatures(t))
  /\ UNCHANGED <<cpu_features, registered, simd_initialized, impl_selected,
                 compress_fn, impl_name, op, job, feat, at, target, todo,
                 answer, forced>>

GiveFeatures(t) ==
  /\ pc[t] = "give"
  /\ Return(t, NULL)
  /\ UNCHANGED <<shared, op, target, todo, forced>>
-----------------------------------------------------------------------------
(* Faulty variant: set_impl goes on to its end, where it stores the flag,  *)
(* when no function of the selection can be used.                          *)
LookForgetsRefusal(t) ==
  /\ pc[t] = "look"
  /\ \/ /\ at[t] \in DOMAIN Order(t) /\ Callable(t, at[t])
        /\ target' = [target EXCEPT ![t] = Order(t)[at[t]]]
        /\ todo' = [todo EXCEPT ![t] = {"fn", "name"}]
        /\ forced' = forced \cup
             {i \in {Order(t)[at[t]]} : job[t] = "force"}
        /\ Goto(t, "write")
        /\ UNCHANGED <<job, feat, at, answer>>
     \/ /\ at[t] \in DOMAIN Order(t) /\ ~Callable(t, at[t])
        /\ at' = [at EXCEPT ![t] = @ + 1]
        /\ UNCHANGED <<pc, job, feat, target, todo, answer, forced>>
     \/ /\ at[t] \notin DOMAIN Order(t)
        /\ Goto(t, "write")
        /\ UNCHANGED <<job, feat, at, target, todo, answer, forced>>
  /\ UNCHANGED <<shared, op>>

(* One function pointer (and its features) is looked at.                   *)
Look(t) ==
  /\ pc[t] = "look"
  /\ \/ /\ at[t] \in DOMAIN Order(t) /\ Callable(t, at[t])
        /\ target' = [target EXCEPT ![t] = Order(t)[at[t]]]
        /\ todo' = [todo EXCEPT ![t] = {"fn", "name"}]
        /\ forced' = forced \cup
             {i \in {Order(t)[at[t]]} : job[t] = "force"}
        /\ Goto(t, "write")
        /\ UNCHANGED <<job, feat, at, answer>>
     \/ /\ at[t] \in DOMAIN Order(t) /\ ~Callable(t, at[t])
        /\ at' = [at EXCEPT ![t] = @ + 1]
        /\ UNCHANGED <<pc, job, feat, target, todo, answer, forced>>
     \/ /\ at[t] \notin DOMAIN Order(t)
        /\ Return(t, "no")
        /\ UNCHANGED <<target, todo, forced>>
  /\ UNCHANGED <<shared, op>>

(* g_compress_fn = ...; g_impl_name = ...                                  *)
Chosen(t) == <<target[t], IF job[t] = "force" THEN "forced" ELSE "auto">>

WriteFn(t) ==
  /\ pc[t] = "write" /\ "fn" \in todo[t]
  /\ compress_fn' = target[t]
  /\ todo' = [todo EXCEPT ![t] = @ \ {"fn"}]
  /\ UNCHANGED <<features_detected, cpu_features, registered,
                 simd_initialized, impl_selected, impl_name, pc, op, job,
                 feat, at, target, answer, forced>>

WriteName(t) ==
  /\ pc[t] = "write" /\ "name" \in todo[t]
  /\ impl_name' = Chosen(t)
  /\ todo' = [todo EXCEPT ![t] = @ \ {"name"}]
  /\ UNCHANGED <<features_detected, cpu_features, registered,
                 simd_initialized, impl_selected, compress_fn, pc, op, job,
                 feat, at, target, answer, forced>>

(* g_impl_selected = 1                                                     *)
Publish(t) ==
  /\ pc[t] = "write" /\ todo[t] = {}
  /\ impl_selected' = TRUE
  /\ Return(t, "ok")
  /\ UNCHANGED <<features_detected, cpu_features, registered,
                 simd_initialized, compress_fn, impl_name, op, target, todo,
                 forced>>

(* set_impl(AUTO) forgets the choice and selects again.                    *)
ForgetSelection(t) ==
  /\ pc[t] = "auto"
  /\ impl_selected' = FALSE
  /\ Goto(t, "select")
  /\ UNCHANGED <<features_detected, cpu_features, registered,
                 simd_initialized, compress_fn, impl_name, op, job, feat, at,
                 target, todo, answer, forced>>

(* g_compress_fn is called, or it or g_impl_name is returned.              *)
Use(t) ==
  /\ pc[t] = "use"
  /\ Goto(t, "idle")
  /\ target' = [target EXCEPT ![t] = NULL]
  /\ answer' = [answer EXCEPT ![t] = NULL]
  /\ UNCHANGED <<shared, op, job, feat, at, todo, forced>>

Step(t) ==
  \/ CheckSelected(t) \/ EnterSelect(t) \/ EnterInit(t) \/ Register(t)
  \/ Detect(t) \/ LoadFeatures(t) \/ StoreFeatures(t) \/ FlagFeatures(t)
  \/ GiveFeatures(t) \/ Look(t) \/ WriteFn(t) \/ WriteName(t) \/ Publish(t)
  \/ ForgetSelection(t) \/ Use(t)

Next ==
  \E t \in Threads :
    \/ CallDispatch(t) \/ CallFeatures(t)
    \/ \E selection \in Selections : CallSetImpl(t, selection)
    \/ Step(t)

Spec == Init /\ [][Next]_vars
-----------------------------------------------------------------------------
(* The functions this build can run on this CPU, and the best of them.     *)
Usable(i) == Needs[i] \subseteq Supported
               /\ i \in {Linked[k] : k \in DOMAIN Linked} \cup {"portable"}

IsBestAt(i) == Usable(Ranking[i]) /\ \A j \in 1..(i - 1) : ~Usable(Ranking[j])
Best == Ranking[CHOOSE i \in DOMAIN Ranking : IsBestAt(i)]

Labels == {"idle", "dispatch", "select", "init", "register", "detect", "load",
           "store", "flag", "give", "look", "write", "auto", "use"}

(* Every variable has its type, and what g_impl_selected vouches for is a  *)
(* function and a name, whichever thread stored them and however the plain *)
(* stores before the flag interleave.                                      *)
TypeOK ==
  /\ features_detected \in BOOLEAN /\ cpu_features \in SUBSET Features
  /\ registered \in SUBSET Impls /\ simd_initialized \in BOOLEAN
  /\ impl_selected \in BOOLEAN /\ compress_fn \in Impls \cup {NULL}
  /\ impl_name \in (Impls \X {"auto", "forced"}) \cup {NULL}
  /\ pc \in [Threads -> Labels]
  /\ op \in [Threads -> Selections \cup {"dispatch", "features", NULL}]
  /\ job \in [Threads -> {"features", "force", "select", NULL}]
  /\ feat \in [Threads -> SUBSET Features]
  /\ at \in [Threads -> Nat]
  /\ target \in [Threads -> Impls \cup {NULL}]
  /\ todo \in [Threads -> SUBSET {"fn", "name"}]
  /\ answer \in [Threads -> {"ok", "no", NULL}]
  /\ forced \in SUBSET Impls
  /\ impl_selected => compress_fn # NULL /\ impl_name # NULL

(* A cached answer is never partial: whenever get_cpu_features has given a *)
(* thread its answer, from the cache another thread may be filling or from *)
(* CPUID, it is every feature the CPU has.                                 *)
FeaturesComplete ==
  \A t \in Threads :
    pc[t] \in {"give", "look", "write", "auto"} => feat[t] = Supported

(* No function is ever installed that the CPU cannot execute or the build  *)
(* does not hold, whoever chooses and however the choices interleave.      *)
OnlyUsable == compress_fn # NULL => Usable(compress_fn)

(* A thread that has passed g_impl_selected uses a real choice: never the  *)
(* initial NULL or "Uninitialized", and never less than the best function, *)
(* unless set_impl asked for it.  A thread that finds the SIMD functions   *)
(* half registered by another must not settle for a worse one.             *)
UsedWasChosen ==
  \A t \in Threads : pc[t] = "use" =>
    /\ compress_fn \in {Best} \cup forced
    /\ impl_name \in {<<Best, "auto">>} \cup (forced \X {"forced"})

(* "Force selection of a specific implementation" (blake4_dispatch.h:103): *)
(* from the moment set_impl has returned 1 until its only caller calls it  *)
(* again, the function it stored is the one in use.                        *)
ForcedStays ==
  \A t \in Threads :
    pc[t] = "idle" /\ answer[t] = "ok" /\ op[t] \in Forcing
      => compress_fn = target[t]

(* "1 on success, 0 if implementation is not available"                    *)
(* (blake4_dispatch.h:107): when set_impl returns 0, no function of that   *)
(* selection is both in the build and supported by the CPU.                *)
RefusedMeansUnavailable ==
  \A t \in Threads :
    answer[t] = "no" /\ op[t] \in Forcing
      => \A k \in DOMAIN Preferences[op[t]] : ~Usable(Preferences[op[t]][k])
=============================================================================
