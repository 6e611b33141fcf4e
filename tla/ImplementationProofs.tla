------------------------ MODULE ImplementationProofs ------------------------
(***************************************************************************)
(* What holds of the implementations of the compression function and of    *)
(* their choice, and of the constant-time utilities:                       *)
(*  - Dispatch, for any number of threads, any build and any CPU.  Types   *)
(*    is the part of TypeOK every step needs; Safe adds, variable by       *)
(*    variable and label by label, what another thread may rely on.        *)
(*  - CpuFeatures, on every machine: theorem DetectionIsExact.             *)
(*  - Kernels, for words of any width and all arguments: every form of the *)
(*    compression function computes the portable one, theorem KernelsAgree.*)
(*  - CtUtils, for words of any width and memory of any length: the        *)
(*    utilities agree with plain ones.                                     *)
(***************************************************************************)
EXTENDS Dispatch, CpuFeatures, Kernels, CtUtils, BasicProofs

-----------------------------------------------------------------------------
(* The choice of an implementation.                                        *)

InBuild == {Linked[k] : k \in DOMAIN Linked}

Types ==
  /\ features_detected \in BOOLEAN /\ cpu_features \in SUBSET Features
  /\ registered \in SUBSET Impls /\ simd_initialized \in BOOLEAN
  /\ impl_selected \in BOOLEAN /\ compress_fn \in Impls \cup {NULL}
  /\ impl_name \in (Impls \X {"auto", "forced"}) \cup {NULL}
  /\ pc \in [Threads -> Labels]
  /\ op \in [Threads -> Selections \cup {"dispatch", "features", NULL}]
  /\ job \in [Threads -> {"features", "force", "select", NULL}]
  /\ feat \in [Threads -> SUBSET Features]
  /\ at \in [Threads -> Nat \ {0}]
  /\ target \in [Threads -> Impls \cup {NULL}]
  /\ todo \in [Threads -> SUBSET {"fn", "name"}]
  /\ answer \in [Threads -> {"ok", "no", NULL}]
  /\ forced \in SUBSET Impls

(* Choices a thread may come upon.                                         *)
FnChosen == compress_fn \in {Best} \cup forced
NameChosen ==
  impl_name \in {<<Best, "auto">>} \cup (forced \X {"forced"})

(* The shared variables.                                                   *)
SharedSafe ==
  /\ features_detected => cpu_features = Supported
  /\ registered \subseteq InBuild
  /\ simd_initialized => registered = InBuild
  /\ compress_fn # NULL => FnChosen
  /\ impl_name # NULL => NameChosen
  /\ impl_selected => compress_fn # NULL /\ impl_name # NULL
  /\ \A e \in forced : Usable(e)

(* What a thread knows at each label: on its way to choosing, and from     *)
(* there on.                                                               *)
Prepared(t) ==
  /\ pc[t] = "load" => features_detected
  /\ pc[t] = "store" => feat[t] = Supported
  /\ pc[t] = "flag" => feat[t] = Supported /\ cpu_features = Supported
  /\ pc[t] \in {"give", "look", "write", "auto"} => feat[t] = Supported
  /\ pc[t] \in {"init", "register"} => job[t] = "select"
  /\ pc[t] = "register" =>
       /\ at[t] <= Len(Linked) + 1
       /\ \A k \in 1..(at[t] - 1) : Linked[k] \in registered
  /\ pc[t] \in {"detect", "load", "store", "flag"} =>
       at[t] = 1 /\ job[t] \in {"features", "force", "select"}
  /\ job[t] = "select" /\ pc[t] \in {"detect", "load", "store", "flag",
                                     "look", "write"}
       => registered = InBuild
  /\ job[t] = "force" /\ pc[t] \in {"detect", "load", "store", "flag",
                                    "look", "write"}
       => op[t] \in Selections
  /\ job[t] = "features" /\ pc[t] \in {"detect", "load", "store", "flag",
                                       "give"}
       => op[t] = "features"
  /\ pc[t] = "give" => job[t] = "features"
  /\ pc[t] \in {"idle", "dispatch", "select", "use", "auto"} => at[t] = 1

Choosing(t) ==
  /\ pc[t] \in {"look", "write"} => job[t] \in {"force", "select"}
  /\ pc[t] \in {"look", "write"} /\ job[t] = "force" => op[t] # "AUTO"
  /\ pc[t] = "look" => at[t] <= Len(Order(t)) + 1
  /\ pc[t] = "look" /\ job[t] = "select" =>
       /\ at[t] <= 7
       /\ \A j \in 1..(at[t] - 1) : ~Usable(Ranking[j])
  /\ pc[t] = "write" =>
       /\ job[t] = "select" => target[t] = Best
       /\ job[t] = "force" => target[t] \in forced
       /\ target[t] \in Impls
       /\ "fn" \notin todo[t] => compress_fn # NULL
       /\ "name" \notin todo[t] => impl_name # NULL
  /\ pc[t] = "use" => compress_fn # NULL /\ impl_name # NULL

ThreadSafe(t) == Prepared(t) /\ Choosing(t)

Safe == Types /\ SharedSafe /\ \A t \in Threads : ThreadSafe(t)
(* What one step of a thread leaves standing for the others: flags and     *)
(* registrations are never taken back, and a choice never becomes NULL.    *)
Stable ==
  /\ features_detected => features_detected'
  /\ cpu_features = Supported => cpu_features' = Supported
  /\ registered \subseteq registered' /\ registered' \subseteq InBuild
  /\ compress_fn # NULL => compress_fn' # NULL
  /\ impl_name # NULL => impl_name' # NULL
  /\ forced \subseteq forced'

Unmoved(u) ==
  /\ pc'[u] = pc[u] /\ op'[u] = op[u] /\ job'[u] = job[u]
  /\ feat'[u] = feat[u] /\ at'[u] = at[u] /\ target'[u] = target[u]
  /\ todo'[u] = todo[u]

(* The tables of the code.                                                 *)
LEMMA RankingFacts ==
  /\ DOMAIN Ranking = 1..7 /\ Len(Ranking) = 7 /\ Ranking \in Seq(Impls)
  /\ \A e \in 1..7 : Ranking[e] \in Impls
  /\ Ranking[7] = "portable"
  BY DEF Ranking, Impls

LEMMA PreferenceFacts ==
  ASSUME NEW s \in Forcing
  PROVE  /\ Preferences[s] \in Seq(Impls)
         /\ DOMAIN Preferences[s] = 1..Len(Preferences[s])
         /\ Len(Preferences[s]) \in Nat
<1> DEFINE P == Preferences[s]
<1>1. s \in {"PORTABLE", "AVX2", "AVX2_ASM", "AVX512", "AVX512_ASM", "NEON",
            "NEON_ASM"}
  BY DEF Forcing, Preferences
<1>2. P \in {<<"portable">>, <<"avx2", "avx2_asm">>, <<"avx2_asm">>,
            <<"avx512", "avx512_asm">>, <<"avx512_asm">>,
            <<"neon", "neon_asm">>, <<"neon_asm">>}
  BY <1>1 DEF Preferences
<1>3. \A a, b \in Impls : <<a>> \in Seq(Impls) /\ <<a, b>> \in Seq(Impls)
  OBVIOUS
<1> HIDE DEF P
<1>4. P \in Seq(Impls)  BY <1>2, <1>3 DEF Impls
<1> QED  BY <1>4 DEF P

LEMMA PortableUsable == "portable" \in Impls /\ Needs["portable"] = {}
                        /\ Usable("portable")
  BY DEF Usable, Needs, Impls

LEMMA BuildFacts ==
  /\ Linked \in Seq(Impls) /\ DOMAIN Linked = 1..Len(Linked)
  /\ Len(Linked) \in Nat /\ InBuild \subseteq Impls
  /\ Supported \subseteq Features /\ NULL \notin Impls
  BY BuildAssumption DEF InBuild

LEMMA NameNotNull ==
  ASSUME NEW e \in Impls, NEW how \in {"auto", "forced"}
  PROVE  <<e, how>> # NULL
  BY BuildAssumption

(* There is only one best entry.                                           *)
LEMMA BestIsFirst ==
  ASSUME NEW e \in 1..7, IsBestAt(e)
  PROVE  Best = Ranking[e]
<1> DEFINE b == CHOOSE k \in DOMAIN Ranking : IsBestAt(k)
<1>1. b \in 1..7 /\ IsBestAt(b)  BY RankingFacts
<1> HIDE DEF b
<1>2. b = e
  <2>1. ~(b < e)  BY <1>1 DEF IsBestAt
  <2>2. ~(e < b)  BY <1>1 DEF IsBestAt
  <2> QED  BY <1>1, <2>1, <2>2
<1> QED  BY <1>2 DEF Best, b
-----------------------------------------------------------------------------
THEOREM InitSafe == Init => Safe
<1> SUFFICES ASSUME Init PROVE Safe  OBVIOUS
<1> USE DEF Init
<1>1. Types
  <2>1. /\ features_detected \in BOOLEAN /\ cpu_features \in SUBSET Features
        /\ registered \in SUBSET Impls /\ simd_initialized \in BOOLEAN
        /\ impl_selected \in BOOLEAN /\ compress_fn \in Impls \cup {NULL}
        /\ forced \in SUBSET Impls
    OBVIOUS
  <2>2. impl_name \in (Impls \X {"auto", "forced"}) \cup {NULL}  OBVIOUS
  <2>3. /\ pc \in [Threads -> Labels]
        /\ at \in [Threads -> Nat \ {0}]
        /\ answer \in [Threads -> {"ok", "no", NULL}]
    BY DEF Labels
  <2>4. /\ op \in [Threads -> Selections \cup {"dispatch", "features", NULL}]
        /\ job \in [Threads -> {"features", "force", "select", NULL}]
        /\ target \in [Threads -> Impls \cup {NULL}]
    OBVIOUS
  <2>5. /\ feat \in [Threads -> SUBSET Features]
        /\ todo \in [Threads -> SUBSET {"fn", "name"}]
    OBVIOUS
  <2> QED  BY <2>1, <2>2, <2>3, <2>4, <2>5 DEF Types
<1>2. SharedSafe  BY DEF SharedSafe
<1>3. ASSUME NEW t \in Threads PROVE ThreadSafe(t)
  BY DEF ThreadSafe, Prepared, Choosing
<1> QED  BY <1>1, <1>2, <1>3 DEF Safe

(* A thread that does not move keeps what it knows.                        *)
LEMMA Others ==
  ASSUME NEW u \in Threads, Types, ThreadSafe(u), Stable, Unmoved(u)
  PROVE  ThreadSafe(u)'
<1>1. Order(u)' = Order(u)  BY DEF Order, Unmoved
<1>2. registered = InBuild => registered' = InBuild  BY DEF Stable
<1>3. InBuild' = InBuild  BY DEF InBuild
<1>4. Best' = Best  BY DEF Best, IsBestAt, Usable
<1>5. Prepared(u)'
  BY <1>2, <1>3 DEF ThreadSafe, Prepared, Stable, Unmoved
<1>6. Choosing(u)'
  BY <1>1, <1>4 DEF ThreadSafe, Choosing, Stable, Unmoved, Usable
<1> QED  BY <1>5, <1>6 DEF ThreadSafe

(* So a step of t is safe when its own part is.                            *)
LEMMA OneMoves ==
  ASSUME NEW t \in Threads, Safe, Types', SharedSafe', Stable, ThreadSafe(t)',
         \A u \in Threads \ {t} : Unmoved(u)
  PROVE  Safe'
<1>1. ASSUME NEW u \in Threads \ {t} PROVE ThreadSafe(u)'
  BY <1>1, Others DEF Safe
<1> QED  BY <1>1 DEF Safe
-----------------------------------------------------------------------------
LEMMA CallDispatchSafe ==
  ASSUME NEW t \in Threads, Safe, CallDispatch(t)
  PROVE  Safe'
<1> USE DEF CallDispatch, Goto, shared
<1>1. Types'  BY DEF Safe, Types, Labels
<1>2. SharedSafe'
  BY DEF Safe, SharedSafe, FnChosen, NameChosen, Best, IsBestAt, Usable, InBuild
<1>3. Stable  BY DEF Safe, Types, SharedSafe, Stable
<1>4. \A u \in Threads \ {t} : Unmoved(u)  BY DEF Safe, Types, Unmoved
<1>5. ThreadSafe(t)'
  BY DEF Safe, Types, SharedSafe, ThreadSafe, Prepared, Choosing
<1> QED  BY <1>1, <1>2, <1>3, <1>4, <1>5, OneMoves

LEMMA CallFeaturesSafe ==
  ASSUME NEW t \in Threads, Safe, CallFeatures(t)
  PROVE  Safe'
<1> USE DEF CallFeatures, Goto, shared
<1>1. Types'  BY DEF Safe, Types, Labels
<1>2. SharedSafe'
  BY DEF Safe, SharedSafe, FnChosen, NameChosen, Best, IsBestAt, Usable, InBuild
<1>3. Stable  BY DEF Safe, Types, SharedSafe, Stable
<1>4. \A u \in Threads \ {t} : Unmoved(u)  BY DEF Safe, Types, Unmoved
<1>5. ThreadSafe(t)'
  BY DEF Safe, Types, SharedSafe, ThreadSafe, Prepared, Choosing
<1> QED  BY <1>1, <1>2, <1>3, <1>4, <1>5, OneMoves

LEMMA CallSetImplSafe ==
  ASSUME NEW t \in Threads, NEW selection \in Selections, Safe, CallSetImpl(t, selection)
  PROVE  Safe'
<1> USE DEF CallSetImpl, Goto, shared
<1>1. Types'  BY DEF Safe, Types, Labels
<1>2. SharedSafe'
  BY DEF Safe, SharedSafe, FnChosen, NameChosen, Best, IsBestAt, Usable, InBuild
<1>3. Stable  BY DEF Safe, Types, SharedSafe, Stable
<1>4. \A u \in Threads \ {t} : Unmoved(u)  BY DEF Safe, Types, Unmoved
<1>5. ThreadSafe(t)'
  BY DEF Safe, Types, SharedSafe, ThreadSafe, Prepared, Choosing
<1> QED  BY <1>1, <1>2, <1>3, <1>4, <1>5, OneMoves

LEMMA CheckSelectedSafe ==
  ASSUME NEW t \in Threads, Safe, CheckSelected(t)
  PROVE  Safe'
<1> USE DEF CheckSelected, Goto, shared
<1>1. Types'  BY DEF Safe, Types, Labels
<1>2. SharedSafe'
  BY DEF Safe, SharedSafe, FnChosen, NameChosen, Best, IsBestAt, Usable, InBuild
<1>3. Stable  BY DEF Safe, Types, SharedSafe, Stable
<1>4. \A u \in Threads \ {t} : Unmoved(u)  BY DEF Safe, Types, Unmoved
<1>5. ThreadSafe(t)'
  BY DEF Safe, Types, SharedSafe, ThreadSafe, Prepared, Choosing
<1> QED  BY <1>1, <1>2, <1>3, <1>4, <1>5, OneMoves

LEMMA EnterSelectSafe ==
  ASSUME NEW t \in Threads, Safe, EnterSelect(t)
  PROVE  Safe'
<1> USE DEF EnterSelect, Goto, shared, Return
<1>1. Types'  BY DEF Safe, Types, Labels
<1>2. SharedSafe'
  BY DEF Safe, SharedSafe, FnChosen, NameChosen, Best, IsBestAt, Usable, InBuild
<1>3. Stable  BY DEF Safe, Types, SharedSafe, Stable
<1>4. \A u \in Threads \ {t} : Unmoved(u)  BY DEF Safe, Types, Unmoved
<1>5. ThreadSafe(t)'
  BY DEF Safe, Types, SharedSafe, ThreadSafe, Prepared, Choosing
<1> QED  BY <1>1, <1>2, <1>3, <1>4, <1>5, OneMoves

LEMMA EnterInitSafe ==
  ASSUME NEW t \in Threads, Safe, EnterInit(t)
  PROVE  Safe'
<1> USE DEF EnterInit, Goto, shared
<1>1. Types'  BY DEF Safe, Types, Labels
<1>2. SharedSafe'
  BY DEF Safe, SharedSafe, FnChosen, NameChosen, Best, IsBestAt, Usable, InBuild
<1>3. Stable  BY DEF Safe, Types, SharedSafe, Stable
<1>4. \A u \in Threads \ {t} : Unmoved(u)  BY DEF Safe, Types, Unmoved
<1>5. ThreadSafe(t)'
  <2>1. pc[t] = "init" /\ at'[t] = 1 /\ registered' = registered
        /\ job'[t] = job[t] /\ op'[t] = op[t]
        /\ pc'[t] = IF simd_initialized THEN "detect" ELSE "register"
    BY DEF Safe, Types
  <2>2. simd_initialized => registered = InBuild  BY DEF Safe, SharedSafe
  <2>3. job[t] = "select"  BY <2>1 DEF Safe, ThreadSafe, Prepared, Choosing
  <2> QED  BY <2>1, <2>2, <2>3, BuildFacts DEF ThreadSafe, Prepared, Choosing
<1> QED  BY <1>1, <1>2, <1>3, <1>4, <1>5, OneMoves

LEMMA RegisterSafe ==
  ASSUME NEW t \in Threads, Safe, Register(t)
  PROVE  Safe'
<1> USE DEF Register, Goto, shared
<1>1. Types'
  <2>1. registered' \in SUBSET Impls
    BY BuildFacts DEF Safe, Types, InBuild
  <2>2. at' \in [Threads -> Nat \ {0}]  BY DEF Safe, Types
  <2>3. pc' \in [Threads -> Labels]  BY DEF Safe, Types, Labels
  <2> QED  BY <2>1, <2>2, <2>3 DEF Safe, Types
<1>2. SharedSafe'
  <2>1. registered \subseteq registered' /\ registered' \subseteq InBuild
    BY DEF Safe, SharedSafe, InBuild
  <2>2. simd_initialized' => registered' = InBuild
    <3>1. CASE at[t] \in DOMAIN Linked
      BY <2>1, <3>1 DEF Safe, SharedSafe
    <3>2. CASE at[t] \notin DOMAIN Linked
      <4>1. at[t] = Len(Linked) + 1
        BY <3>2, BuildFacts DEF Safe, Types, ThreadSafe, Prepared, Choosing
      <4>2. InBuild \subseteq registered
        BY <4>1, BuildFacts DEF Safe, ThreadSafe, Prepared, Choosing, InBuild
      <4> QED  BY <2>1, <3>2, <4>2
    <3> QED  BY <3>1, <3>2
  <2> QED  BY <2>1, <2>2 DEF Safe, SharedSafe, FnChosen, NameChosen
<1>3. Stable
  BY DEF Safe, SharedSafe, Stable, InBuild
<1>4. \A u \in Threads \ {t} : Unmoved(u)  BY DEF Safe, Types, Unmoved
<1>5. ThreadSafe(t)'
  <2>1. CASE at[t] \in DOMAIN Linked
    <3>1. pc'[t] = "register" /\ at'[t] = at[t] + 1 /\ at[t] \in Nat
          /\ job'[t] = job[t] /\ job[t] = "select"
      BY <2>1 DEF Safe, Types, ThreadSafe, Prepared, Choosing
    <3>2. at[t] \in 1..Len(Linked)  BY <2>1, BuildFacts
    <3>3. \A k \in 1..(at'[t] - 1) : Linked[k] \in registered'
      <4>1. \A k \in 1..(at[t] - 1) : Linked[k] \in registered
        BY DEF Safe, ThreadSafe, Prepared, Choosing
      <4>2. registered' = registered \cup {Linked[at[t]]}  BY <2>1
      <4> QED  BY <3>1, <3>2, <4>1, <4>2
    <3> QED  BY <3>1, <3>2, <3>3, BuildFacts DEF ThreadSafe, Prepared, Choosing
  <2>2. CASE at[t] \notin DOMAIN Linked
    <3>1. pc'[t] = "detect" /\ at'[t] = 1 /\ simd_initialized'
          /\ job'[t] = job[t] /\ op'[t] = op[t] /\ job[t] = "select"
      BY <2>2 DEF Safe, Types, ThreadSafe, Prepared, Choosing
    <3>2. registered' = InBuild  BY <1>2, <3>1 DEF SharedSafe
    <3> QED  BY <3>1, <3>2 DEF ThreadSafe, Prepared, Choosing
  <2> QED  BY <2>1, <2>2
<1> QED  BY <1>1, <1>2, <1>3, <1>4, <1>5, OneMoves

LEMMA DetectSafe ==
  ASSUME NEW t \in Threads, Safe, Detect(t)
  PROVE  Safe'
<1> USE DEF Detect, Goto, shared
<1>1. Types'
  <2>1. feat' \in [Threads -> SUBSET Features]
    <3>1. feat \in [Threads -> SUBSET Features]  BY DEF Safe, Types
    <3>2. Supported \in SUBSET Features  BY BuildFacts
    <3>3. feat' = feat \/ feat' = [feat EXCEPT ![t] = Supported]  OBVIOUS
    <3> QED  BY <3>1, <3>2, <3>3
  <2>2. pc' \in [Threads -> Labels]  BY DEF Safe, Types, Labels
  <2> QED  BY <2>1, <2>2 DEF Safe, Types
<1>2. SharedSafe'
  BY DEF Safe, SharedSafe, FnChosen, NameChosen, Best, IsBestAt, Usable, InBuild
<1>3. Stable  BY DEF Safe, Types, SharedSafe, Stable
<1>4. \A u \in Threads \ {t} : Unmoved(u)  BY DEF Safe, Types, Unmoved
<1>5. ThreadSafe(t)'
  BY DEF Safe, Types, SharedSafe, ThreadSafe, Prepared, Choosing
<1> QED  BY <1>1, <1>2, <1>3, <1>4, <1>5, OneMoves

LEMMA LoadFeaturesSafe ==
  ASSUME NEW t \in Threads, Safe, LoadFeatures(t)
  PROVE  Safe'
<1> USE DEF LoadFeatures, Goto, shared, AfterFeatures
<1>1. Types'  BY DEF Safe, Types, Labels
<1>2. SharedSafe'
  BY DEF Safe, SharedSafe, FnChosen, NameChosen, Best, IsBestAt, Usable, InBuild
<1>3. Stable  BY DEF Safe, Types, SharedSafe, Stable
<1>4. \A u \in Threads \ {t} : Unmoved(u)  BY DEF Safe, Types, Unmoved
<1>5. ThreadSafe(t)'
  BY DEF Safe, Types, SharedSafe, ThreadSafe, Prepared, Choosing
<1> QED  BY <1>1, <1>2, <1>3, <1>4, <1>5, OneMoves

LEMMA StoreFeaturesSafe ==
  ASSUME NEW t \in Threads, Safe, StoreFeatures(t)
  PROVE  Safe'
<1> USE DEF StoreFeatures, Goto, shared
<1>1. Types'  BY DEF Safe, Types, Labels
<1>2. SharedSafe'
  BY DEF Safe, Types, SharedSafe, ThreadSafe, Prepared, Choosing, FnChosen, NameChosen
<1>3. Stable
  BY DEF Safe, SharedSafe, ThreadSafe, Prepared, Choosing, Stable
<1>4. \A u \in Threads \ {t} : Unmoved(u)  BY DEF Safe, Types, Unmoved
<1>5. ThreadSafe(t)'
  BY DEF Safe, Types, SharedSafe, ThreadSafe, Prepared, Choosing
<1> QED  BY <1>1, <1>2, <1>3, <1>4, <1>5, OneMoves

LEMMA FlagFeaturesSafe ==
  ASSUME NEW t \in Threads, Safe, FlagFeatures(t)
  PROVE  Safe'
<1> USE DEF FlagFeatures, Goto, shared, AfterFeatures
<1>1. Types'  BY DEF Safe, Types, Labels
<1>2. SharedSafe'
  BY DEF Safe, Types, SharedSafe, ThreadSafe, Prepared, Choosing, FnChosen, NameChosen
<1>3. Stable  BY DEF Safe, Types, SharedSafe, Stable
<1>4. \A u \in Threads \ {t} : Unmoved(u)  BY DEF Safe, Types, Unmoved
<1>5. ThreadSafe(t)'
  BY DEF Safe, Types, SharedSafe, ThreadSafe, Prepared, Choosing
<1> QED  BY <1>1, <1>2, <1>3, <1>4, <1>5, OneMoves

LEMMA GiveFeaturesSafe ==
  ASSUME NEW t \in Threads, Safe, GiveFeatures(t)
  PROVE  Safe'
<1> USE DEF GiveFeatures, Goto, shared, Return
<1>1. Types'  BY DEF Safe, Types, Labels
<1>2. SharedSafe'
  BY DEF Safe, SharedSafe, FnChosen, NameChosen, Best, IsBestAt, Usable, InBuild
<1>3. Stable  BY DEF Safe, Types, SharedSafe, Stable
<1>4. \A u \in Threads \ {t} : Unmoved(u)  BY DEF Safe, Types, Unmoved
<1>5. ThreadSafe(t)'
  <2>1. pc[t] = "give" /\ at'[t] = 1 /\ job'[t] = NULL
        /\ pc'[t] = "idle"
    BY DEF Safe, Types, ThreadSafe, Prepared, Choosing
  <2> QED  BY <2>1 DEF ThreadSafe, Prepared, Choosing
<1> QED  BY <1>1, <1>2, <1>3, <1>4, <1>5, OneMoves

(* Every list that is tried holds functions only, and an entry that passes *)
(* the checks is usable.                                                   *)
LEMMA ListFacts ==
  ASSUME NEW t \in Threads, Safe, pc[t] = "look"
  PROVE  /\ DOMAIN Order(t) = 1..Len(Order(t)) /\ Len(Order(t)) \in Nat
         /\ \A e \in DOMAIN Order(t) : Order(t)[e] \in Impls
         /\ job[t] = "force" => op[t] \in Forcing
<1>1. job[t] = "force" => op[t] \in Forcing
  BY SelectionAssumption DEF Safe, ThreadSafe, Prepared, Choosing
<1>2. Order(t) \in Seq(Impls)
  BY <1>1, PreferenceFacts, RankingFacts DEF Order
<1>3. DOMAIN Order(t) = 1..Len(Order(t)) /\ Len(Order(t)) \in Nat
  BY <1>2
<1>4. \A e \in DOMAIN Order(t) : Order(t)[e] \in Impls
  BY <1>2, <1>3
<1> QED  BY <1>1, <1>3, <1>4

LEMMA CallableUsable ==
  ASSUME NEW t \in Threads, Safe, pc[t] = "look",
         NEW e, Callable(t, e)
  PROVE  Usable(Order(t)[e])
  BY DEF Safe, SharedSafe, ThreadSafe, Prepared, Choosing, Callable, Usable, InBuild

LEMMA LookSafe ==
  ASSUME NEW t \in Threads, Safe, Look(t)
  PROVE  Safe'
<1> USE DEF Look, Goto, shared, Return, Callable
<1>1. Types'
  <2>1. pc' \in [Threads -> Labels]  BY DEF Safe, Types, Labels
  <2>2. /\ job' \in [Threads -> {"features", "force", "select", NULL}]
        /\ feat' \in [Threads -> SUBSET Features]
        /\ at' \in [Threads -> Nat \ {0}]
        /\ todo' \in [Threads -> SUBSET {"fn", "name"}]
        /\ answer' \in [Threads -> {"ok", "no", NULL}]
    BY DEF Safe, Types
  <2>3. target' \in [Threads -> Impls \cup {NULL}]
    BY ListFacts DEF Safe, Types
  <2>4. forced' \in SUBSET Impls
    <3>1. forced' \subseteq forced
            \cup {Order(t)[e] : e \in {at[t]} \cap DOMAIN Order(t)}
      OBVIOUS
    <3>2. \A e \in DOMAIN Order(t) : Order(t)[e] \in Impls  BY ListFacts
    <3>3. {Order(t)[e] : e \in {at[t]} \cap DOMAIN Order(t)} \subseteq Impls
      BY <3>2
    <3> QED  BY <3>1, <3>3 DEF Safe, Types
  <2> QED  BY <2>1, <2>2, <2>3, <2>4 DEF Safe, Types
<1>2. SharedSafe'
  <2>1. \A e \in forced' : Usable(e)
    BY CallableUsable DEF Safe, SharedSafe
  <2>2. forced \subseteq forced'  OBVIOUS
  <2> QED
    BY <2>1, <2>2 DEF Safe, SharedSafe, FnChosen, NameChosen
<1>3. Stable  BY DEF Safe, Types, SharedSafe, Stable
<1>4. \A u \in Threads \ {t} : Unmoved(u)  BY DEF Safe, Types, Unmoved
<1>5. ThreadSafe(t)'
  <2> DEFINE e == at[t]
  <2>1. /\ feat[t] = Supported /\ job[t] \in {"force", "select"}
        /\ job[t] = "force" => op[t] \in Forcing
        /\ job[t] = "select" => registered = InBuild
        /\ e \in Nat \ {0} /\ e <= Len(Order(t)) + 1
        /\ DOMAIN Order(t) = 1..Len(Order(t)) /\ Len(Order(t)) \in Nat
    BY ListFacts DEF Safe, Types, ThreadSafe, Prepared, Choosing
  <2>2. CASE e \in DOMAIN Order(t) /\ Callable(t, e)
    <3>1. /\ pc'[t] = "write" /\ target'[t] = Order(t)[e]
          /\ todo'[t] = {"fn", "name"} /\ job'[t] = job[t]
          /\ op'[t] = op[t] /\ feat'[t] = feat[t]
          /\ registered' = registered
          /\ forced' = forced \cup {n \in {Order(t)[e]} : job[t] = "force"}
      BY <2>2 DEF Safe, Types
    <3>2. job[t] = "select" => target'[t] = Best
      <4>1. SUFFICES ASSUME job[t] = "select" PROVE Order(t)[e] = Best
        BY <3>1
      <4>2. Order(t) = Ranking /\ e \in 1..7
        BY <2>2, <4>1, RankingFacts DEF Order
      <4>3. IsBestAt(e)
        BY <2>2, <4>1, <4>2, CallableUsable
            DEF IsBestAt, Safe, ThreadSafe, Prepared, Choosing
      <4> QED  BY <4>2, <4>3, BestIsFirst
    <3>3. Order(t)[e] \in Impls  BY <2>2, ListFacts
    <3>4. job[t] = "force" => target'[t] \in forced'  BY <3>1
    <3>5. op[t] = op'[t] /\ (job[t] = "force" => op[t] \in Selections /\ op[t] # "AUTO")
      BY <3>1 DEF Safe, ThreadSafe, Prepared, Choosing
    <3> QED
      BY <2>1, <3>1, <3>2, <3>3, <3>4, <3>5 DEF ThreadSafe, Prepared, Choosing
  <2>3. CASE e \in DOMAIN Order(t) /\ ~Callable(t, e)
    <3>1. /\ pc'[t] = "look" /\ at'[t] = e + 1 /\ job'[t] = job[t]
          /\ op'[t] = op[t] /\ feat'[t] = feat[t]
          /\ registered' = registered
      BY <2>3 DEF Safe, Types
    <3>2. Order(t)' = Order(t)  BY <3>1 DEF Order
    <3>3. at'[t] <= Len(Order(t)') + 1  BY <2>1, <2>3, <3>1, <3>2
    <3>4. ASSUME job[t] = "select"
          PROVE  e < 7 /\ \A j \in 1..e : ~Usable(Ranking[j])
      <4>1. Order(t) = Ranking /\ e \in 1..7
        BY <2>3, <3>4, RankingFacts DEF Order
      <4>2. ~Usable(Ranking[e])
        BY <2>1, <2>3, <3>4, <4>1 DEF Callable, Usable, InBuild
      <4>3. e # 7  BY <4>1, <4>2, PortableUsable, RankingFacts
      <4> QED
        BY <3>4, <4>1, <4>2, <4>3 DEF Safe, ThreadSafe, Prepared, Choosing
    <3>5. job[t] = "force" => op[t] \in Selections /\ op[t] # "AUTO"
      BY DEF Safe, ThreadSafe, Prepared, Choosing
    <3>6. job[t] = "select" =>
            at'[t] <= 7 /\ \A j \in 1..(at'[t] - 1) : ~Usable(Ranking[j])
      BY <2>1, <3>1, <3>4
    <3> QED
      BY <2>1, <3>1, <3>2, <3>3, <3>5, <3>6
          DEF ThreadSafe, Prepared, Choosing, Usable
  <2>4. CASE e \notin DOMAIN Order(t)
    <3>1. pc'[t] \in {"use", "idle"} /\ at'[t] = 1 /\ job'[t] = NULL
          /\ (pc'[t] = "use" => op[t] = "dispatch")
      BY <2>4 DEF Safe, Types
    <3>2. job[t] = "force"
      <4>1. SUFFICES ASSUME job[t] = "select" PROVE FALSE
        BY <2>1
      <4>2. Order(t) = Ranking  BY <4>1 DEF Order
      <4>3. e <= 7
        BY <4>1 DEF Look, Safe, ThreadSafe, Choosing
      <4>4. e \in 1..7  BY <2>1, <4>3
      <4> QED  BY <2>4, <4>2, <4>4, RankingFacts
    <3>3. pc'[t] = "idle"  BY <2>1, <3>1, <3>2 DEF Forcing, Preferences
    <3> QED  BY <3>1, <3>3 DEF ThreadSafe, Prepared, Choosing
  <2> QED  BY <2>2, <2>3, <2>4
<1> QED  BY <1>1, <1>2, <1>3, <1>4, <1>5, OneMoves

LEMMA WriteFnSafe ==
  ASSUME NEW t \in Threads, Safe, WriteFn(t)
  PROVE  Safe'
<1> USE DEF WriteFn, Goto, shared
<1>1. Types'  BY DEF Safe, Types, Labels
<1>2. SharedSafe'
  <2>1. target[t] \in {Best} \cup forced /\ target[t] # NULL
    BY BuildFacts DEF Safe, Types, ThreadSafe, Prepared, Choosing
  <2>2. compress_fn' = target[t] /\ forced' = forced  OBVIOUS
  <2>3. FnChosen'  BY <2>1, <2>2 DEF FnChosen
  <2>4. NameChosen => NameChosen'  BY DEF NameChosen
  <2> QED  BY <2>1, <2>2, <2>3, <2>4 DEF Safe, SharedSafe
<1>3. Stable
  BY BuildFacts DEF Safe, SharedSafe, ThreadSafe, Prepared, Choosing, Stable
<1>4. \A u \in Threads \ {t} : Unmoved(u)  BY DEF Safe, Types, Unmoved
<1>5. ThreadSafe(t)'
  <2>1. /\ pc'[t] = pc[t] /\ job'[t] = job[t] /\ op'[t] = op[t]
        /\ feat'[t] = feat[t] /\ at'[t] = at[t] /\ target'[t] = target[t]
        /\ registered' = registered /\ forced' = forced
        /\ pc[t] = "write" /\ todo'[t] = todo[t] \ {"fn"}
    BY DEF Safe, Types
  <2>2. compress_fn' # NULL
    BY BuildFacts DEF Safe, ThreadSafe, Prepared, Choosing
  <2> QED  BY <2>1, <2>2 DEF Safe, ThreadSafe, Prepared, Choosing
<1> QED  BY <1>1, <1>2, <1>3, <1>4, <1>5, OneMoves

LEMMA WriteNameSafe ==
  ASSUME NEW t \in Threads, Safe, WriteName(t)
  PROVE  Safe'
<1> USE DEF WriteName, Goto, shared, Chosen
<1>1. Types'
  <2>1. Chosen(t) \in Impls \X {"auto", "forced"}
    BY DEF Safe, ThreadSafe, Prepared, Choosing
  <2>2. todo' \in [Threads -> SUBSET {"fn", "name"}]  BY DEF Safe, Types
  <2> HIDE DEF Chosen
  <2> QED  BY <2>1, <2>2 DEF Safe, Types
<1>2. SharedSafe'
  <2>1. Chosen(t) \in {<<Best, "auto">>} \cup (forced \X {"forced"})
    BY DEF Safe, ThreadSafe, Prepared, Choosing
  <2>2. impl_name' = Chosen(t) /\ forced' = forced  OBVIOUS
  <2>3. NameChosen'  BY <2>1, <2>2 DEF NameChosen
  <2>4. compress_fn # NULL => FnChosen  BY DEF Safe, SharedSafe
  <2>5. FnChosen => FnChosen'  BY DEF FnChosen
  <2>6. impl_selected => impl_name' # NULL
    <3>1. Chosen(t) # NULL
      BY NameNotNull DEF Safe, ThreadSafe, Prepared, Choosing
    <3> HIDE DEF Chosen
    <3> QED  BY <2>2, <3>1
  <2> QED
    BY <2>3, <2>4, <2>5, <2>6 DEF Safe, SharedSafe
<1>3. Stable
  <2>1. Chosen(t) # NULL
    BY NameNotNull DEF Safe, ThreadSafe, Prepared, Choosing
  <2> HIDE DEF Chosen
  <2> QED  BY <2>1 DEF Safe, SharedSafe, Stable
<1>4. \A u \in Threads \ {t} : Unmoved(u)  BY DEF Safe, Types, Unmoved
<1>5. ThreadSafe(t)'
  <2>1. /\ pc'[t] = pc[t] /\ job'[t] = job[t] /\ op'[t] = op[t]
        /\ feat'[t] = feat[t] /\ at'[t] = at[t] /\ target'[t] = target[t]
        /\ registered' = registered /\ forced' = forced
        /\ pc[t] = "write" /\ todo'[t] = todo[t] \ {"name"}
    BY DEF Safe, Types
  <2>2. impl_name' # NULL
    BY NameNotNull DEF Safe, ThreadSafe, Prepared, Choosing
  <2> QED  BY <2>1, <2>2 DEF Safe, ThreadSafe, Prepared, Choosing
<1> QED  BY <1>1, <1>2, <1>3, <1>4, <1>5, OneMoves

LEMMA PublishSafe ==
  ASSUME NEW t \in Threads, Safe, Publish(t)
  PROVE  Safe'
<1> USE DEF Publish, Goto, shared, Return
<1>1. Types'  BY DEF Safe, Types, Labels
<1>2. SharedSafe'
  BY DEF Safe, Types, SharedSafe, ThreadSafe, Prepared, Choosing, FnChosen, NameChosen
<1>3. Stable  BY DEF Safe, Types, SharedSafe, Stable
<1>4. \A u \in Threads \ {t} : Unmoved(u)  BY DEF Safe, Types, Unmoved
<1>5. ThreadSafe(t)'
  BY DEF Safe, Types, SharedSafe, ThreadSafe, Prepared, Choosing
<1> QED  BY <1>1, <1>2, <1>3, <1>4, <1>5, OneMoves

LEMMA ForgetSelectionSafe ==
  ASSUME NEW t \in Threads, Safe, ForgetSelection(t)
  PROVE  Safe'
<1> USE DEF ForgetSelection, Goto, shared
<1>1. Types'  BY DEF Safe, Types, Labels
<1>2. SharedSafe'
  BY DEF Safe, SharedSafe, FnChosen, NameChosen, Best, IsBestAt, Usable, InBuild
<1>3. Stable  BY DEF Safe, Types, SharedSafe, Stable
<1>4. \A u \in Threads \ {t} : Unmoved(u)  BY DEF Safe, Types, Unmoved
<1>5. ThreadSafe(t)'
  <2>1. /\ pc'[t] = "select" /\ at'[t] = at[t] /\ job'[t] = job[t]
    BY DEF Safe, Types
  <2>2. at[t] = 1  BY DEF Safe, ThreadSafe, Prepared, Choosing
  <2> QED  BY <2>1, <2>2 DEF ThreadSafe, Prepared, Choosing
<1> QED  BY <1>1, <1>2, <1>3, <1>4, <1>5, OneMoves

LEMMA UseSafe ==
  ASSUME NEW t \in Threads, Safe, Use(t)
  PROVE  Safe'
<1> USE DEF Use, Goto, shared
<1>1. Types'  BY DEF Safe, Types, Labels
<1>2. SharedSafe'
  BY DEF Safe, SharedSafe, FnChosen, NameChosen, Best, IsBestAt, Usable, InBuild
<1>3. Stable  BY DEF Safe, Types, SharedSafe, Stable
<1>4. \A u \in Threads \ {t} : Unmoved(u)  BY DEF Safe, Types, Unmoved
<1>5. ThreadSafe(t)'
  BY DEF Safe, Types, SharedSafe, ThreadSafe, Prepared, Choosing
<1> QED  BY <1>1, <1>2, <1>3, <1>4, <1>5, OneMoves
-----------------------------------------------------------------------------
LEMMA StutterSafe == Safe /\ UNCHANGED vars => Safe'
<1> SUFFICES ASSUME Safe, UNCHANGED vars PROVE Safe'  OBVIOUS
<1>1. Types'  BY DEF Safe, Types, vars, shared, locals
<1>2. SharedSafe'
  BY DEF Safe, SharedSafe, FnChosen, NameChosen, vars, shared
<1>3. Stable  BY DEF Safe, SharedSafe, Stable, vars, shared
<1>4. ASSUME NEW u \in Threads PROVE ThreadSafe(u)'
  <2>1. Unmoved(u)  BY DEF Unmoved, vars, locals
  <2> QED  BY <1>3, <2>1, Others DEF Safe
<1> QED  BY <1>1, <1>2, <1>4 DEF Safe

LEMMA NextSafe == Safe /\ [Next]_vars => Safe'
<1> SUFFICES ASSUME Safe, [Next]_vars PROVE Safe'  OBVIOUS
<1>1. CASE Next
  <2> PICK t \in Threads :
        \/ CallDispatch(t) \/ CallFeatures(t)
        \/ \E selection \in Selections : CallSetImpl(t, selection)
        \/ Step(t)
    BY <1>1 DEF Next
  <2>1. CASE CallDispatch(t)  BY <2>1, CallDispatchSafe
  <2>2. CASE CallFeatures(t)  BY <2>2, CallFeaturesSafe
  <2>3. CASE CheckSelected(t)  BY <2>3, CheckSelectedSafe
  <2>4. CASE EnterSelect(t)  BY <2>4, EnterSelectSafe
  <2>5. CASE EnterInit(t)  BY <2>5, EnterInitSafe
  <2>6. CASE Register(t)  BY <2>6, RegisterSafe
  <2>7. CASE Detect(t)  BY <2>7, DetectSafe
  <2>8. CASE LoadFeatures(t)  BY <2>8, LoadFeaturesSafe
  <2>9. CASE StoreFeatures(t)  BY <2>9, StoreFeaturesSafe
  <2>10. CASE FlagFeatures(t)  BY <2>10, FlagFeaturesSafe
  <2>11. CASE GiveFeatures(t)  BY <2>11, GiveFeaturesSafe
  <2>12. CASE Look(t)  BY <2>12, LookSafe
  <2>13. CASE WriteFn(t)  BY <2>13, WriteFnSafe
  <2>14. CASE WriteName(t)  BY <2>14, WriteNameSafe
  <2>15. CASE Publish(t)  BY <2>15, PublishSafe
  <2>16. CASE ForgetSelection(t)  BY <2>16, ForgetSelectionSafe
  <2>17. CASE Use(t)  BY <2>17, UseSafe
  <2>18. CASE \E selection \in Selections : CallSetImpl(t, selection)
    BY <2>18, CallSetImplSafe
  <2> QED
    BY <2>1, <2>2, <2>3, <2>4, <2>5, <2>6, <2>7, <2>8, <2>9,
       <2>10, <2>11, <2>12, <2>13, <2>14, <2>15, <2>16, <2>17, <2>18
       DEF Step
<1>2. CASE UNCHANGED vars  BY <1>2, StutterSafe
<1> QED  BY <1>1, <1>2

(* The inductive invariant, for any number of threads.                     *)
THEOREM AlwaysSafe == Spec => []Safe
  BY InitSafe, NextSafe, PTL DEF Spec

(* Some entry of the ranking is the best: portable, if nothing before it.  *)
LEMMA BestUsable == Usable(Best)
<1>1. \E e \in 1..7 : IsBestAt(e)
  <2>1. Usable(Ranking[7])  BY PortableUsable, RankingFacts
  <2> DEFINE U(e) == Usable(Ranking[e])
  <2> HIDE DEF U
  <2>2. \E e \in 1..7 : U(e) /\ \A j \in 1..(e - 1) : ~U(j)
    <3>1. U(7)  BY <2>1 DEF U
    <3>2. CASE U(1)  BY <3>2
    <3>3. CASE ~U(1) /\ U(2)  BY <3>3
    <3>4. CASE ~U(1) /\ ~U(2) /\ U(3)  BY <3>4
    <3>5. CASE ~U(1) /\ ~U(2) /\ ~U(3) /\ U(4)  BY <3>5
    <3>6. CASE ~U(1) /\ ~U(2) /\ ~U(3) /\ ~U(4) /\ U(5)  BY <3>6
    <3>7. CASE ~U(1) /\ ~U(2) /\ ~U(3) /\ ~U(4) /\ ~U(5) /\ U(6)  BY <3>7
    <3>8. CASE ~U(1) /\ ~U(2) /\ ~U(3) /\ ~U(4) /\ ~U(5) /\ ~U(6)
      BY <3>1, <3>8
    <3> QED  BY <3>2, <3>3, <3>4, <3>5, <3>6, <3>7, <3>8
  <2> QED  BY <2>2 DEF U, IsBestAt
<1>2. PICK e \in 1..7 : IsBestAt(e)  BY <1>1
<1> QED  BY <1>2, BestIsFirst DEF IsBestAt

(* Every variable keeps its type, and whenever g_impl_selected is set      *)
(* there is a function and a name (select_implementation and               *)
(* blake4_dispatch_set_impl).                                              *)
THEOREM TypeCorrect == Spec => []TypeOK
<1>1. Safe => TypeOK
  <2> SUFFICES ASSUME Safe PROVE TypeOK  OBVIOUS
  <2>1. at \in [Threads -> Nat]  BY DEF Safe, Types
  <2>2. impl_selected => compress_fn # NULL /\ impl_name # NULL
    BY DEF Safe, SharedSafe
  <2> QED  BY <2>1, <2>2 DEF Safe, Types, TypeOK
<1> QED  BY <1>1, AlwaysSafe, PTL

(* get_cpu_features gives no thread a partial answer, although the value   *)
(* and the flag that vouches for it are two variables: the flag is stored  *)
(* second and never taken back.                                            *)
THEOREM NoPartialFeatures == Spec => []FeaturesComplete
<1>1. Safe => FeaturesComplete
  BY DEF Safe, ThreadSafe, Prepared, FeaturesComplete
<1> QED  BY <1>1, AlwaysSafe, PTL

(* Whatever select_implementation and set_impl do at the same time, the    *)
(* function installed can be executed by this CPU.                         *)
THEOREM InstalledIsUsable == Spec => []OnlyUsable
<1>1. Safe => OnlyUsable
  BY BestUsable DEF Safe, SharedSafe, FnChosen, OnlyUsable
<1> QED  BY <1>1, AlwaysSafe, PTL

(* A thread that gets past g_impl_selected uses the best function or one   *)
(* that set_impl was asked for, never NULL: the flag is stored after the   *)
(* pointers, and never without them.                                       *)
THEOREM UseIsChosen == Spec => []UsedWasChosen
<1>1. Safe => UsedWasChosen
  BY DEF Safe, SharedSafe, ThreadSafe, Choosing, FnChosen, NameChosen,
         UsedWasChosen
<1> QED  BY <1>1, AlwaysSafe, PTL
-----------------------------------------------------------------------------
(* Detection of the features (CpuFeatures), on every machine.              *)

(* What has been learnt when a read is due: which leaves exist, and that   *)
(* no feature is taken before the registers it needs are known to be       *)
(* saved.                                                                  *)
Learnt ==
  /\ step = "leaf0" => machine.arch = "x86" /\ found = {} /\ ~os_avx
  /\ step = "leaf1" =>
       /\ machine.arch = "x86" /\ machine.max_leaf >= 1
       /\ found = {} /\ ~os_avx
  /\ step = "xgetbv" =>
       /\ machine.arch = "x86" /\ machine.max_leaf >= 1
       /\ {"OSXSAVE", "AVX"} \subseteq machine.leaf1
       /\ found = machine.leaf1 \cap {"SSE41"}
  /\ step = "leaf7" =>
       /\ machine.arch = "x86" /\ machine.max_leaf >= 7
       /\ {"OSXSAVE", "AVX"} \subseteq machine.leaf1
       /\ Avx \subseteq machine.xcr0
       /\ found = (machine.leaf1 \cap {"SSE41"}) \cup {"AVX"}
  /\ step = "hwcap" => machine.arch = "arm64" /\ found = {}
  /\ step = "done" => found = Offered

DetectInv ==
  /\ machine \in Machines
  /\ step \in {"leaf0", "leaf1", "xgetbv", "leaf7", "hwcap", "done"}
  /\ Learnt

LEMMA X86Facts ==
  ASSUME machine \in Machines, machine.arch = "x86"
  PROVE  /\ machine.max_leaf \in {0, 1, 7}
         /\ machine.leaf1 \in SUBSET {"SSE41", "OSXSAVE", "AVX"}
         /\ machine.leaf7 \in SUBSET {"AVX2", "AVX512F", "AVX512VL"}
BY DEF Machines, X86Machines, ArmMachines

LEMMA ArmFacts ==
  ASSUME machine \in Machines, machine.arch = "arm64"
  PROVE  /\ machine.asimd \in BOOLEAN
         /\ machine.os # "linux" => machine.asimd
BY DEF Machines, X86Machines, ArmMachines

(* The features of an x86, one by one.                                     *)
LEMMA OfferedX86 ==
  ASSUME machine \in Machines, machine.arch = "x86", NEW f
  PROVE  f \in Offered <=>
           \/ f = "SSE41" /\ machine.max_leaf >= 1 /\ "SSE41" \in machine.leaf1
           \/ /\ machine.max_leaf >= 1
              /\ {"OSXSAVE", "AVX"} \subseteq machine.leaf1
              /\ Avx \subseteq machine.xcr0
              /\ \/ f = "AVX"
                 \/ /\ machine.max_leaf >= 7
                    /\ \/ f = "AVX2" /\ "AVX2" \in machine.leaf7
                       \/ /\ f \in {"AVX512F", "AVX512VL"}
                          /\ f \in machine.leaf7
                          /\ "AVX512F" \in machine.leaf7
                          /\ Zmm \subseteq machine.xcr0
<1>0. machine.max_leaf \in {0, 1, 7}
  BY X86Facts
<1>1. DOMAIN Rests = {"SSE41", "AVX", "AVX2", "AVX512F", "AVX512VL"}
  BY DEF Rests
<1>2. f \in Offered <=> /\ f \in DOMAIN Rests
                        /\ \A g \in Rests[f] \cup {f} : Has(g)
                        /\ Saves(Saved[f])
  BY DEF Offered
<1>3. /\ Has("SSE41") <=> machine.max_leaf >= 1 /\ "SSE41" \in machine.leaf1
      /\ Has("AVX") <=> machine.max_leaf >= 1 /\ "AVX" \in machine.leaf1
      /\ \A g \in {"AVX2", "AVX512F", "AVX512VL"} :
           Has(g) <=> machine.max_leaf >= 7 /\ g \in machine.leaf7
  BY DEF Has
<1>4. /\ Saves({})
      /\ Saves(Avx) <=> /\ machine.max_leaf >= 1 /\ "OSXSAVE" \in machine.leaf1
                        /\ Avx \subseteq machine.xcr0
      /\ Saves(Zmm) <=> /\ machine.max_leaf >= 1 /\ "OSXSAVE" \in machine.leaf1
                        /\ Zmm \subseteq machine.xcr0
  BY DEF Saves, Avx, Zmm
<1>5. Zmm \subseteq machine.xcr0 => Avx \subseteq machine.xcr0
  BY DEF Zmm
<1>6. CASE f \notin DOMAIN Rests
  BY <1>1, <1>2, <1>6
<1>7. CASE f = "SSE41"
  <2>1. Rests[f] = {} /\ Saved[f] = {}
    BY <1>7 DEF Rests, Saved
  <2>2. QED
    BY <1>1, <1>2, <1>3, <1>4, <1>7, <2>1
<1>8. CASE f = "AVX"
  <2>1. Rests[f] = {} /\ Saved[f] = Avx
    BY <1>8 DEF Rests, Saved
  <2>2. QED
    BY <1>1, <1>2, <1>3, <1>4, <1>8, <2>1
<1>9. CASE f = "AVX2"
  <2>1. Rests[f] = {"AVX"} /\ Saved[f] = Avx
    BY <1>9 DEF Rests, Saved
  <2>2. QED
    BY <1>0, <1>1, <1>2, <1>3, <1>4, <1>9, <2>1
<1>10. CASE f = "AVX512F"
  <2>1. Rests[f] = {"AVX"} /\ Saved[f] = Zmm
    BY <1>10 DEF Rests, Saved
  <2>2. QED
    BY <1>0, <1>1, <1>2, <1>3, <1>4, <1>5, <1>10, <2>1
<1>11. CASE f = "AVX512VL"
  <2>1. Rests[f] = {"AVX", "AVX512F"} /\ Saved[f] = Zmm
    BY <1>11 DEF Rests, Saved
  <2>2. QED
    BY <1>0, <1>1, <1>2, <1>3, <1>4, <1>5, <1>11, <2>1
<1>12. QED
  BY <1>1, <1>6, <1>7, <1>8, <1>9, <1>10, <1>11

LEMMA DetectInitInv == DetectInit => DetectInv
<1> SUFFICES ASSUME DetectInit PROVE DetectInv
  OBVIOUS
<1>1. CASE machine.arch = "x86"
  BY <1>1 DEF DetectInit, DetectInv, Learnt
<1>2. CASE machine.arch = "arm64"
  BY <1>2 DEF DetectInit, DetectInv, Learnt
<1>3. CASE machine.arch \notin {"x86", "arm64"}
  <2>1. step = "done" /\ Offered = {}
    BY <1>3 DEF DetectInit, Offered
  <2>2. QED
    BY <2>1 DEF DetectInit, DetectInv, Learnt
<1>4. QED
  BY <1>1, <1>2, <1>3

LEMMA DetectStepInv ==
  ASSUME DetectInv, [DetectNext]_detectVars
  PROVE  DetectInv'
<1>0. machine \in Machines /\ Learnt
  BY DEF DetectInv
<1>1. ASSUME machine' = machine
      PROVE  Offered' = Offered
  BY <1>1 DEF Offered, Has, Saves
<1>2. CASE Leaf0
  <2>1. machine.arch = "x86" /\ found = {} /\ ~os_avx
    BY <1>0, <1>2 DEF Leaf0, Learnt
  <2>2. CASE machine.max_leaf < 1
    <3>1. Offered = {}
      <4>1. machine.max_leaf \in {0, 1, 7}
        BY <1>0, <2>1, X86Facts
      <4>2. \A f : f \notin Offered
        BY <1>0, <2>1, <2>2, <4>1, OfferedX86
      <4>3. QED
        BY <4>2
    <3>2. QED
      BY <1>0, <1>1, <1>2, <2>1, <2>2, <3>1 DEF Leaf0, DetectInv, Learnt
  <2>3. CASE machine.max_leaf >= 1
    <3>1. machine.max_leaf \in {0, 1, 7}
      BY <1>0, <2>1, X86Facts
    <3>2. QED
      BY <1>0, <1>2, <2>1, <2>3, <3>1 DEF Leaf0, DetectInv, Learnt
  <2>4. QED
    BY <1>0, <2>1, <2>2, <2>3, X86Facts
<1>3. CASE Leaf1
  <2>1. machine.arch = "x86" /\ machine.max_leaf >= 1 /\ found = {} /\ ~os_avx
    BY <1>0, <1>3 DEF Leaf1, Learnt
  <2>2. machine' = machine /\ ~os_avx'
        /\ found' = machine.leaf1 \cap {"SSE41"}
    BY <1>3, <2>1 DEF Leaf1
  <2>3. CASE {"OSXSAVE", "AVX"} \subseteq machine.leaf1
    BY <1>0, <1>3, <2>1, <2>2, <2>3 DEF Leaf1, DetectInv, Learnt
  <2>4. CASE ~({"OSXSAVE", "AVX"} \subseteq machine.leaf1)
    <3>1. step' = "done"
      BY <1>3, <2>2, <2>4 DEF Leaf1, AfterAvx
    <3>2. Offered = machine.leaf1 \cap {"SSE41"}
      <4>1. \A f : f \in Offered <=> f \in machine.leaf1 \cap {"SSE41"}
        BY <1>0, <2>1, <2>4, OfferedX86
      <4>2. QED
        BY <4>1
    <3>3. QED
      BY <1>0, <1>1, <2>2, <3>1, <3>2 DEF DetectInv, Learnt
  <2>5. QED
    BY <2>3, <2>4
<1>4. CASE Xgetbv
  <2>1. /\ machine.arch = "x86" /\ machine.max_leaf >= 1
        /\ {"OSXSAVE", "AVX"} \subseteq machine.leaf1
        /\ found = machine.leaf1 \cap {"SSE41"}
    BY <1>0, <1>4 DEF Xgetbv, Learnt
  <2>2. /\ machine' = machine
        /\ os_avx' = (Avx \subseteq machine.xcr0)
        /\ found' = found \cup (IF os_avx' THEN {"AVX"} ELSE {})
        /\ step' = IF machine.max_leaf >= 7 /\ os_avx' THEN "leaf7" ELSE "done"
    BY <1>4, <2>1 DEF Xgetbv, AfterAvx
  <2>3. machine.max_leaf \in {0, 1, 7}
    BY <1>0, <2>1, X86Facts
  <2>4. CASE machine.max_leaf >= 7 /\ Avx \subseteq machine.xcr0
    BY <1>0, <2>1, <2>2, <2>4 DEF DetectInv, Learnt
  <2>5. CASE ~(machine.max_leaf >= 7 /\ Avx \subseteq machine.xcr0)
    <3>1. step' = "done"
      BY <2>2, <2>5
    <3>2. \A f : f \in Offered <=> f \in found'
      <4> TAKE f
      <4>1. CASE Avx \subseteq machine.xcr0
        BY <1>0, <2>1, <2>2, <2>5, <4>1, OfferedX86
      <4>2. CASE ~(Avx \subseteq machine.xcr0)
        BY <1>0, <2>1, <2>2, <4>2, OfferedX86
      <4>3. QED
        BY <4>1, <4>2
    <3>3. found' = Offered
      BY <3>2
    <3>4. QED
      BY <1>0, <1>1, <2>2, <3>1, <3>3 DEF DetectInv, Learnt
  <2>6. QED
    BY <2>4, <2>5
<1>5. CASE Leaf7
  <2>1. /\ machine.arch = "x86" /\ machine.max_leaf >= 7
        /\ {"OSXSAVE", "AVX"} \subseteq machine.leaf1
        /\ Avx \subseteq machine.xcr0
        /\ found = (machine.leaf1 \cap {"SSE41"}) \cup {"AVX"}
    BY <1>0, <1>5 DEF Leaf7, Learnt
  <2>2. /\ machine' = machine /\ step' = "done"
        /\ found' = found \cup (machine.leaf7 \cap {"AVX2"})
             \cup (IF OsAvx512 /\ "AVX512F" \in machine.leaf7
                   THEN machine.leaf7 \cap {"AVX512F", "AVX512VL"} ELSE {})
    BY <1>5 DEF Leaf7
  <2>3. machine.max_leaf >= 1
    BY <1>0, <2>1, X86Facts
  <2>4. \A f : f \in Offered <=> f \in found'
    <3> TAKE f
    <3>1. CASE OsAvx512 /\ "AVX512F" \in machine.leaf7
      BY <1>0, <2>1, <2>2, <2>3, <3>1, OfferedX86 DEF OsAvx512
    <3>2. CASE ~(OsAvx512 /\ "AVX512F" \in machine.leaf7)
      BY <1>0, <2>1, <2>2, <2>3, <3>2, OfferedX86 DEF OsAvx512
    <3>3. QED
      BY <3>1, <3>2
  <2>5. found' = Offered
    BY <2>4
  <2>6. QED
    BY <1>0, <1>1, <2>2, <2>5 DEF DetectInv, Learnt
<1>6. CASE Hwcap
  <2>1. machine.arch = "arm64" /\ found = {}
    BY <1>0, <1>6 DEF Hwcap, Learnt
  <2>2. found' = Offered
    BY <1>0, <1>6, <2>1, ArmFacts DEF Hwcap, Offered
  <2>3. QED
    BY <1>0, <1>1, <1>6, <2>2 DEF Hwcap, DetectInv, Learnt
<1>7. CASE UNCHANGED detectVars
  <2>1. Offered' = Offered
    BY <1>1, <1>7 DEF detectVars
  <2>2. QED
    BY <1>7, <2>1 DEF detectVars, DetectInv, Learnt
<1>8. QED
  BY <1>2, <1>3, <1>4, <1>5, <1>6, <1>7 DEF DetectNext

(* On every machine, detect_cpu_features_internal (blake4_dispatch.c) ends *)
(* without an invalid opcode and with exactly the features that can be     *)
(* used, whichever a hypervisor masks.                                     *)
THEOREM DetectionIsExact == DetectSpec => []DetectionExact
<1>1. DetectInv => DetectionExact
  BY DEF DetectInv, Learnt, DetectionExact
<1> QED  BY DetectInitInv, DetectStepInv, <1>1, PTL DEF DetectSpec

-----------------------------------------------------------------------------
(* The forms of the compression function.                                  *)

(* What is used of words: W is closed under the operations, and exchanging *)
(* halves rotates by 32.  No law of addition or exclusive-or is needed.    *)
WordLaws(W) ==
  /\ IVWords \in [0..7 -> W]
  /\ \A x, y \in W : Plus(x, y) \in W /\ Xor(x, y) \in W /\ Or(x, y) \in W
  /\ \A x \in W, n \in 0..64 : Shr(x, n) \in W /\ Shl(x, n) \in W
  /\ \A x \in W : SwapHalves(x) = RotR(x, 32)

Arguments(W) ==
  [cv : [0..7 -> W], m : [0..15 -> W], block_len : W, counter : W, flags : W]

RowsOf(W) == [0..3 -> [Lane -> W]]

-----------------------------------------------------------------------------
(* One lane: its four results are words, and it does not matter how a unit *)
(* rotates by 32 bits.                                                     *)
LaneAgrees(W, swap, a, b, c, d, mx, my) ==
  /\ MixLane(swap, a, b, c, d, mx, my) = MixLane(FALSE, a, b, c, d, mx, my)
  /\ \A j \in 1..4 : MixLane(FALSE, a, b, c, d, mx, my)[j] \in W

LEMMA MixLaneAgrees ==
  ASSUME NEW W, WordLaws(W),
         NEW a \in W, NEW b \in W, NEW c \in W, NEW d \in W,
         NEW mx \in W, NEW my \in W
  PROVE  /\ LaneAgrees(W, TRUE, a, b, c, d, mx, my)
         /\ LaneAgrees(W, FALSE, a, b, c, d, mx, my)
<1>1. ASSUME NEW x \in W, NEW n \in 0..64
      PROVE  RotR(x, n) \in W
  <2>1. n \in 0..64 /\ 64 - n \in 0..64
    BY <1>1
  <2>2. Shr(x, n) \in W /\ Shl(x, 64 - n) \in W
    BY <1>1, <2>1, Zenon DEF WordLaws
  <2> QED BY <2>2, Zenon DEF RotR, WordLaws
<1> DEFINE a1 == Plus(Plus(a, b), mx)
           d1 == RotR(Xor(d, a1), 32)
           c1 == Plus(c, d1)
           b1 == RotR(Xor(b, c1), 24)
           a2 == Plus(Plus(a1, b1), my)
           d2 == RotR(Xor(d1, a2), 16)
           c2 == Plus(c1, d2)
           b2 == RotR(Xor(b1, c2), 63)
<1>2. a1 \in W /\ Xor(d, a1) \in W
  BY DEF WordLaws
<1>3. d1 \in W /\ SwapHalves(Xor(d, a1)) = d1
  BY <1>1, <1>2 DEF WordLaws
<1> HIDE DEF a1
<1>4. c1 \in W
  BY <1>3 DEF WordLaws
<1> HIDE DEF d1
<1>5. b1 \in W
  <2>1. Xor(b, c1) \in W
    BY <1>4 DEF WordLaws
  <2> QED BY <2>1, <1>1
<1> HIDE DEF c1
<1>6. a2 \in W
  BY <1>2, <1>5 DEF WordLaws
<1> HIDE DEF b1
<1>7. d2 \in W
  <2>1. Xor(d1, a2) \in W
    BY <1>3, <1>6 DEF WordLaws
  <2> QED BY <2>1, <1>1
<1> HIDE DEF a2
<1>8. c2 \in W
  BY <1>4, <1>7 DEF WordLaws
<1> HIDE DEF d2
<1>9. b2 \in W
  <2>1. Xor(b1, c2) \in W
    BY <1>5, <1>8 DEF WordLaws
  <2> QED BY <2>1, <1>1
<1> HIDE DEF c2, b2
<1>10. MixLane(FALSE, a, b, c, d, mx, my) = <<a2, b2, c2, d2>>
  BY DEF MixLane, a1, d1, c1, b1, a2, d2, c2, b2
<1>11. MixLane(TRUE, a, b, c, d, mx, my) = <<a2, b2, c2, d2>>
  BY <1>3 DEF MixLane, a1, d1, c1, b1, a2, d2, c2, b2
<1>12. \A j \in 1..4 : <<a2, b2, c2, d2>>[j] \in W
  BY <1>6, <1>7, <1>8, <1>9
<1>13. LaneAgrees(W, FALSE, a, b, c, d, mx, my)
  BY <1>10, <1>12, Zenon DEF LaneAgrees
<1>14. LaneAgrees(W, TRUE, a, b, c, d, mx, my)
  BY <1>10, <1>11, <1>12, Zenon DEF LaneAgrees
<1> QED BY <1>13, <1>14, Zenon

AgreesOn(W, swap) ==
  \A a, b, c, d, mx, my \in W : LaneAgrees(W, swap, a, b, c, d, mx, my)

LEMMA BothAgree ==
  ASSUME NEW W, WordLaws(W)
  PROVE  AgreesOn(W, TRUE) /\ AgreesOn(W, FALSE)
<1>1. AgreesOn(W, TRUE)   BY MixLaneAgrees, Zenon DEF AgreesOn
<1>2. AgreesOn(W, FALSE)  BY MixLaneAgrees, Zenon DEF AgreesOn
<1> QED BY <1>1, <1>2, Zenon

-----------------------------------------------------------------------------
(* The half rounds of the portable form, word by word.  G leaves the words *)
(* it is not given alone, so the four of a half round do not interfere.    *)
Distinct(a, b, c, d) ==
  /\ a \in 0..15 /\ b \in 0..15 /\ c \in 0..15 /\ d \in 0..15
  /\ a # b /\ a # c /\ a # d /\ b # c /\ b # d /\ c # d

Replaces(u, v, a, b, c, d, w) ==
  /\ DOMAIN u = 0..15 /\ u = [k \in 0..15 |-> u[k]]
  /\ u[a] = w[1] /\ u[b] = w[2] /\ u[c] = w[3] /\ u[d] = w[4]
  /\ \A k \in 0..15 : k \notin {a, b, c, d} => u[k] = v[k]

LEMMA GReplaces ==
  ASSUME NEW v, DOMAIN v = 0..15, NEW mx, NEW my,
         NEW a, NEW b, NEW c, NEW d, Distinct(a, b, c, d)
  PROVE  Replaces(G(v, a, b, c, d, mx, my), v, a, b, c, d,
                  MixLane(FALSE, v[a], v[b], v[c], v[d], mx, my))
<1> DEFINE w == MixLane(FALSE, v[a], v[b], v[c], v[d], mx, my)
<1>1. G(v, a, b, c, d, mx, my)
        = [v EXCEPT ![a] = w[1], ![b] = w[2], ![c] = w[3], ![d] = w[4]]
  BY DEF G
<1> HIDE DEF w
<1>2. Replaces(G(v, a, b, c, d, mx, my), v, a, b, c, d, w)
  BY <1>1 DEF Replaces, Distinct
<1> QED BY <1>2 DEF w

(* Column l holds the words l, 4 + l, 8 + l and 12 + l.                    *)
ColumnLane(v, s, l) ==
  MixLane(FALSE, v[l], v[l + 4], v[l + 8], v[l + 12], s[2 * l], s[2 * l + 1])

LEMMA ColumnWords ==
  ASSUME NEW v, DOMAIN v = 0..15, NEW s
  PROVE  ColumnStep(v, s)
           = [k \in 0..15 |-> ColumnLane(v, s, k % 4)[k \div 4 + 1]]
<1> DEFINE v1 == G(v,  0, 4,  8, 12, s[0], s[1])
           v2 == G(v1, 1, 5,  9, 13, s[2], s[3])
           v3 == G(v2, 2, 6, 10, 14, s[4], s[5])
           v4 == G(v3, 3, 7, 11, 15, s[6], s[7])
           g0 == MixLane(FALSE, v[0], v[4], v[8], v[12], s[0], s[1])
           g1 == MixLane(FALSE, v[1], v[5], v[9], v[13], s[2], s[3])
           g2 == MixLane(FALSE, v[2], v[6], v[10], v[14], s[4], s[5])
           g3 == MixLane(FALSE, v[3], v[7], v[11], v[15], s[6], s[7])
<1>0. ColumnStep(v, s) = v4
  BY Zenon DEF ColumnStep
<1>1. Replaces(v1, v, 0, 4, 8, 12, g0)
  <2>1. Distinct(0, 4, 8, 12)  BY DEF Distinct
  <2> QED BY <2>1, GReplaces, Zenon
<1> HIDE DEF v1
<1>2. Replaces(v2, v1, 1, 5, 9, 13, g1)
  <2>1. Distinct(1, 5, 9, 13)  BY DEF Distinct
  <2>2. DOMAIN v1 = 0..15  BY <1>1 DEF Replaces
  <2>3. v1[1] = v[1] /\ v1[5] = v[5] /\ v1[9] = v[9] /\ v1[13] = v[13]
    BY <1>1 DEF Replaces
  <2>4. Replaces(v2, v1, 1, 5, 9, 13,
                 MixLane(FALSE, v1[1], v1[5], v1[9], v1[13], s[2], s[3]))
    BY <2>1, <2>2, GReplaces, Zenon
  <2> QED BY <2>3, <2>4, Zenon
<1> HIDE DEF v2
<1>3. Replaces(v3, v2, 2, 6, 10, 14, g2)
  <2>1. Distinct(2, 6, 10, 14)  BY DEF Distinct
  <2>2. DOMAIN v2 = 0..15  BY <1>2 DEF Replaces
  <2>3. v2[2] = v[2] /\ v2[6] = v[6] /\ v2[10] = v[10] /\ v2[14] = v[14]
    BY <1>1, <1>2 DEF Replaces
  <2>4. Replaces(v3, v2, 2, 6, 10, 14,
                 MixLane(FALSE, v2[2], v2[6], v2[10], v2[14], s[4], s[5]))
    BY <2>1, <2>2, GReplaces, Zenon
  <2> QED BY <2>3, <2>4, Zenon
<1> HIDE DEF v3
<1>4. Replaces(v4, v3, 3, 7, 11, 15, g3)
  <2>1. Distinct(3, 7, 11, 15)  BY DEF Distinct
  <2>2. DOMAIN v3 = 0..15  BY <1>3 DEF Replaces
  <2>3. v3[3] = v[3] /\ v3[7] = v[7] /\ v3[11] = v[11] /\ v3[15] = v[15]
    BY <1>1, <1>2, <1>3 DEF Replaces
  <2>4. Replaces(v4, v3, 3, 7, 11, 15,
                 MixLane(FALSE, v3[3], v3[7], v3[11], v3[15], s[6], s[7]))
    BY <2>1, <2>2, GReplaces, Zenon
  <2> QED BY <2>3, <2>4, Zenon
<1> HIDE DEF v4
<1>5. /\ ColumnLane(v, s, 0) = g0 /\ ColumnLane(v, s, 1) = g1
      /\ ColumnLane(v, s, 2) = g2 /\ ColumnLane(v, s, 3) = g3
  BY DEF ColumnLane
<1> HIDE DEF g0, g1, g2, g3
<1>6. /\ v4[0] = g0[1] /\ v4[4] = g0[2] /\ v4[8] = g0[3] /\ v4[12] = g0[4]
      /\ v4[1] = g1[1] /\ v4[5] = g1[2] /\ v4[9] = g1[3] /\ v4[13] = g1[4]
      /\ v4[2] = g2[1] /\ v4[6] = g2[2] /\ v4[10] = g2[3] /\ v4[14] = g2[4]
      /\ v4[3] = g3[1] /\ v4[7] = g3[2] /\ v4[11] = g3[3] /\ v4[15] = g3[4]
  BY <1>1, <1>2, <1>3, <1>4 DEF Replaces
<1>7. ASSUME NEW k \in 0..15
      PROVE  v4[k] = ColumnLane(v, s, k % 4)[k \div 4 + 1]
  BY <1>5, <1>6
<1>8. v4 = [k \in 0..15 |-> v4[k]]
  BY <1>4, Zenon DEF Replaces
<1> QED BY <1>0, <1>7, <1>8

(* Diagonal l holds word 4 r + ((l + r) % 4) of each row r.                  *)
DiagonalLane(v, s, l) ==
  MixLane(FALSE, v[l], v[4 + ((l + 1) % 4)], v[8 + ((l + 2) % 4)],
          v[12 + ((l + 3) % 4)], s[8 + 2 * l], s[9 + 2 * l])

LEMMA DiagonalWords ==
  ASSUME NEW v, DOMAIN v = 0..15, NEW s
  PROVE  DiagonalStep(v, s)
           = [k \in 0..15 |->
                DiagonalLane(v, s, ((k % 4) + 4 - (k \div 4)) % 4)[k \div 4 + 1]]
<1> DEFINE v1 == G(v,  0, 5, 10, 15, s[8],  s[9])
           v2 == G(v1, 1, 6, 11, 12, s[10], s[11])
           v3 == G(v2, 2, 7,  8, 13, s[12], s[13])
           v4 == G(v3, 3, 4,  9, 14, s[14], s[15])
           g0 == MixLane(FALSE, v[0], v[5], v[10], v[15], s[8], s[9])
           g1 == MixLane(FALSE, v[1], v[6], v[11], v[12], s[10], s[11])
           g2 == MixLane(FALSE, v[2], v[7], v[8], v[13], s[12], s[13])
           g3 == MixLane(FALSE, v[3], v[4], v[9], v[14], s[14], s[15])
<1>0. DiagonalStep(v, s) = v4
  BY Zenon DEF DiagonalStep
<1>1. Replaces(v1, v, 0, 5, 10, 15, g0)
  <2>1. Distinct(0, 5, 10, 15)  BY DEF Distinct
  <2> QED BY <2>1, GReplaces, Zenon
<1> HIDE DEF v1
<1>2. Replaces(v2, v1, 1, 6, 11, 12, g1)
  <2>1. Distinct(1, 6, 11, 12)  BY DEF Distinct
  <2>2. DOMAIN v1 = 0..15  BY <1>1 DEF Replaces
  <2>3. v1[1] = v[1] /\ v1[6] = v[6] /\ v1[11] = v[11] /\ v1[12] = v[12]
    BY <1>1 DEF Replaces
  <2>4. Replaces(v2, v1, 1, 6, 11, 12,
                 MixLane(FALSE, v1[1], v1[6], v1[11], v1[12], s[10], s[11]))
    BY <2>1, <2>2, GReplaces, Zenon
  <2> QED BY <2>3, <2>4, Zenon
<1> HIDE DEF v2
<1>3. Replaces(v3, v2, 2, 7, 8, 13, g2)
  <2>1. Distinct(2, 7, 8, 13)  BY DEF Distinct
  <2>2. DOMAIN v2 = 0..15  BY <1>2 DEF Replaces
  <2>3. v2[2] = v[2] /\ v2[7] = v[7] /\ v2[8] = v[8] /\ v2[13] = v[13]
    BY <1>1, <1>2 DEF Replaces
  <2>4. Replaces(v3, v2, 2, 7, 8, 13,
                 MixLane(FALSE, v2[2], v2[7], v2[8], v2[13], s[12], s[13]))
    BY <2>1, <2>2, GReplaces, Zenon
  <2> QED BY <2>3, <2>4, Zenon
<1> HIDE DEF v3
<1>4. Replaces(v4, v3, 3, 4, 9, 14, g3)
  <2>1. Distinct(3, 4, 9, 14)  BY DEF Distinct
  <2>2. DOMAIN v3 = 0..15  BY <1>3 DEF Replaces
  <2>3. v3[3] = v[3] /\ v3[4] = v[4] /\ v3[9] = v[9] /\ v3[14] = v[14]
    BY <1>1, <1>2, <1>3 DEF Replaces
  <2>4. Replaces(v4, v3, 3, 4, 9, 14,
                 MixLane(FALSE, v3[3], v3[4], v3[9], v3[14], s[14], s[15]))
    BY <2>1, <2>2, GReplaces, Zenon
  <2> QED BY <2>3, <2>4, Zenon
<1> HIDE DEF v4
<1>5. /\ DiagonalLane(v, s, 0) = g0 /\ DiagonalLane(v, s, 1) = g1
      /\ DiagonalLane(v, s, 2) = g2 /\ DiagonalLane(v, s, 3) = g3
  <2>1. DiagonalLane(v, s, 0) = g0
    <3>1. /\ 4 + ((0 + 1) % 4) = 5 /\ 8 + ((0 + 2) % 4) = 10
          /\ 12 + ((0 + 3) % 4) = 15
          /\ 8 + 2 * 0 = 8 /\ 9 + 2 * 0 = 9
      OBVIOUS
    <3> QED BY <3>1, Zenon DEF DiagonalLane
  <2>2. DiagonalLane(v, s, 1) = g1
    <3>1. /\ 4 + ((1 + 1) % 4) = 6 /\ 8 + ((1 + 2) % 4) = 11
          /\ 12 + ((1 + 3) % 4) = 12
          /\ 8 + 2 * 1 = 10 /\ 9 + 2 * 1 = 11
      OBVIOUS
    <3> QED BY <3>1, Zenon DEF DiagonalLane
  <2>3. DiagonalLane(v, s, 2) = g2
    <3>1. /\ 4 + ((2 + 1) % 4) = 7 /\ 8 + ((2 + 2) % 4) = 8
          /\ 12 + ((2 + 3) % 4) = 13
          /\ 8 + 2 * 2 = 12 /\ 9 + 2 * 2 = 13
      OBVIOUS
    <3> QED BY <3>1, Zenon DEF DiagonalLane
  <2>4. DiagonalLane(v, s, 3) = g3
    <3>1. /\ 4 + ((3 + 1) % 4) = 4 /\ 8 + ((3 + 2) % 4) = 9
          /\ 12 + ((3 + 3) % 4) = 14
          /\ 8 + 2 * 3 = 14 /\ 9 + 2 * 3 = 15
      OBVIOUS
    <3> QED BY <3>1, Zenon DEF DiagonalLane
  <2> QED BY <2>1, <2>2, <2>3, <2>4
<1> HIDE DEF g0, g1, g2, g3
<1>6. /\ v4[0] = g0[1] /\ v4[5] = g0[2] /\ v4[10] = g0[3] /\ v4[15] = g0[4]
      /\ v4[1] = g1[1] /\ v4[6] = g1[2] /\ v4[11] = g1[3] /\ v4[12] = g1[4]
      /\ v4[2] = g2[1] /\ v4[7] = g2[2] /\ v4[8] = g2[3] /\ v4[13] = g2[4]
      /\ v4[3] = g3[1] /\ v4[4] = g3[2] /\ v4[9] = g3[3] /\ v4[14] = g3[4]
  BY <1>1, <1>2, <1>3, <1>4 DEF Replaces
<1>7. ASSUME NEW k \in 0..15
      PROVE  v4[k]
               = DiagonalLane(v, s, ((k % 4) + 4 - (k \div 4)) % 4)[k \div 4 + 1]
  BY <1>5, <1>6
<1>8. v4 = [k \in 0..15 |-> v4[k]]
  BY <1>4, Zenon DEF Replaces
<1> QED BY <1>0, <1>7, <1>8

-----------------------------------------------------------------------------
(* The vector units.  Quarters are the four quarter rounds of the columns  *)
(* that stand in the lanes, with the message words from s[k] on.           *)
Quarter(rows, s, k, l) ==
  MixLane(FALSE, rows[0][l], rows[1][l], rows[2][l], rows[3][l],
          s[k + 2 * l], s[k + 2 * l + 1])

Quarters(rows, s, k) ==
  [r \in 0..3 |-> [l \in Lane |-> Quarter(rows, s, k, l)[r + 1]]]

LEMMA QuartersType ==
  ASSUME NEW W, WordLaws(W), NEW rows \in RowsOf(W), NEW s \in [0..15 -> W],
         NEW k \in {0, 8}
  PROVE  Quarters(rows, s, k) \in RowsOf(W)
<1>1. ASSUME NEW r \in 0..3, NEW l \in Lane
      PROVE  Quarter(rows, s, k, l)[r + 1] \in W
  <2>1. /\ rows[0][l] \in W /\ rows[1][l] \in W
        /\ rows[2][l] \in W /\ rows[3][l] \in W
    BY <1>1 DEF RowsOf
  <2>2. s[k + 2 * l] \in W /\ s[k + 2 * l + 1] \in W
    <3>1. k + 2 * l \in 0..15 /\ k + 2 * l + 1 \in 0..15
      BY <1>1 DEF Lane
    <3> QED BY <3>1
  <2>3. LaneAgrees(W, FALSE, rows[0][l], rows[1][l], rows[2][l], rows[3][l],
                   s[k + 2 * l], s[k + 2 * l + 1])
    BY <2>1, <2>2, MixLaneAgrees, Zenon
  <2>4. r + 1 \in 1..4
    BY <1>1
  <2> QED BY <2>3, <2>4, Zenon DEF Quarter, LaneAgrees
<1> QED BY <1>1, Zenon DEF Quarters, RowsOf

(* A vector G does those of its lanes, however it rotates by 32.           *)
Mixed(lanes, rows, s, k) ==
  [r \in 0..3 |-> [l \in Lane |->
     IF l \in lanes THEN Quarter(rows, s, k, l)[r + 1] ELSE rows[r][l]]]

DoesQuarters(swap, lanes, rows, s, k) ==
  LaneWise(swap, lanes, rows, MessageX(s, k), MessageY(s, k))
    = Mixed(lanes, rows, s, k)

LEMMA LaneWiseQuarters ==
  ASSUME NEW W, WordLaws(W), NEW rows \in RowsOf(W), NEW s \in [0..15 -> W],
         NEW k \in {0, 8}, NEW swap, AgreesOn(W, swap),
         NEW lanes \in SUBSET Lane
  PROVE  DoesQuarters(swap, lanes, rows, s, k)
<1> DEFINE mx == MessageX(s, k)
           my == MessageY(s, k)
           g(l) == MixLane(swap, rows[0][l], rows[1][l], rows[2][l],
                           rows[3][l], mx[l], my[l])
           mixed == <<g(0), g(1), g(2), g(3)>>
<1>1. ASSUME NEW l \in Lane
      PROVE  mx[l] = s[k + 2 * l] /\ my[l] = s[k + 2 * l + 1]
  BY DEF MessageX, MessageY, SetEpi64, Lane
<1>2. ASSUME NEW l \in Lane
      PROVE  g(l) = Quarter(rows, s, k, l)
  <2>1. /\ rows[0][l] \in W /\ rows[1][l] \in W
        /\ rows[2][l] \in W /\ rows[3][l] \in W
    BY DEF RowsOf
  <2>2. s[k + 2 * l] \in W /\ s[k + 2 * l + 1] \in W
    <3>1. k + 2 * l \in 0..15 /\ k + 2 * l + 1 \in 0..15
      BY DEF Lane
    <3> QED BY <3>1
  <2>3. g(l) = MixLane(swap, rows[0][l], rows[1][l], rows[2][l], rows[3][l],
                       s[k + 2 * l], s[k + 2 * l + 1])
    BY <1>1, Zenon
  <2>4. MixLane(swap, rows[0][l], rows[1][l], rows[2][l], rows[3][l],
                s[k + 2 * l], s[k + 2 * l + 1]) = Quarter(rows, s, k, l)
    <3>1. LaneAgrees(W, swap, rows[0][l], rows[1][l], rows[2][l], rows[3][l],
                     s[k + 2 * l], s[k + 2 * l + 1])
      BY <2>1, <2>2, Zenon DEF AgreesOn
    <3> QED BY <3>1, Zenon DEF Quarter, LaneAgrees
  <2> QED BY <2>3, <2>4, Zenon
<1>3. LaneWise(swap, lanes, rows, mx, my)
        = [r \in 0..3 |-> [l \in Lane |->
             IF l \in lanes THEN mixed[l + 1][r + 1] ELSE rows[r][l]]]
  BY Zenon DEF LaneWise
<1> HIDE DEF g, mx, my
<1>4. ASSUME NEW l \in Lane
      PROVE  mixed[l + 1] = Quarter(rows, s, k, l)
  <2>1. mixed[l + 1] = g(l)
    BY DEF Lane
  <2> QED BY <2>1, <1>2
<1> HIDE DEF mixed
<1>5. LaneWise(swap, lanes, rows, mx, my) = Mixed(lanes, rows, s, k)
  BY <1>3, <1>4 DEF Mixed
<1> QED BY <1>5, Zenon DEF mx, my, DoesQuarters

LEMMA VectorGQuarters ==
  ASSUME NEW W, WordLaws(W), NEW rows \in RowsOf(W), NEW s \in [0..15 -> W],
         NEW k \in {0, 8}, NEW form \in X86 \cup Arm
  PROVE  VectorG(form, rows, s, k) = Quarters(rows, s, k)
<1> DEFINE mx == MessageX(s, k)
           my == MessageY(s, k)
<1>1. ASSUME NEW swap, AgreesOn(W, swap)
      PROVE  LaneWise(swap, Lane, rows, mx, my) = Quarters(rows, s, k)
  <2>1. Lane \in SUBSET Lane
    OBVIOUS
  <2>2. LaneWise(swap, Lane, rows, mx, my) = Mixed(Lane, rows, s, k)
    <3>1. DoesQuarters(swap, Lane, rows, s, k)
      BY <1>1, <2>1, LaneWiseQuarters, Zenon
    <3> QED BY <3>1, Zenon DEF DoesQuarters
  <2>3. Mixed(Lane, rows, s, k) = Quarters(rows, s, k)
    BY DEF Quarters, Mixed
  <2> QED BY <2>2, <2>3, Zenon
<1>2. ASSUME NEW swap, AgreesOn(W, swap)
      PROVE  LaneWise(swap, High, LaneWise(swap, Low, rows, mx, my), mx, my)
               = Quarters(rows, s, k)
  <2> DEFINE half == LaneWise(swap, Low, rows, mx, my)
  <2>0. Low \in SUBSET Lane
    BY DEF Low, Lane
  <2>a. High \in SUBSET Lane
    BY DEF High, Lane
  <2>1. Lane = Low \cup High /\ Low \cap High = {}
    BY DEF Low, High, Lane
  <2>2. half = Mixed(Low, rows, s, k)
    <3>1. DoesQuarters(swap, Low, rows, s, k)
      BY <1>2, <2>0, LaneWiseQuarters, Zenon
    <3> QED BY <3>1, Zenon DEF DoesQuarters
  <2> HIDE DEF half
  <2>3. \A r \in 0..3, l \in Lane : Quarter(rows, s, k, l)[r + 1] \in W
    BY QuartersType DEF Quarters, RowsOf
  <2>4. half \in RowsOf(W)
    BY <2>2, <2>3 DEF RowsOf, Mixed
  <2>5. LaneWise(swap, High, half, mx, my)
          = Mixed(High, half, s, k)
    <3>1. DoesQuarters(swap, High, half, s, k)
      BY <1>2, <2>a, <2>4, LaneWiseQuarters, Zenon
    <3> QED BY <3>1, Zenon DEF DoesQuarters
  <2>6. ASSUME NEW l \in High
        PROVE  Quarter(half, s, k, l) = Quarter(rows, s, k, l)
    <3>1. l \in Lane /\ l \notin Low
      BY <2>1
    <3>2. /\ half[0][l] = rows[0][l] /\ half[1][l] = rows[1][l]
          /\ half[2][l] = rows[2][l] /\ half[3][l] = rows[3][l]
      BY <2>2, <3>1 DEF Mixed
    <3> QED BY <3>2, Zenon DEF Quarter
  <2>7. ASSUME NEW r \in 0..3, NEW l \in Lane
        PROVE  (IF l \in High THEN Quarter(half, s, k, l)[r + 1]
                              ELSE half[r][l]) = Quarter(rows, s, k, l)[r + 1]
    <3>1. CASE l \in High  BY <3>1, <2>6, Zenon
    <3>2. CASE l \notin High
      <4>1. l \in Low  BY <3>2, <2>1
      <4>2. half[r][l] = Quarter(rows, s, k, l)[r + 1]
        BY <4>1, <2>2 DEF Mixed
      <4> QED BY <3>2, <4>2, Zenon
    <3> QED BY <3>1, <3>2
  <2>8. Mixed(High, half, s, k) = Quarters(rows, s, k)
    BY <2>7 DEF Quarters, Mixed
  <2> QED BY <2>5, <2>8, Zenon DEF half
<1>3. CASE form \in {"avx2", "avx2_asm"}
  <2>1. VectorG(form, rows, s, k) = LaneWise(TRUE, Lane, rows, mx, my)
    BY <1>3 DEF VectorG, G_AVX2
  <2> QED BY <2>1, <1>1, BothAgree, Zenon
<1>4. CASE form \in {"avx512", "avx512_asm"}
  <2>1. VectorG(form, rows, s, k) = LaneWise(FALSE, Lane, rows, mx, my)
    BY <1>4 DEF VectorG, G_AVX512
  <2> QED BY <2>1, <1>1, BothAgree, Zenon
<1>5. CASE form = "neon"
  <2>1. VectorG(form, rows, s, k)
          = LaneWise(TRUE, High, LaneWise(TRUE, Low, rows, mx, my), mx, my)
    BY <1>5 DEF VectorG, G_NEON
  <2> QED BY <2>1, <1>2, BothAgree, Zenon
<1>6. CASE form = "neon_asm"
  <2>1. VectorG(form, rows, s, k)
          = LaneWise(FALSE, High, LaneWise(FALSE, Low, rows, mx, my), mx, my)
    BY <1>6 DEF VectorG, G_NEONAsm
  <2> QED BY <2>1, <1>2, BothAgree, Zenon
<1> QED BY <1>3, <1>4, <1>5, <1>6 DEF X86, Arm

(* Rotated rows: column l of Rotated holds diagonal l, and RotatedBack is  *)
(* what InOrder reads.                                                     *)
Rotated(rows)     == [r \in 0..3 |-> [l \in Lane |-> rows[r][(l + r) % 4]]]
RotatedBack(rows) == [r \in 0..3 |-> [l \in Lane |-> rows[r][(l + 4 - r) % 4]]]

LEMMA RotateThere ==
  ASSUME NEW W, NEW rows \in RowsOf(W)
  PROVE  /\ Rotated(rows) \in RowsOf(W) /\ RotatedBack(rows) \in RowsOf(W)
         /\ RotatedBack(Rotated(rows)) = rows
<1>1. \A r \in 0..3, l \in Lane : (l + r) % 4 \in Lane /\ (l + 4 - r) % 4 \in Lane
  BY DEF Lane
<1>2. Rotated(rows) \in RowsOf(W) /\ RotatedBack(rows) \in RowsOf(W)
  BY <1>1 DEF Rotated, RotatedBack, RowsOf
<1>3. ASSUME NEW r \in 0..3, NEW l \in Lane
      PROVE  RotatedBack(Rotated(rows))[r][l] = rows[r][l]
  <2>1. (((l + 4 - r) % 4) + r) % 4 = l
    BY DEF Lane
  <2> QED BY <1>1, <2>1 DEF Rotated, RotatedBack
<1>4. \A x, y \in RowsOf(W) :
        (\A r \in 0..3, l \in Lane : x[r][l] = y[r][l]) => x = y
  <2> SUFFICES ASSUME NEW x \in RowsOf(W), NEW y \in RowsOf(W),
                      \A r \in 0..3, l \in Lane : x[r][l] = y[r][l]
               PROVE  x = y
    OBVIOUS
  <2>1. ASSUME NEW r \in 0..3
        PROVE  x[r] = y[r]
    <3>1. x[r] \in [Lane -> W] /\ y[r] \in [Lane -> W]
      BY DEF RowsOf
    <3> QED BY <3>1
  <2> QED BY <2>1 DEF RowsOf
<1>5. RotatedBack(Rotated(rows)) \in RowsOf(W)
  BY <1>1 DEF Rotated, RotatedBack, RowsOf
<1> QED BY <1>2, <1>3, <1>4, <1>5, Zenon

LEMMA RotatedRows ==
  ASSUME NEW W, NEW rows \in RowsOf(W)
  PROVE  /\ Rotated(rows)
              = Rows(rows[0], [l \in Lane |-> rows[1][(l + 1) % 4]],
                     [l \in Lane |-> rows[2][(l + 2) % 4]],
                     [l \in Lane |-> rows[3][(l + 3) % 4]])
         /\ RotatedBack(rows)
              = Rows(rows[0], [l \in Lane |-> rows[1][(l + 3) % 4]],
                     [l \in Lane |-> rows[2][(l + 2) % 4]],
                     [l \in Lane |-> rows[3][(l + 1) % 4]])
<1>1. /\ rows[0] = [l \in Lane |-> rows[0][(l + 0) % 4]]
      /\ rows[0] = [l \in Lane |-> rows[0][(l + 4 - 0) % 4]]
  <2>1. rows[0] \in [Lane -> W]
    BY DEF RowsOf
  <2>2. \A l \in Lane : (l + 0) % 4 = l /\ (l + 4 - 0) % 4 = l
    BY DEF Lane
  <2> QED BY <2>1, <2>2
<1>2. \A l \in Lane : /\ l + 4 - 1 = l + 3 /\ l + 4 - 2 = l + 2
                       /\ l + 4 - 3 = l + 1
  BY DEF Lane
<1>3. \A r \in 0..3 : r = 0 \/ r = 1 \/ r = 2 \/ r = 3
  OBVIOUS
<1>4. ASSUME NEW r \in 0..3
      PROVE  [l \in Lane |-> rows[r][(l + r) % 4]]
               = CASE r = 0 -> rows[0]
                   [] r = 1 -> [l \in Lane |-> rows[1][(l + 1) % 4]]
                   [] r = 2 -> [l \in Lane |-> rows[2][(l + 2) % 4]]
                   [] r = 3 -> [l \in Lane |-> rows[3][(l + 3) % 4]]
  BY <1>1, <1>3
<1>5. ASSUME NEW r \in 0..3
      PROVE  [l \in Lane |-> rows[r][(l + 4 - r) % 4]]
               = CASE r = 0 -> rows[0]
                   [] r = 1 -> [l \in Lane |-> rows[1][(l + 3) % 4]]
                   [] r = 2 -> [l \in Lane |-> rows[2][(l + 2) % 4]]
                   [] r = 3 -> [l \in Lane |-> rows[3][(l + 1) % 4]]
  BY <1>1, <1>2, <1>3
<1> QED BY <1>4, <1>5, Zenon DEF Rotated, RotatedBack, Rows

(* Whichever instructions are used, the rotations are these two.           *)
LEMMA ShufflesRotate ==
  ASSUME NEW W, NEW rows \in RowsOf(W), NEW form \in X86
  PROVE  /\ PermuteRows(rows, Selectors(form).shuffle) = Rotated(rows)
         /\ PermuteRows(rows, Selectors(form).unshuffle) = RotatedBack(rows)
<1>1. /\ Selectors(form).shuffle = <<57, 78, 147>>
      /\ Selectors(form).unshuffle = <<147, 78, 57>>
  BY DEF Selectors, X86, Avx2Selectors, Avx512Selectors, Avx2AsmSelectors,
         Avx512AsmSelectors, MM_SHUFFLE
<1>2. ASSUME NEW x
      PROVE  /\ Permute4x64(x, 57)  = [l \in Lane |-> x[(l + 1) % 4]]
             /\ Permute4x64(x, 78)  = [l \in Lane |-> x[(l + 2) % 4]]
             /\ Permute4x64(x, 147) = [l \in Lane |-> x[(l + 3) % 4]]
  BY DEF Permute4x64, Lane
<1>3. PermuteRows(rows, <<57, 78, 147>>)
        = Rows(rows[0], Permute4x64(rows[1], 57), Permute4x64(rows[2], 78),
               Permute4x64(rows[3], 147))
  BY DEF PermuteRows
<1>4. PermuteRows(rows, <<147, 78, 57>>)
        = Rows(rows[0], Permute4x64(rows[1], 147), Permute4x64(rows[2], 78),
               Permute4x64(rows[3], 57))
  BY DEF PermuteRows
<1>5. PermuteRows(rows, <<57, 78, 147>>) = Rotated(rows)
  <2>1. Rotated(rows)
          = Rows(rows[0], [l \in Lane |-> rows[1][(l + 1) % 4]],
                 [l \in Lane |-> rows[2][(l + 2) % 4]],
                 [l \in Lane |-> rows[3][(l + 3) % 4]])
    BY RotatedRows
  <2> QED BY <1>2, <1>3, <2>1, Zenon
<1>6. PermuteRows(rows, <<147, 78, 57>>) = RotatedBack(rows)
  <2>1. RotatedBack(rows)
          = Rows(rows[0], [l \in Lane |-> rows[1][(l + 3) % 4]],
                 [l \in Lane |-> rows[2][(l + 2) % 4]],
                 [l \in Lane |-> rows[3][(l + 1) % 4]])
    BY RotatedRows
  <2> QED BY <1>2, <1>4, <2>1, Zenon
<1> QED BY <1>1, <1>5, <1>6, Zenon

LEMMA NeonRotates ==
  ASSUME NEW W, NEW rows \in RowsOf(W)
  PROVE  /\ NeonShuffle(rows) = Rotated(rows)
         /\ NeonUnshuffle(rows) = RotatedBack(rows)
<1>1. ASSUME NEW x
      PROVE  /\ Halves(x[1], x[2], x[3], x[0])
                   = [l \in Lane |-> x[(l + 1) % 4]]
             /\ Halves(x[2], x[3], x[0], x[1])
                   = [l \in Lane |-> x[(l + 2) % 4]]
             /\ Halves(x[3], x[0], x[1], x[2])
                   = [l \in Lane |-> x[(l + 3) % 4]]
  BY DEF Halves, SetEpi64, Lane
<1>2. NeonShuffle(rows) = Rotated(rows)
  <2>1. Rotated(rows)
          = Rows(rows[0], [l \in Lane |-> rows[1][(l + 1) % 4]],
                 [l \in Lane |-> rows[2][(l + 2) % 4]],
                 [l \in Lane |-> rows[3][(l + 3) % 4]])
    BY RotatedRows
  <2> QED BY <1>1, <2>1, Zenon DEF NeonShuffle
<1>3. NeonUnshuffle(rows) = RotatedBack(rows)
  <2>1. RotatedBack(rows)
          = Rows(rows[0], [l \in Lane |-> rows[1][(l + 3) % 4]],
                 [l \in Lane |-> rows[2][(l + 2) % 4]],
                 [l \in Lane |-> rows[3][(l + 1) % 4]])
    BY RotatedRows
  <2> QED BY <1>1, <2>1, Zenon DEF NeonUnshuffle
<1> QED BY <1>2, <1>3

-----------------------------------------------------------------------------
(* Rows and the 16 words of the portable state.                            *)
LEMMA FlatWords ==
  ASSUME NEW W, NEW rows \in RowsOf(W)
  PROVE  /\ Flat(rows) \in [0..15 -> W]
         /\ \A r \in 0..3, l \in Lane : Flat(rows)[4 * r + l] = rows[r][l]
<1>1. \A k \in 0..15 : k \div 4 \in 0..3 /\ k % 4 \in Lane
  BY DEF Lane
<1>2. Flat(rows) \in [0..15 -> W]
  BY <1>1 DEF Flat, RowsOf
<1>3. ASSUME NEW r \in 0..3, NEW l \in Lane
      PROVE  Flat(rows)[4 * r + l] = rows[r][l]
  <2>1. /\ 4 * r + l \in 0..15
        /\ (4 * r + l) \div 4 = r /\ (4 * r + l) % 4 = l
    BY DEF Lane
  <2> QED BY <2>1 DEF Flat
<1> QED BY <1>2, <1>3

LEMMA UnflatWords ==
  ASSUME NEW W, NEW v \in [0..15 -> W]
  PROVE  Unflat(v) \in RowsOf(W) /\ Flat(Unflat(v)) = v
<1>1. \A r \in 0..3, l \in Lane : 4 * r + l \in 0..15
  BY DEF Lane
<1>2. Unflat(v) \in RowsOf(W)
  BY <1>1 DEF Unflat, RowsOf
<1>3. ASSUME NEW k \in 0..15
      PROVE  Unflat(v)[k \div 4][k % 4] = v[k]
  <2>1. k \div 4 \in 0..3 /\ k % 4 \in Lane /\ 4 * (k \div 4) + (k % 4) = k
    BY DEF Lane
  <2> QED BY <2>1 DEF Unflat
<1>4. Flat(Unflat(v)) = v
  BY <1>3 DEF Flat
<1> QED BY <1>2, <1>4

LEMMA ScheduleWords ==
  ASSUME NEW W, NEW m \in [0..15 -> W], NEW r \in 0..9
  PROVE  Schedule(m, r) \in [0..15 -> W]
<1>1. \A j \in 0..15 : SIGMA[r + 1][j + 1] \in 0..15
  <2>1. SIGMA[r + 1] \in [1..16 -> 0..15]
    BY DEF SIGMA
  <2> QED BY <2>1
<1> QED BY <1>1 DEF Schedule

(* The column half round on rows.                                          *)
LEMMA ColumnsAgree ==
  ASSUME NEW W, WordLaws(W), NEW rows \in RowsOf(W), NEW s \in [0..15 -> W]
  PROVE  Flat(Quarters(rows, s, 0)) = ColumnStep(Flat(rows), s)
<1> DEFINE v == Flat(rows)
<1>1. DOMAIN v = 0..15
  BY FlatWords
<1>2. ASSUME NEW l \in Lane
      PROVE  Quarter(rows, s, 0, l) = ColumnLane(v, s, l)
  <2>1. v[l] = rows[0][l]
    BY FlatWords, 4 * 0 + l = l DEF Lane
  <2>2. v[l + 4] = rows[1][l]
    BY FlatWords, 4 * 1 + l = l + 4 DEF Lane
  <2>3. v[l + 8] = rows[2][l]
    BY FlatWords, 4 * 2 + l = l + 8 DEF Lane
  <2>4. v[l + 12] = rows[3][l]
    BY FlatWords, 4 * 3 + l = l + 12 DEF Lane
  <2>5. 0 + 2 * l = 2 * l /\ 0 + 2 * l + 1 = 2 * l + 1
    BY DEF Lane
  <2> HIDE DEF v
  <2> QED BY <2>1, <2>2, <2>3, <2>4, <2>5, Zenon DEF Quarter, ColumnLane
<1>3. ColumnStep(v, s)
        = [k \in 0..15 |-> ColumnLane(v, s, k % 4)[k \div 4 + 1]]
  BY <1>1, ColumnWords, Zenon
<1>4. ASSUME NEW k \in 0..15
      PROVE  Quarters(rows, s, 0)[k \div 4][k % 4]
               = ColumnLane(v, s, k % 4)[k \div 4 + 1]
  <2>1. k \div 4 \in 0..3 /\ k % 4 \in Lane
    BY DEF Lane
  <2> HIDE DEF v
  <2> QED BY <1>2, <2>1 DEF Quarters
<1> HIDE DEF v
<1>5. Flat(Quarters(rows, s, 0)) = ColumnStep(v, s)
  BY <1>3, <1>4, Zenon DEF Flat
<1> QED BY <1>5 DEF v

(* The diagonal half round on rotated rows.                                *)
LEMMA DiagonalsAgree ==
  ASSUME NEW W, WordLaws(W), NEW rows \in RowsOf(W), NEW s \in [0..15 -> W]
  PROVE  Flat(RotatedBack(Quarters(rows, s, 8)))
           = DiagonalStep(Flat(RotatedBack(rows)), s)
<1> DEFINE back == RotatedBack(rows)
           v == Flat(back)
<1>0. back \in RowsOf(W)
  BY RotateThere
<1>1. DOMAIN v = 0..15
  BY <1>0, FlatWords
<1>2. ASSUME NEW l \in Lane
      PROVE  Quarter(rows, s, 8, l) = DiagonalLane(v, s, l)
  <2>1. ASSUME NEW r \in 0..3
        PROVE  v[4 * r + ((l + r) % 4)] = rows[r][l]
    <3>1. (l + r) % 4 \in Lane /\ (((l + r) % 4) + 4 - r) % 4 = l
      BY DEF Lane
    <3>2. v[4 * r + ((l + r) % 4)] = back[r][(l + r) % 4]
      BY <1>0, <3>1, FlatWords
    <3> QED BY <3>1, <3>2 DEF RotatedBack
  <2>2. v[l] = rows[0][l]
    BY <2>1, 4 * 0 + ((l + 0) % 4) = l DEF Lane
  <2>3. v[4 + ((l + 1) % 4)] = rows[1][l]
    BY <2>1, 4 * 1 = 4
  <2>4. v[8 + ((l + 2) % 4)] = rows[2][l]
    BY <2>1, 4 * 2 = 8
  <2>5. v[12 + ((l + 3) % 4)] = rows[3][l]
    BY <2>1, 4 * 3 = 12
  <2>6. 8 + 2 * l + 1 = 9 + 2 * l
    BY DEF Lane
  <2> HIDE DEF v
  <2> QED BY <2>2, <2>3, <2>4, <2>5, <2>6, Zenon DEF Quarter, DiagonalLane
<1>3. DiagonalStep(v, s)
        = [k \in 0..15 |->
             DiagonalLane(v, s, ((k % 4) + 4 - (k \div 4)) % 4)[k \div 4 + 1]]
  BY <1>1, DiagonalWords, Zenon
<1> HIDE DEF v
<1>4. ASSUME NEW k \in 0..15
      PROVE  RotatedBack(Quarters(rows, s, 8))[k \div 4][k % 4]
               = DiagonalLane(v, s, ((k % 4) + 4 - (k \div 4)) % 4)[k \div 4 + 1]
  <2> DEFINE r == k \div 4
             l == ((k % 4) + 4 - (k \div 4)) % 4
  <2>1. r \in 0..3 /\ k % 4 \in Lane /\ l \in Lane
    BY DEF Lane
  <2>2. RotatedBack(Quarters(rows, s, 8))[r][k % 4] = Quarters(rows, s, 8)[r][l]
    BY <2>1 DEF RotatedBack
  <2> HIDE DEF r, l
  <2>3. Quarters(rows, s, 8)[r][l] = Quarter(rows, s, 8, l)[r + 1]
    BY <2>1 DEF Quarters
  <2>4. RotatedBack(Quarters(rows, s, 8))[r][k % 4] = DiagonalLane(v, s, l)[r + 1]
    BY <1>2, <2>1, <2>2, <2>3, Zenon
  <2> QED BY <2>4 DEF r, l
<1>5. Flat(RotatedBack(Quarters(rows, s, 8))) = DiagonalStep(v, s)
  BY <1>3, <1>4, Zenon DEF Flat
<1> QED BY <1>5 DEF v

-----------------------------------------------------------------------------
(* However row 3 is put together, it holds the last four words of the      *)
(* initial state.                                                          *)
LEMMA LoadAgrees ==
  ASSUME NEW W, WordLaws(W), NEW in \in Arguments(W), NEW form \in Forms
  PROVE  Load(form, in) \in RowsOf(W) /\ Flat(Load(form, in)) = InitialState(in)
<1> DEFINE last == [l \in Lane |-> CASE l = 0 -> Xor(IVWords[4], in.counter)
                                     [] l = 1 -> IVWords[5]
                                     [] l = 2 -> Xor(IVWords[6], in.block_len)
                                     [] l = 3 -> Xor(IVWords[7], in.flags)]
<1>1. /\ in.cv \in [0..7 -> W] /\ in.counter \in W /\ in.block_len \in W
      /\ in.flags \in W /\ IVWords \in [0..7 -> W]
  BY DEF Arguments, WordLaws
<1>2. /\ Xor(IVWords[4], in.counter) \in W /\ IVWords[5] \in W
      /\ Xor(IVWords[6], in.block_len) \in W /\ Xor(IVWords[7], in.flags) \in W
  BY <1>1 DEF WordLaws
<1>3. Row3Set(in) = last
  BY DEF Row3Set, SetEpi64
<1>4. Row3Array(in) = last
  BY DEF Row3Array, Lane
<1>5. Row3Tweaked(in) = last
  <2> DEFINE base == LoadFrom(IVWords, 4)
  <2>1. /\ DOMAIN base = Lane /\ base = [l \in Lane |-> base[l]]
        /\ base[0] = IVWords[4] /\ base[1] = IVWords[5]
        /\ base[2] = IVWords[6] /\ base[3] = IVWords[7]
    BY DEF LoadFrom, Lane
  <2>2. Row3Tweaked(in)
          = [base EXCEPT ![0] = Xor(base[0], in.counter),
                         ![2] = Xor(base[2], in.block_len),
                         ![3] = Xor(base[3], in.flags)]
    BY <2>1 DEF Row3Tweaked, Lane
  <2> DEFINE x == Xor(base[0], in.counter)
             y == Xor(base[2], in.block_len)
             z == Xor(base[3], in.flags)
  <2>3. Row3Tweaked(in) = [base EXCEPT ![0] = x, ![2] = y, ![3] = z]
    BY <2>2, Zenon
  <2> HIDE DEF base, x, y, z
  <2>4. [base EXCEPT ![0] = x, ![2] = y, ![3] = z]
          = [l \in Lane |-> CASE l = 0 -> x [] l = 1 -> base[1]
                               [] l = 2 -> y [] l = 3 -> z]
    BY <2>1 DEF Lane
  <2>5. /\ x = Xor(IVWords[4], in.counter) /\ y = Xor(IVWords[6], in.block_len)
        /\ z = Xor(IVWords[7], in.flags)
    BY <2>1 DEF x, y, z
  <2> QED BY <2>1, <2>3, <2>4, <2>5, Zenon
<1>6. Row3(form, in) = last
  BY <1>3, <1>4, <1>5, Zenon DEF Row3
<1>7. /\ LoadFrom(in.cv, 0) \in [Lane -> W] /\ LoadFrom(in.cv, 4) \in [Lane -> W]
      /\ LoadFrom(IVWords, 0) \in [Lane -> W] /\ last \in [Lane -> W]
  BY <1>1, <1>2 DEF LoadFrom, Lane
<1>8. Load(form, in)
        = Rows(LoadFrom(in.cv, 0), LoadFrom(in.cv, 4), LoadFrom(IVWords, 0), last)
  BY <1>6, Zenon DEF Load
<1> HIDE DEF last
<1>9. Load(form, in) \in RowsOf(W)
  BY <1>7, <1>8 DEF Rows, RowsOf
<1>10. ASSUME NEW k \in 0..15
       PROVE  Load(form, in)[k \div 4][k % 4]
                = IF k < 8 THEN in.cv[k]
                  ELSE CASE k = 12 -> Xor(IVWords[4], in.counter)
                         [] k = 14 -> Xor(IVWords[6], in.block_len)
                         [] k = 15 -> Xor(IVWords[7], in.flags)
                         [] OTHER  -> IVWords[k - 8]
  <2>1. CASE k \in 0..3
    <3>1. k \div 4 = 0 /\ k % 4 = k /\ k \in Lane /\ 0 + k = k /\ k < 8
      BY <2>1 DEF Lane
    <3> QED BY <1>8, <3>1 DEF Rows, LoadFrom
  <2>2. CASE k \in 4..7
    <3>1. k \div 4 = 1 /\ k % 4 = k - 4 /\ k - 4 \in Lane /\ 4 + (k - 4) = k
          /\ k < 8
      BY <2>2 DEF Lane
    <3> QED BY <1>8, <3>1 DEF Rows, LoadFrom
  <2>3. CASE k \in 8..11
    <3>1. k \div 4 = 2 /\ k % 4 = k - 8 /\ k - 8 \in Lane /\ 0 + (k - 8) = k - 8
          /\ ~(k < 8) /\ k # 12 /\ k # 14 /\ k # 15
      BY <2>3 DEF Lane
    <3> QED BY <1>8, <3>1 DEF Rows, LoadFrom
  <2>4. CASE k \in 12..15
    <3>1. k \div 4 = 3 /\ k % 4 = k - 12 /\ k - 12 \in Lane /\ ~(k < 8)
      BY <2>4 DEF Lane
    <3>2. Load(form, in)[k \div 4][k % 4] = last[k - 12]
      BY <1>8, <3>1 DEF Rows
    <3>3. k = 12 \/ k = 13 \/ k = 14 \/ k = 15
      BY <2>4
    <3> QED BY <3>1, <3>2, <3>3 DEF last
  <2> QED BY <2>1, <2>2, <2>3, <2>4
<1>11. Flat(Load(form, in)) = InitialState(in)
  BY <1>10 DEF Flat, InitialState
<1> QED BY <1>9, <1>11

LEMMA OutputAgrees ==
  ASSUME NEW W, WordLaws(W), NEW in \in Arguments(W), NEW rows \in RowsOf(W)
  PROVE  Flat(Rows(XorRows(rows[0], rows[2]), XorRows(rows[1], rows[3]),
                   XorRows(rows[2], LoadFrom(in.cv, 0)),
                   XorRows(rows[3], LoadFrom(in.cv, 4))))
           = Output(Flat(rows), in)
<1> DEFINE R == Rows(XorRows(rows[0], rows[2]), XorRows(rows[1], rows[3]),
                     XorRows(rows[2], LoadFrom(in.cv, 0)),
                     XorRows(rows[3], LoadFrom(in.cv, 4)))
           v == Flat(rows)
<1>1. ASSUME NEW k \in 0..15
      PROVE  R[k \div 4][k % 4]
               = IF k < 8 THEN Xor(v[k], v[k + 8])
                          ELSE Xor(v[k], in.cv[k - 8])
  <2>1. CASE k \in 0..3
    <3>1. k \div 4 = 0 /\ k % 4 = k /\ k \in Lane /\ k < 8
          /\ 4 * 0 + k = k /\ 4 * 2 + k = k + 8
      BY <2>1 DEF Lane
    <3>2. v[k] = rows[0][k] /\ v[k + 8] = rows[2][k]
      BY <3>1, FlatWords
    <3> QED BY <3>1, <3>2 DEF Rows, XorRows
  <2>2. CASE k \in 4..7
    <3>1. k \div 4 = 1 /\ k % 4 = k - 4 /\ k - 4 \in Lane /\ k < 8
          /\ 4 * 1 + (k - 4) = k /\ 4 * 3 + (k - 4) = k + 8
      BY <2>2 DEF Lane
    <3>2. v[k] = rows[1][k - 4] /\ v[k + 8] = rows[3][k - 4]
      BY <3>1, FlatWords
    <3> QED BY <3>1, <3>2 DEF Rows, XorRows
  <2>3. CASE k \in 8..11
    <3>1. k \div 4 = 2 /\ k % 4 = k - 8 /\ k - 8 \in Lane /\ ~(k < 8)
          /\ 4 * 2 + (k - 8) = k /\ 0 + (k - 8) = k - 8
      BY <2>3 DEF Lane
    <3>2. v[k] = rows[2][k - 8]
      BY <3>1, FlatWords
    <3> QED BY <3>1, <3>2 DEF Rows, XorRows, LoadFrom
  <2>4. CASE k \in 12..15
    <3>1. k \div 4 = 3 /\ k % 4 = k - 12 /\ k - 12 \in Lane /\ ~(k < 8)
          /\ 4 * 3 + (k - 12) = k /\ 4 + (k - 12) = k - 8
      BY <2>4 DEF Lane
    <3>2. v[k] = rows[3][k - 12]
      BY <3>1, FlatWords
    <3> QED BY <3>1, <3>2 DEF Rows, XorRows, LoadFrom
  <2> QED BY <2>1, <2>2, <2>3, <2>4
<1> HIDE DEF v, R
<1>2. Flat(R) = Output(v, in)
  BY <1>1 DEF Flat, Output
<1> QED BY <1>2 DEF v, R

-----------------------------------------------------------------------------
(* INSTANCE repeats the operators of the portable form under other names.  *)
LEMMA SameOperators ==
  /\ \A m, r : Portable!Schedule(m, r) = Schedule(m, r)
  /\ \A v, s : Portable!ColumnStep(v, s) = ColumnStep(v, s)
  /\ \A v, s : Portable!DiagonalStep(v, s) = DiagonalStep(v, s)
  /\ \A in : Portable!InitialState(in) = InitialState(in)
  /\ \A v, in : Portable!Output(v, in) = Output(v, in)
<1>1. ASSUME NEW swap, NEW a, NEW b, NEW c, NEW d, NEW mx, NEW my
      PROVE  Portable!MixLane(swap, a, b, c, d, mx, my)
               = MixLane(swap, a, b, c, d, mx, my)
  BY Zenon DEF Portable!MixLane, MixLane, Portable!RotR, RotR
<1>2. ASSUME NEW v, NEW a, NEW b, NEW c, NEW d, NEW mx, NEW my
      PROVE  Portable!G(v, a, b, c, d, mx, my) = G(v, a, b, c, d, mx, my)
  BY <1>1, Zenon DEF Portable!G, G
<1>3. \A m, r : Portable!Schedule(m, r) = Schedule(m, r)
  BY DEF Portable!Schedule, Schedule, Portable!SIGMA, SIGMA
<1>4. \A v, s : Portable!ColumnStep(v, s) = ColumnStep(v, s)
  BY <1>2, Zenon DEF Portable!ColumnStep, ColumnStep
<1>5. \A v, s : Portable!DiagonalStep(v, s) = DiagonalStep(v, s)
  BY <1>2, Zenon DEF Portable!DiagonalStep, DiagonalStep
<1>6. \A in : Portable!InitialState(in) = InitialState(in)
  BY DEF Portable!InitialState, InitialState
<1>7. \A v, in : Portable!Output(v, in) = Output(v, in)
  BY DEF Portable!Output, Output
<1> QED BY <1>3, <1>4, <1>5, <1>6, <1>7

LEMMA ImplKinds ==
  /\ Forms = X86 \cup Arm \cup Scalar
  /\ \A form \in Scalar : form \notin X86 /\ form \notin Arm
  /\ \A form \in X86 : form \notin Arm
BY DEF Forms, X86, Arm, Scalar, SimdImpl, Builds

-----------------------------------------------------------------------------
(* Where a call can stand.  A form that rotates rows and one that does not *)
(* never meet in the same position between a half round and the next.      *)
CompressType(W) ==
  /\ impl \in Forms /\ input \in Arguments(W) /\ row \in RowsOf(W)
  /\ stage \in {"column", "shuffle", "diagonal", "unshuffle", "returned"}
  /\ round \in 0..10

Position ==
  /\ stage \in {"shuffle", "diagonal", "unshuffle"} => round < 10
  /\ stage \in {"shuffle", "unshuffle"} => impl \notin Scalar

CompressIInv(W) == CompressType(W) /\ Position

(* A half round on rows, whichever form does it.                           *)
LEMMA HalfRoundsType ==
  ASSUME NEW W, WordLaws(W), NEW rows \in RowsOf(W), NEW s \in [0..15 -> W]
  PROVE  /\ SimdColumns(rows, s) \in RowsOf(W)
         /\ Flat(SimdColumns(rows, s)) = ColumnStep(Flat(rows), s)
         /\ SimdDiagonals(rows, s) \in RowsOf(W)
         /\ Flat(SimdDiagonals(rows, s)) = DiagonalStep(Flat(rows), s)
<1>1. ColumnStep(Flat(rows), s) \in [0..15 -> W]
  <2>1. Quarters(rows, s, 0) \in RowsOf(W)
    BY QuartersType
  <2> QED BY <2>1, ColumnsAgree, FlatWords
<1>2. DiagonalStep(Flat(rows), s) \in [0..15 -> W]
  <2> DEFINE turned == Rotated(rows)
  <2>1. turned \in RowsOf(W) /\ RotatedBack(turned) = rows
    BY RotateThere
  <2> HIDE DEF turned
  <2>2. Quarters(turned, s, 8) \in RowsOf(W)
    BY <2>1, QuartersType
  <2>3. RotatedBack(Quarters(turned, s, 8)) \in RowsOf(W)
    BY <2>2, RotateThere
  <2>4. Flat(RotatedBack(Quarters(turned, s, 8))) = DiagonalStep(Flat(rows), s)
    <3>1. Flat(RotatedBack(Quarters(turned, s, 8)))
            = DiagonalStep(Flat(RotatedBack(turned)), s)
      BY <2>1, DiagonalsAgree, Zenon
    <3> QED BY <2>1, <3>1, Zenon
  <2> QED BY <2>3, <2>4, FlatWords
<1> QED BY <1>1, <1>2, UnflatWords DEF SimdColumns, SimdDiagonals

LEMMA CompressInitInv ==
  ASSUME NEW W, WordLaws(W), Inputs \subseteq Arguments(W), CompressInit
  PROVE  CompressIInv(W)
<1>1. PICK form \in Forms, in \in Inputs :
        /\ impl = form /\ input = in /\ row = Load(form, in)
        /\ stage = "column" /\ round = 0
  BY DEF CompressInit
<1>2. in \in Arguments(W)
  BY <1>1
<1>3. Load(form, in) \in RowsOf(W)
  BY <1>2, LoadAgrees, Zenon
<1> QED BY <1>1, <1>2, <1>3 DEF CompressIInv, CompressType, Position

LEMMA CompressNextInv ==
  ASSUME NEW W, WordLaws(W), Inputs \subseteq Arguments(W), CompressIInv(W),
         [CompressNext]_compressVars
  PROVE  CompressIInv(W)'
<1>0. /\ impl \in Forms /\ input \in Arguments(W) /\ row \in RowsOf(W)
      /\ round \in 0..10 /\ input.m \in [0..15 -> W]
  BY DEF CompressIInv, CompressType, Arguments
<1>1. ASSUME NEW form \in Forms, Call(form)
      PROVE  CompressIInv(W)'
  <2>1. PICK in \in Inputs : Start(form, in)
    BY <1>1 DEF Call
  <2>2. in \in Arguments(W)
    BY <2>1
  <2>3. Load(form, in) \in RowsOf(W)
    BY <2>2, LoadAgrees, Zenon
  <2> QED BY <2>1, <2>2, <2>3 DEF Start, CompressIInv, CompressType, Position
<1>2. CASE Columns
  <2> DEFINE s == Schedule(input.m, round)
  <2>1. stage = "column" /\ round \in 0..9
    BY <1>0, <1>2 DEF Columns
  <2>2. s \in [0..15 -> W]
    BY <1>0, <2>1, ScheduleWords
  <2>3. row' = IF impl \in Scalar THEN SimdColumns(row, s)
                                  ELSE VectorG(impl, row, s, 0)
    BY <1>2 DEF Columns
  <2> HIDE DEF s
  <2>4. CASE impl \in Scalar
    <3>1. row' \in RowsOf(W)
      BY <1>0, <2>2, <2>3, <2>4, HalfRoundsType
    <3> QED BY <1>0, <1>2, <2>1, <2>4, <3>1
            DEF Columns, CompressIInv, CompressType, Position
  <2>5. CASE impl \notin Scalar
    <3>1. impl \in X86 \cup Arm
      BY <1>0, <2>5, ImplKinds
    <3>2. row' = Quarters(row, s, 0)
      BY <1>0, <2>2, <2>3, <2>5, <3>1, VectorGQuarters
    <3>3. row' \in RowsOf(W)
      BY <1>0, <2>2, <3>2, QuartersType
    <3> QED BY <1>0, <1>2, <2>1, <2>5, <3>3
            DEF Columns, CompressIInv, CompressType, Position
  <2> QED BY <2>4, <2>5
<1>3. CASE Shuffle
  <2>1. impl \notin Scalar /\ round < 10 /\ impl \in X86 \cup Arm
    BY <1>0, <1>3, ImplKinds DEF Shuffle, CompressIInv, Position
  <2>2. row' = Rotated(row)
    BY <1>0, <1>3, <2>1, ImplKinds, ShufflesRotate, NeonRotates DEF Shuffle
  <2>3. row' \in RowsOf(W)
    BY <1>0, <2>2, RotateThere
  <2> QED BY <1>0, <1>3, <2>1, <2>3
      DEF Shuffle, CompressIInv, CompressType, Position
<1>4. CASE SimdDiagonal
  <2> DEFINE s == Schedule(input.m, round)
  <2>1. stage = "diagonal" /\ impl \in Scalar /\ round \in 0..9
    BY <1>0, <1>4 DEF SimdDiagonal, CompressIInv, Position
  <2>2. s \in [0..15 -> W]
    BY <1>0, <2>1, ScheduleWords
  <2>3. row' = SimdDiagonals(row, s)
    BY <1>4 DEF SimdDiagonal
  <2> HIDE DEF s
  <2>4. row' \in RowsOf(W)
    BY <1>0, <2>2, <2>3, HalfRoundsType
  <2> QED BY <1>0, <1>4, <2>1, <2>4
      DEF SimdDiagonal, CompressIInv, CompressType, Position
<1>5. CASE Diagonal
  <2> DEFINE s == Schedule(input.m, round)
  <2>1. /\ stage = "diagonal" /\ impl \notin Scalar /\ round \in 0..9
        /\ impl \in X86 \cup Arm
    BY <1>0, <1>5, ImplKinds DEF Diagonal, CompressIInv, Position
  <2>2. s \in [0..15 -> W]
    BY <1>0, <2>1, ScheduleWords
  <2>3. row' = VectorG(impl, row, s, 8)
    BY <1>5 DEF Diagonal
  <2> HIDE DEF s
  <2>4. row' = Quarters(row, s, 8)
    BY <1>0, <2>1, <2>2, <2>3, VectorGQuarters
  <2>5. row' \in RowsOf(W)
    BY <1>0, <2>2, <2>4, QuartersType
  <2> QED BY <1>0, <1>5, <2>1, <2>5
      DEF Diagonal, CompressIInv, CompressType, Position
<1>6. CASE Unshuffle
  <2>1. impl \notin Scalar /\ round \in 0..9 /\ impl \in X86 \cup Arm
    BY <1>0, <1>6, ImplKinds DEF Unshuffle, CompressIInv, Position
  <2>2. row' = RotatedBack(row)
    BY <1>0, <1>6, <2>1, ImplKinds, ShufflesRotate, NeonRotates DEF Unshuffle
  <2>3. row' \in RowsOf(W)
    BY <1>0, <2>2, RotateThere
  <2> QED BY <1>0, <1>6, <2>1, <2>3
      DEF Unshuffle, CompressIInv, CompressType, Position
<1>7. CASE CompressReturn
  BY <1>0, <1>7 DEF CompressReturn, CompressIInv, CompressType, Position
<1>8. CASE UNCHANGED compressVars
  BY <1>8 DEF compressVars, CompressIInv, CompressType, Position
<1> QED BY <1>1, <1>2, <1>3, <1>4, <1>5, <1>6, <1>7, <1>8 DEF CompressNext

(* The positions and types of a call, for every form and all arguments.    *)
THEOREM KernelsInv ==
  ASSUME NEW W, WordLaws(W), Inputs \subseteq Arguments(W)
  PROVE  CompressSpec => []CompressIInv(W)
<1>1. CompressInit => CompressIInv(W)
  BY CompressInitInv
<1>2. CompressIInv(W) /\ [CompressNext]_compressVars => CompressIInv(W)'
  BY CompressNextInv
<1> QED BY <1>1, <1>2, PTL DEF CompressSpec

-----------------------------------------------------------------------------
(* Each step, seen through InOrder and HalvesDone.                         *)
LEMMA InitMaps ==
  ASSUME NEW W, WordLaws(W), Inputs \subseteq Arguments(W), CompressInit
  PROVE  Portable!Init
<1>1. PICK form \in Forms, in \in Inputs :
        /\ impl = form /\ input = in /\ row = Load(form, in)
        /\ stage = "column" /\ round = 0 /\ out = None
  BY DEF CompressInit
<1>2. in \in Arguments(W)
  BY <1>1
<1>3. Flat(InOrder) = Portable!InitialState(in)
  <2>1. InOrder = Load(form, in)
    BY <1>1 DEF InOrder
  <2>2. Flat(Load(form, in)) = InitialState(in)
    BY <1>2, LoadAgrees, Zenon
  <2> QED BY <2>1, <2>2, SameOperators, Zenon
<1>4. HalvesDone = 0
  BY <1>1 DEF HalvesDone
<1> QED BY <1>1, <1>3, <1>4, Zenon DEF Portable!Init

(* Between the rotations InOrder undoes the first of them.                 *)
LEMMA InOrderIs ==
  /\ stage \in {"column", "shuffle", "returned"} => InOrder = row
  /\ impl \in Scalar => InOrder = row
  /\ impl \notin Scalar /\ stage \in {"diagonal", "unshuffle"}
       => InOrder = RotatedBack(row)
BY Zenon DEF InOrder, RotatedBack

LEMMA NextMaps ==
  ASSUME NEW W, WordLaws(W), Inputs \subseteq Arguments(W), CompressIInv(W), CompressIInv(W)',
         [CompressNext]_compressVars
  PROVE  [Portable!Next]_(Portable!vars)
<1>0. /\ impl \in Forms /\ input \in Arguments(W) /\ row \in RowsOf(W)
      /\ round \in 0..10 /\ input.m \in [0..15 -> W]
  BY DEF CompressIInv, CompressType, Arguments
<1>1. ASSUME NEW form \in Forms, Call(form)
      PROVE  Portable!Call
  <2>1. PICK in \in Inputs : Start(form, in)
    BY <1>1 DEF Call
  <2>2. in \in Arguments(W)
    BY <2>1
  <2>3. Flat(InOrder)' = Portable!InitialState(in)
    <3>1. InOrder' = Load(form, in)
      BY <2>1 DEF Start, InOrder
    <3>2. Flat(Load(form, in)) = InitialState(in)
      BY <2>2, LoadAgrees, Zenon
    <3>3. Flat(InOrder)' = Flat(InOrder')
      BY DEF Flat
    <3> QED BY <3>1, <3>2, <3>3, SameOperators, Zenon
  <2>4. HalvesDone = 21 /\ HalvesDone' = 0
    BY <1>1, <2>1 DEF Call, Start, HalvesDone
  <2>5. input' = in /\ out' = None
    BY <2>1 DEF Start
  <2> QED BY <2>3, <2>4, <2>5
          DEF Portable!Call, Portable!Start, Portable!Returned
<1>2. CASE Columns
  <2> DEFINE s == Schedule(input.m, round)
  <2>1. stage = "column" /\ round \in 0..9
    BY <1>0, <1>2 DEF Columns
  <2>2. s \in [0..15 -> W]
    BY <1>0, <2>1, ScheduleWords
  <2>3. row' = IF impl \in Scalar THEN SimdColumns(row, s)
                                  ELSE VectorG(impl, row, s, 0)
    BY <1>2 DEF Columns
  <2> HIDE DEF s
  <2>4. Flat(row') = ColumnStep(Flat(row), s)
    <3>1. CASE impl \in Scalar
      BY <1>0, <2>2, <2>3, <3>1, HalfRoundsType
    <3>2. CASE impl \notin Scalar
      <4>1. impl \in X86 \cup Arm
        BY <1>0, <3>2, ImplKinds
      <4>2. row' = Quarters(row, s, 0)
        BY <1>0, <2>2, <2>3, <3>2, <4>1, VectorGQuarters
      <4> QED BY <1>0, <2>2, <4>2, ColumnsAgree
    <3> QED BY <3>1, <3>2
  <2>5. Flat(InOrder) = Flat(row) /\ Flat(InOrder)' = Flat(row')
    <3>1. InOrder = row
      BY <2>1, InOrderIs
    <3>2. InOrder' = row'
      BY <1>2 DEF Columns, InOrder
    <3> QED BY <3>1, <3>2, Zenon DEF Flat
  <2>6. HalvesDone = 2 * round /\ HalvesDone' = 2 * round + 1
    BY <1>2, <2>1 DEF Columns, HalvesDone
  <2>7. UNCHANGED <<input, out>>
    BY <1>2 DEF Columns
  <2>8. HalvesDone < 20 /\ HalvesDone \div 2 = round /\ HalvesDone % 2 = 0
        /\ HalvesDone' = HalvesDone + 1
    BY <2>1, <2>6
  <2>9. Flat(InOrder)'
          = Portable!ColumnStep(Flat(InOrder),
                                Portable!Schedule(input.m, HalvesDone \div 2))
    BY <2>4, <2>5, <2>8, SameOperators, Zenon DEF s
  <2>10. Portable!HalfRound
    BY <2>7, <2>8, <2>9, Zenon DEF Portable!HalfRound
  <2> QED BY <2>10, Zenon DEF Portable!Next
<1>3. CASE Shuffle
  <2>1. stage = "shuffle" /\ impl \notin Scalar /\ impl \in X86 \cup Arm
    BY <1>0, <1>3, ImplKinds DEF Shuffle, CompressIInv, Position
  <2>2. row' = Rotated(row)
    BY <1>0, <1>3, <2>1, ImplKinds, ShufflesRotate, NeonRotates DEF Shuffle
  <2>3. InOrder = row
    BY <2>1, InOrderIs
  <2>4. InOrder' = RotatedBack(row')
    BY <1>3, <2>1 DEF Shuffle, InOrder, RotatedBack
  <2>5. InOrder' = InOrder
    BY <1>0, <2>2, <2>3, <2>4, RotateThere
  <2>6. HalvesDone' = HalvesDone /\ UNCHANGED <<input, out>>
    BY <1>3, <2>1 DEF Shuffle, HalvesDone
  <2> QED BY <2>5, <2>6, Zenon DEF Portable!vars, Flat
<1>4. CASE SimdDiagonal
  <2> DEFINE s == Schedule(input.m, round)
  <2>1. stage = "diagonal" /\ impl \in Scalar /\ round \in 0..9
    BY <1>0, <1>4 DEF SimdDiagonal, CompressIInv, Position
  <2>2. s \in [0..15 -> W]
    BY <1>0, <2>1, ScheduleWords
  <2>3. row' = SimdDiagonals(row, s)
    BY <1>4 DEF SimdDiagonal
  <2> HIDE DEF s
  <2>4. Flat(row') = DiagonalStep(Flat(row), s)
    BY <1>0, <2>2, <2>3, HalfRoundsType
  <2>5. Flat(InOrder) = Flat(row) /\ Flat(InOrder)' = Flat(row')
    <3>1. InOrder = row
      BY <2>1, InOrderIs
    <3>2. InOrder' = row'
      BY <1>4 DEF SimdDiagonal, InOrder
    <3> QED BY <3>1, <3>2, Zenon DEF Flat
  <2>6. HalvesDone = 2 * round + 1 /\ HalvesDone' = 2 * (round + 1)
    BY <1>4, <2>1 DEF SimdDiagonal, HalvesDone
  <2>7. UNCHANGED <<input, out>>
    BY <1>4 DEF SimdDiagonal
  <2>8. HalvesDone < 20 /\ HalvesDone \div 2 = round /\ HalvesDone % 2 # 0
        /\ HalvesDone' = HalvesDone + 1
    BY <2>1, <2>6
  <2>9. Flat(InOrder)'
          = Portable!DiagonalStep(Flat(InOrder),
                                  Portable!Schedule(input.m, HalvesDone \div 2))
    BY <2>4, <2>5, <2>8, SameOperators, Zenon DEF s
  <2>10. Portable!HalfRound
    BY <2>7, <2>8, <2>9, Zenon DEF Portable!HalfRound
  <2> QED BY <2>10, Zenon DEF Portable!Next
<1>5. CASE Diagonal
  <2> DEFINE s == Schedule(input.m, round)
  <2>1. /\ stage = "diagonal" /\ impl \notin Scalar /\ round \in 0..9
        /\ impl \in X86 \cup Arm
    BY <1>0, <1>5, ImplKinds DEF Diagonal, CompressIInv, Position
  <2>2. s \in [0..15 -> W]
    BY <1>0, <2>1, ScheduleWords
  <2>3. row' = VectorG(impl, row, s, 8)
    BY <1>5 DEF Diagonal
  <2> HIDE DEF s
  <2>4. row' = Quarters(row, s, 8)
    BY <1>0, <2>1, <2>2, <2>3, VectorGQuarters
  <2>5. Flat(InOrder) = Flat(RotatedBack(row))
        /\ Flat(InOrder)' = Flat(RotatedBack(row'))
    <3>1. InOrder = RotatedBack(row)
      BY <2>1, InOrderIs
    <3>2. InOrder' = RotatedBack(row')
      BY <1>5, <2>1 DEF Diagonal, InOrder, RotatedBack
    <3> QED BY <3>1, <3>2, Zenon DEF Flat
  <2>6. Flat(InOrder)' = DiagonalStep(Flat(InOrder), s)
    <3>1. Flat(RotatedBack(Quarters(row, s, 8)))
            = DiagonalStep(Flat(RotatedBack(row)), s)
      BY <1>0, <2>2, DiagonalsAgree, Zenon
    <3> QED BY <2>4, <2>5, <3>1, Zenon
  <2>7. HalvesDone = 2 * round + 1 /\ HalvesDone' = 2 * round + 2
    BY <1>5, <2>1 DEF Diagonal, HalvesDone
  <2>8. UNCHANGED <<input, out>>
    BY <1>5 DEF Diagonal
  <2>9. HalvesDone < 20 /\ HalvesDone \div 2 = round /\ HalvesDone % 2 # 0
        /\ HalvesDone' = HalvesDone + 1
    BY <2>1, <2>7
  <2>10. Flat(InOrder)'
           = Portable!DiagonalStep(Flat(InOrder),
                                   Portable!Schedule(input.m, HalvesDone \div 2))
    BY <2>6, <2>9, SameOperators, Zenon DEF s
  <2>11. Portable!HalfRound
    BY <2>8, <2>9, <2>10, Zenon DEF Portable!HalfRound
  <2> QED BY <2>11, Zenon DEF Portable!Next
<1>6. CASE Unshuffle
  <2>1. stage = "unshuffle" /\ impl \notin Scalar /\ impl \in X86 \cup Arm
    BY <1>0, <1>6, ImplKinds DEF Unshuffle, CompressIInv, Position
  <2>2. row' = RotatedBack(row)
    BY <1>0, <1>6, <2>1, ImplKinds, ShufflesRotate, NeonRotates DEF Unshuffle
  <2>3. InOrder = RotatedBack(row)
    BY <2>1, InOrderIs
  <2>4. InOrder' = row'
    BY <1>6 DEF Unshuffle, InOrder
  <2>5. HalvesDone' = HalvesDone /\ UNCHANGED <<input, out>>
    BY <1>0, <1>6, <2>1 DEF Unshuffle, HalvesDone
  <2> QED BY <2>2, <2>3, <2>4, <2>5, Zenon DEF Portable!vars, Flat
<1>7. CASE CompressReturn
  <2>1. stage = "column" /\ round = 10 /\ stage' = "returned"
    BY <1>7 DEF CompressReturn
  <2>2. InOrder = row
    BY <2>1, InOrderIs
  <2>3. Flat(InOrder)' = Flat(InOrder)
    <3>1. InOrder' = row'
      BY <1>7 DEF CompressReturn, InOrder
    <3>2. row' = row
      BY <1>7 DEF CompressReturn
    <3> QED BY <2>2, <3>1, <3>2, Zenon DEF Flat
  <2>4. out' = Output(Flat(row), input)
    <3>1. out' = Flat(Rows(XorRows(row[0], row[2]), XorRows(row[1], row[3]),
                           XorRows(row[2], LoadFrom(input.cv, 0)),
                           XorRows(row[3], LoadFrom(input.cv, 4))))
      BY <1>7, Zenon DEF CompressReturn
    <3> QED BY <1>0, <3>1, OutputAgrees, Zenon
  <2>5. out' = Portable!Output(Flat(InOrder), input)
    BY <2>2, <2>4, SameOperators, Zenon
  <2>6. HalvesDone = 20 /\ HalvesDone' = Portable!Returned
    BY <2>1 DEF HalvesDone, Portable!Returned
  <2>7. input' = input
    BY <1>7 DEF CompressReturn
  <2>8. Portable!Return
    BY <2>3, <2>5, <2>6, <2>7, Zenon DEF Portable!Return
  <2> QED BY <2>8, Zenon DEF Portable!Next
<1>8. CASE UNCHANGED compressVars
  <2>1. /\ impl' = impl /\ input' = input /\ row' = row /\ stage' = stage
        /\ round' = round /\ out' = out
    BY <1>8 DEF compressVars
  <2>2. Flat(InOrder)' = Flat(InOrder) /\ HalvesDone' = HalvesDone
    BY <2>1 DEF Flat, InOrder, HalvesDone
  <2> QED BY <2>1, <2>2 DEF Portable!vars
<1>9. ASSUME NEW form \in Forms, Call(form)
      PROVE  [Portable!Next]_(Portable!vars)
  BY <1>1, <1>9, Zenon DEF Portable!Next
<1> QED BY <1>2, <1>3, <1>4, <1>5, <1>6, <1>7, <1>8, <1>9 DEF CompressNext

(* Every form of the compression function computes the portable one:       *)
(* whatever the width of the words and the arguments, its calls are calls  *)
(* of blake4_compress_portable, half round by half round, with the same    *)
(* 16 words returned (src/blake4_avx2.c, blake4_avx512.c, blake4_neon.c,   *)
(* blake4_simd.c and the assembly kernels).                                *)
THEOREM KernelsAgree ==
  ASSUME NEW W, WordLaws(W), Inputs \subseteq Arguments(W)
  PROVE  CompressSpec => ComputesPortable
<1>1. CompressInit => Portable!Init
  BY InitMaps
<1>2. CompressIInv(W) /\ CompressIInv(W)' /\ [CompressNext]_compressVars =>
        [UNCHANGED compressVars \/ Portable!Next]_(Portable!vars)
  BY NextMaps, Zenon
<1>3. CompressSpec => []CompressIInv(W)
  BY KernelsInv
<1> QED BY <1>1, <1>2, <1>3, PTL DEF CompressSpec, ComputesPortable

-----------------------------------------------------------------------------
(* The constant-time utilities.                                            *)

(* Numbers digit by digit.                                                 *)
LEMMA DoubleDivision ==
  ASSUME NEW x \in Nat, NEW p \in Nat \ {0}
  PROVE  /\ x \div (2 * p) = (x \div 2) \div p
         /\ x % (2 * p) = 2 * ((x \div 2) % p) + (x % 2)
<1> DEFINE h == x \div 2
           q == h \div p
           r == h % p
           n == 2 * p
           s == 2 * r + (x % 2)
<1>1. h \in Nat /\ x % 2 \in 0..1 /\ x = 2 * h + (x % 2)
  BY HalfFacts
<1>2. q \in Nat /\ r \in 0..(p - 1) /\ h = q * p + r
  BY <1>1, Division
<1> HIDE DEF h, q, r
<1>3. n \in Nat \ {0} /\ s \in 0..(n - 1)
  BY <1>1, <1>2
<1>4. x = q * n + s
  <2>1. q * n = 2 * (q * p)
    BY <1>2
  <2>2. q * p \in Nat
    BY <1>2
  <2> HIDE DEF n
  <2>3. QED
    BY <1>1, <1>2, <2>1, <2>2
<1> HIDE DEF n, s
<1>5. x \div n = q /\ x % n = s
  BY <1>2, <1>3, <1>4, DivisionIs
<1>6. QED
  BY <1>5 DEF h, q, r, n, s

(* An operation that works on each binary digit by itself, t its table.    *)
IsDigitwise(F, t) ==
  /\ t \in [0..1 -> [0..1 -> 0..1]]
  /\ \A x, y \in Nat :
       /\ F[x][y] \in Nat
       /\ F[x][y] = 2 * F[x \div 2][y \div 2] + t[x % 2][y % 2]

LEMMA DigitFacts ==
  ASSUME NEW F, NEW t, IsDigitwise(F, t), NEW x \in Nat, NEW y \in Nat
  PROVE  /\ F[x][y] \in Nat
         /\ F[x][y] \div 2 = F[x \div 2][y \div 2]
         /\ F[x][y] % 2 = t[x % 2][y % 2]
<1> DEFINE f == F[x][y]
           g == F[x \div 2][y \div 2]
           d == t[x % 2][y % 2]
<1>1. x \div 2 \in Nat /\ y \div 2 \in Nat /\ x % 2 \in 0..1 /\ y % 2 \in 0..1
  BY HalfFacts
<1>2. f \in Nat /\ g \in Nat /\ d \in 0..1 /\ f = 2 * g + d
  BY <1>1 DEF IsDigitwise
<1> HIDE DEF f, g, d
<1>3. f \div 2 = g /\ f % 2 = d
  BY <1>2
<1>4. QED
  BY <1>2, <1>3 DEF f, g, d

(* It works on the digits above and below any place by themselves.         *)
LEMMA DigitsAbove ==
  ASSUME NEW F, NEW t, IsDigitwise(F, t)
  PROVE  \A n \in Nat : \A x, y \in Nat :
           F[x][y] \div Pow2[n] = F[x \div Pow2[n]][y \div Pow2[n]]
<1> DEFINE T == {n \in Nat : \A x, y \in Nat :
                   F[x][y] \div Pow2[n] = F[x \div Pow2[n]][y \div Pow2[n]]}
<1>1. 0 \in T
  <2>1. Pow2[0] = 1 /\ \A z \in Nat : z \div 1 = z
    BY Pow2Facts
  <2>2. \A x, y \in Nat : F[x][y] \in Nat
    BY DigitFacts
  <2>3. QED
    BY <2>1, <2>2
<1>2. ASSUME NEW n \in Nat, n \in T PROVE n + 1 \in T
  <2> DEFINE p == Pow2[n]
  <2>1. p \in Nat \ {0} /\ Pow2[n + 1] = 2 * p
    BY Pow2Facts
  <2>2. ASSUME NEW x \in Nat, NEW y \in Nat
        PROVE  F[x][y] \div (2 * p) = F[x \div (2 * p)][y \div (2 * p)]
    <3>1. x \div 2 \in Nat /\ y \div 2 \in Nat /\ F[x][y] \in Nat
      BY HalfFacts, DigitFacts
    <3>2. F[x][y] \div (2 * p) = (F[x][y] \div 2) \div p
      BY <2>1, <3>1, DoubleDivision
    <3>3. (F[x][y] \div 2) \div p = F[x \div 2][y \div 2] \div p
      BY DigitFacts
    <3>4. F[x \div 2][y \div 2] \div p
            = F[(x \div 2) \div p][(y \div 2) \div p]
      BY <1>2, <3>1
    <3>5. (x \div 2) \div p = x \div (2 * p) /\ (y \div 2) \div p = y \div (2 * p)
      BY <2>1, DoubleDivision
    <3>6. QED
      BY <3>2, <3>3, <3>4, <3>5, Zenon
  <2>3. QED
    BY <2>1, <2>2
<1>3. Nat \subseteq T
  <2> HIDE DEF T
  <2> QED BY <1>1, <1>2, SetInduction
<1>4. QED
  BY <1>3

LEMMA DigitsBelow ==
  ASSUME NEW F, NEW t, IsDigitwise(F, t)
  PROVE  \A n \in Nat : \A x, y \in Nat :
           F[x][y] % Pow2[n] = F[x % Pow2[n]][y % Pow2[n]]
<1> DEFINE T == {n \in Nat : \A x, y \in Nat :
                   F[x][y] % Pow2[n] = F[x % Pow2[n]][y % Pow2[n]]}
<1>1. 0 \in T
  <2>1. Pow2[0] = 1 /\ \A z \in Nat : z % 1 = 0
    BY Pow2Facts
  <2>2. \A x, y \in Nat : F[x][y] \in Nat
    BY DigitFacts
  <2>3. F[0][0] = 0
    <3>1. 0 \div 2 = 0 /\ 0 % 2 = 0
      OBVIOUS
    <3>2. F[0][0] \in Nat /\ F[0][0] \div 2 = F[0 \div 2][0 \div 2]
      BY DigitFacts
    <3>3. F[0][0] \div 2 = F[0][0]
      BY <3>1, <3>2, Zenon
    <3>4. QED
      BY <3>2, <3>3
  <2>4. QED
    BY <2>1, <2>2, <2>3
<1>2. ASSUME NEW n \in Nat, n \in T PROVE n + 1 \in T
  <2> DEFINE p == Pow2[n]
  <2>1. p \in Nat \ {0} /\ Pow2[n + 1] = 2 * p
    BY Pow2Facts
  <2>2. ASSUME NEW x \in Nat, NEW y \in Nat
        PROVE  F[x][y] % (2 * p) = F[x % (2 * p)][y % (2 * p)]
    <3> DEFINE u == x % (2 * p)
               v == y % (2 * p)
               a == (x \div 2) % p
               b == (y \div 2) % p
    <3>1. /\ x \div 2 \in Nat /\ y \div 2 \in Nat /\ F[x][y] \in Nat
          /\ x % 2 \in 0..1 /\ y % 2 \in 0..1
      BY HalfFacts, DigitFacts
    <3>2. F[x][y] % (2 * p) = 2 * ((F[x][y] \div 2) % p) + (F[x][y] % 2)
      BY <2>1, <3>1, DoubleDivision
    <3>3. (F[x][y] \div 2) % p = F[a][b]
      <4>1. F[x][y] \div 2 = F[x \div 2][y \div 2]
        BY DigitFacts
      <4>2. F[x \div 2][y \div 2] % p = F[a][b]
        BY <1>2, <3>1
      <4>3. QED
        BY <4>1, <4>2
    <3>4. a \in Nat /\ b \in Nat /\ u = 2 * a + (x % 2) /\ v = 2 * b + (y % 2)
      <4>1. a \in Nat /\ b \in Nat
        <5>1. \A z \in Nat : z % p \in Nat
          <6> HIDE DEF p
          <6> QED BY <2>1
        <5>2. QED
          BY <3>1, <5>1, Zenon
      <4>2. u = 2 * a + (x % 2) /\ v = 2 * b + (y % 2)
        BY <2>1, DoubleDivision, Zenon
      <4>3. QED
        BY <4>1, <4>2
    <3> HIDE DEF a, b, u, v
    <3>5. /\ u \in Nat /\ u \div 2 = a /\ u % 2 = x % 2
          /\ v \in Nat /\ v \div 2 = b /\ v % 2 = y % 2
      BY <3>1, <3>4
    <3>6. F[u][v] = 2 * F[a][b] + t[x % 2][y % 2]
      <4>1. F[u][v] = 2 * F[u \div 2][v \div 2] + t[u % 2][v % 2]
        BY <3>5, Zenon DEF IsDigitwise
      <4>2. QED
        BY <3>5, <4>1, Zenon
    <3>7. F[x][y] % 2 = t[x % 2][y % 2]
      BY DigitFacts
    <3>8. QED
      BY <3>2, <3>3, <3>6, <3>7, Zenon DEF u, v
  <2>3. QED
    BY <2>1, <2>2
<1>3. Nat \subseteq T
  <2> HIDE DEF T
  <2> QED BY <1>1, <1>2, SetInduction
<1>4. QED
  BY <1>3

(* An operation on two words is one on their digits, and does not leave    *)
(* the width of the words.                                                 *)
LEMMA DigitsFit ==
  ASSUME NEW F, NEW t, IsDigitwise(F, t), NEW n \in Nat,
         NEW x \in 0..(Pow2[n] - 1), NEW y \in 0..(Pow2[n] - 1)
  PROVE  F[x][y] \in 0..(Pow2[n] - 1)
<1> DEFINE p == Pow2[n]
<1>1. p \in Nat \ {0} /\ x \in Nat /\ y \in Nat
  BY Pow2Facts
<1>2. F[x][y] \in Nat
  BY <1>1, DigitFacts
<1>3. F[x][y] % p = F[x % p][y % p]
  BY <1>1, DigitsBelow
<1> HIDE DEF p
<1>4. x % p = x /\ y % p = y
  BY <1>1 DEF p
<1>5. F[x][y] % p \in 0..(p - 1)
  BY <1>1, <1>2, Division
<1>6. QED
  BY <1>3, <1>4, <1>5, Zenon DEF p

(* The recursive function on pairs of numbers exists.                      *)
AndStep(p, g, x) ==
  [y \in Nat |->
     IF x = 0 THEN 0
     ELSE 2 * g[x \div 2][y \div 2]
            + (IF x % 2 = 1 /\ y % 2 = 1 THEN 1 ELSE 0)]
Anding == INSTANCE Recursion WITH Step <- AndStep

AndTable == [a \in 0..1 |-> [b \in 0..1 |-> IF a = 1 /\ b = 1 THEN 1 ELSE 0]]
OrTable  == [a \in 0..1 |-> [b \in 0..1 |-> IF a = 1 \/ b = 1 THEN 1 ELSE 0]]
XorTable == [a \in 0..1 |-> [b \in 0..1 |-> IF a = b THEN 0 ELSE 1]]

OrBits  == [x \in Nat |-> [y \in Nat |-> BitOr(x, y)]]
XorBits == [x \in Nat |-> [y \in Nat |-> BitXor(x, y)]]

LEMMA AndEquation ==
  /\ \A y \in Nat : BitAnd(0, y) = 0
  /\ \A x, y \in Nat : x # 0 =>
       BitAnd(x, y) = 2 * BitAnd(x \div 2, y \div 2)
                        + (IF x % 2 = 1 /\ y % 2 = 1 THEN 1 ELSE 0)
<1>1. Anding!LooksBelow(0, Nat)
  <2> SUFFICES ASSUME NEW n \in Nat, NEW g, NEW h,
                      \A k \in Nat : k < n => g[k] = h[k]
               PROVE  AndStep(0, g, n) = AndStep(0, h, n)
    BY DEF Anding!LooksBelow
  <2>1. n # 0 => n \div 2 \in Nat /\ n \div 2 < n
    BY HalfFacts
  <2>2. n # 0 => g[n \div 2] = h[n \div 2]
    BY <2>1
  <2>3. CASE n = 0
    BY <2>3 DEF AndStep
  <2>4. CASE n # 0
    BY <2>2, <2>4, Zenon DEF AndStep
  <2>5. QED
    BY <2>3, <2>4
<1>2. Anding!IsStrongRecursion(AndBits, 0, Nat)
  BY DEF Anding!IsStrongRecursion, AndBits, AndStep
<1>3. AndBits = [n \in Nat |-> AndStep(0, AndBits, n)]
  BY <1>1, <1>2, Anding!StrongRecursion
<1>4. \A n \in Nat : AndBits[n] = AndStep(0, AndBits, n)
  BY <1>3
<1>5. QED
  BY <1>4 DEF AndStep, BitAnd

(* No more than either word.                                               *)
LEMMA AndFacts ==
  ASSUME NEW x \in Nat, NEW y \in Nat
  PROVE  /\ BitAnd(x, y) \in Nat
         /\ BitAnd(x, y) <= x /\ BitAnd(x, y) <= y
<1> DEFINE Small(u, v) == /\ BitAnd(u, v) \in Nat
                          /\ BitAnd(u, v) <= u /\ BitAnd(u, v) <= v
           T == {u \in Nat : \A v \in Nat : Small(u, v)}
<1>1. ASSUME NEW u \in Nat, (0..(u - 1)) \subseteq T PROVE u \in T
  <2>1. CASE u = 0
    BY <2>1, AndEquation
  <2>2. CASE u # 0
    <3> SUFFICES ASSUME NEW v \in Nat PROVE Small(u, v)
      OBVIOUS
    <3> DEFINE a == BitAnd(u \div 2, v \div 2)
    <3>1. /\ u \div 2 \in 0..(u - 1) /\ v \div 2 \in Nat
          /\ u % 2 \in 0..1 /\ v % 2 \in 0..1
          /\ u = 2 * (u \div 2) + (u % 2) /\ v = 2 * (v \div 2) + (v % 2)
      BY <2>2, HalfFacts
    <3>2. a \in Nat /\ a <= u \div 2 /\ a <= v \div 2
      BY <1>1, <3>1
    <3>3. BitAnd(u, v) = 2 * a + (IF u % 2 = 1 /\ v % 2 = 1 THEN 1 ELSE 0)
      BY <2>2, AndEquation
    <3> HIDE DEF a
    <3>4. QED
      BY <3>1, <3>2, <3>3
  <2>3. QED
    BY <2>1, <2>2
<1>2. Nat \subseteq T
  <2> HIDE DEF T
  <2> QED BY <1>1, StrongSetInduction
<1>3. QED
  BY <1>2

LEMMA DigitsOfWords ==
  /\ IsDigitwise(AndBits, AndTable)
  /\ IsDigitwise(OrBits, OrTable)
  /\ IsDigitwise(XorBits, XorTable)
<1>1. /\ AndTable \in [0..1 -> [0..1 -> 0..1]]
      /\ OrTable \in [0..1 -> [0..1 -> 0..1]]
      /\ XorTable \in [0..1 -> [0..1 -> 0..1]]
  BY DEF AndTable, OrTable, XorTable
<1>2. ASSUME NEW x \in Nat, NEW y \in Nat
      PROVE  /\ AndBits[x][y] = BitAnd(x, y)
             /\ OrBits[x][y] = BitOr(x, y)
             /\ XorBits[x][y] = BitXor(x, y)
  BY DEF BitAnd, OrBits, XorBits
<1>3. ASSUME NEW x \in Nat, NEW y \in Nat
      PROVE  /\ AndBits[x][y] \in Nat /\ OrBits[x][y] \in Nat
             /\ XorBits[x][y] \in Nat
             /\ AndBits[x][y] = 2 * AndBits[x \div 2][y \div 2]
                                  + AndTable[x % 2][y % 2]
             /\ OrBits[x][y] = 2 * OrBits[x \div 2][y \div 2]
                                  + OrTable[x % 2][y % 2]
             /\ XorBits[x][y] = 2 * XorBits[x \div 2][y \div 2]
                                  + XorTable[x % 2][y % 2]
  <2> DEFINE u == x \div 2
             v == y \div 2
             c == x % 2
             d == y % 2
             a == BitAnd(x, y)
             b == BitAnd(u, v)
             e == IF c = 1 /\ d = 1 THEN 1 ELSE 0
  <2>1. /\ u \in Nat /\ v \in Nat /\ c \in 0..1 /\ d \in 0..1
        /\ x = 2 * u + c /\ y = 2 * v + d
    BY HalfFacts
  <2>2. a \in Nat /\ a <= x /\ a <= y /\ b \in Nat /\ b <= u /\ b <= v
    BY <2>1, AndFacts
  <2>3. a = 2 * b + e
    <3>1. x = 0 => u = 0 /\ c = 0
      OBVIOUS
    <3>2. QED
      BY <2>1, <3>1, AndEquation
  <2>4. /\ AndTable[c][d] = e
        /\ OrTable[c][d] = c + d - e
        /\ XorTable[c][d] = c + d - 2 * e
    <3> HIDE DEF c, d
    <3> QED BY <2>1 DEF AndTable, OrTable, XorTable
  <2>5. /\ AndBits[x][y] = a /\ AndBits[u][v] = b
        /\ OrBits[x][y] = x + y - a /\ OrBits[u][v] = u + v - b
        /\ XorBits[x][y] = x + y - 2 * a /\ XorBits[u][v] = u + v - 2 * b
    BY <1>2, <2>1 DEF BitOr, BitXor
  <2>6. e \in 0..1
    OBVIOUS
  <2>7. /\ AndBits[x][y] \in Nat /\ OrBits[x][y] \in Nat
        /\ XorBits[x][y] \in Nat
        /\ AndBits[x][y] = 2 * AndBits[u][v] + AndTable[c][d]
        /\ OrBits[x][y] = 2 * OrBits[u][v] + OrTable[c][d]
        /\ XorBits[x][y] = 2 * XorBits[u][v] + XorTable[c][d]
    <3> HIDE DEF u, v, c, d, a, b, e
    <3> QED BY <2>1, <2>2, <2>3, <2>4, <2>5, <2>6
  <2>8. QED
    BY <2>7
<1>4. QED
  BY <1>1, <1>3, Zenon DEF IsDigitwise

LEMMA AndSelf == \A x \in Nat : BitAnd(x, x) = x
<1> DEFINE T == {x \in Nat : BitAnd(x, x) = x}
<1>1. ASSUME NEW x \in Nat, (0..(x - 1)) \subseteq T PROVE x \in T
  <2>1. CASE x = 0
    BY <2>1, AndEquation
  <2>2. CASE x # 0
    <3>1. /\ x \div 2 \in 0..(x - 1) /\ x % 2 \in 0..1
          /\ x = 2 * (x \div 2) + (x % 2)
      BY <2>2, HalfFacts
    <3>2. BitAnd(x \div 2, x \div 2) = x \div 2
      BY <1>1, <3>1
    <3>3. BitAnd(x, x) = 2 * BitAnd(x \div 2, x \div 2)
                           + (IF x % 2 = 1 THEN 1 ELSE 0)
      BY <2>2, AndEquation
    <3>4. QED
      BY <3>1, <3>2, <3>3
  <2>3. QED
    BY <2>1, <2>2
<1>2. Nat \subseteq T
  <2> HIDE DEF T
  <2> QED BY <1>1, StrongSetInduction
<1>3. QED
  BY <1>2

(* A word and the word of ones only.                                       *)
LEMMA AndOnes ==
  \A n \in Nat : \A x \in 0..(Pow2[n] - 1) : BitAnd(x, Pow2[n] - 1) = x
<1> DEFINE T == {n \in Nat : \A x \in 0..(Pow2[n] - 1) :
                               BitAnd(x, Pow2[n] - 1) = x}
<1>1. 0 \in T
  <2>1. \A x \in 0..(Pow2[0] - 1) : x = 0 /\ Pow2[0] - 1 \in Nat
    BY Pow2Facts
  <2>2. QED
    BY <2>1, AndEquation
<1>2. ASSUME NEW n \in Nat, n \in T PROVE n + 1 \in T
  <2> DEFINE p == Pow2[n]
             o == 2 * p - 1
  <2>1. p \in Nat \ {0} /\ Pow2[n + 1] = 2 * p
    BY Pow2Facts
  <2>2. ASSUME NEW x \in 0..o PROVE BitAnd(x, o) = x
    <3>1. CASE x = 0
      BY <2>1, <3>1, AndEquation
    <3>2. CASE x # 0
      <4>1. /\ x \in Nat /\ x \div 2 \in 0..(p - 1) /\ x % 2 \in 0..1
            /\ x = 2 * (x \div 2) + (x % 2)
            /\ o \in Nat /\ o \div 2 = p - 1 /\ o % 2 = 1
        <5> HIDE DEF p
        <5> QED BY <2>1
      <4>2. BitAnd(x \div 2, p - 1) = x \div 2
        BY <1>2, <4>1
      <4> HIDE DEF o, p
      <4>3. BitAnd(x, o) = 2 * BitAnd(x \div 2, o \div 2)
                             + (IF x % 2 = 1 /\ o % 2 = 1 THEN 1 ELSE 0)
        BY <3>2, <4>1, AndEquation
      <4>4. QED
        BY <4>1, <4>2, <4>3
    <3>3. QED
      BY <3>1, <3>2
  <2>3. QED
    BY <2>1, <2>2
<1>3. Nat \subseteq T
  <2> HIDE DEF T
  <2> QED BY <1>1, <1>2, SetInduction
<1>4. QED
  BY <1>3

LEMMA ZeroWords ==
  ASSUME NEW x \in Nat, NEW y \in Nat
  PROVE  /\ BitAnd(x, 0) = 0 /\ BitOr(x, 0) = x /\ BitOr(0, x) = x
         /\ BitOr(x, y) \in Nat /\ (BitOr(x, y) = 0 <=> x = 0 /\ y = 0)
         /\ BitXor(x, y) \in Nat /\ (BitXor(x, y) = 0 <=> x = y)
<1>1. /\ BitAnd(x, 0) \in Nat /\ BitAnd(x, 0) <= 0 /\ BitAnd(0, x) = 0
      /\ BitAnd(x, y) \in Nat /\ BitAnd(x, y) <= x /\ BitAnd(x, y) <= y
  BY AndFacts, AndEquation
<1>2. x = y => BitAnd(x, y) = x
  BY AndSelf
<1> DEFINE a == BitAnd(x, y)
           o == BitOr(x, y)
           e == BitXor(x, y)
<1>3. o = x + y - a /\ e = x + y - 2 * a /\ a \in Nat /\ a <= x /\ a <= y
  BY <1>1 DEF BitOr, BitXor
<1>4. BitAnd(x, 0) = 0 /\ BitOr(x, 0) = x /\ BitOr(0, x) = x
  BY <1>1 DEF BitOr
<1>5. x = y => e = 0
  BY <1>2, <1>3
<1> HIDE DEF a, o, e
<1>6. o \in Nat /\ e \in Nat
  BY <1>3
<1>7. o = 0 => x = 0 /\ y = 0
  BY <1>3
<1>8. x = 0 /\ y = 0 => o = 0
  BY <1>3
<1>9. e = 0 => x = y
  BY <1>3
<1>10. QED
  BY <1>4, <1>5, <1>6, <1>7, <1>8, <1>9 DEF o, e

(* The words of n bits are closed under the operations.                    *)
LEMMA WordsClosed ==
  ASSUME NEW n \in Nat,
         NEW x \in 0..(Pow2[n] - 1), NEW y \in 0..(Pow2[n] - 1)
  PROVE  /\ BitOr(x, y) \in 0..(Pow2[n] - 1)
         /\ BitXor(x, y) \in 0..(Pow2[n] - 1)
<1>1. x \in Nat /\ y \in Nat
  BY Pow2Facts
<1>2. OrBits[x][y] \in 0..(Pow2[n] - 1) /\ XorBits[x][y] \in 0..(Pow2[n] - 1)
  BY DigitsOfWords, DigitsFit
<1>3. QED
  BY <1>1, <1>2 DEF OrBits, XorBits

-----------------------------------------------------------------------------
(* The functions on words and bytes.                                       *)
LEMMA SelectIs ==
  ASSUME NEW n \in Nat, NEW condition,
         NEW a \in 0..(Pow2[n] - 1), NEW b \in 0..(Pow2[n] - 1)
  PROVE  Select(Mask(condition, n), a, b, n) = IF condition # 0 THEN b ELSE a
<1> DEFINE p == Pow2[n]
<1>1. p \in Nat \ {0} /\ a \in Nat /\ b \in Nat
  BY Pow2Facts
<1>2. (-1) % p = p - 1
  <2> HIDE DEF p
  <2> QED BY <1>1
<1>3. Complement(p - 1, n) = 0 /\ Complement(0, n) = p - 1
  <2>1. Complement(p - 1, n) = p - 1 - (p - 1) /\ Complement(0, n) = p - 1 - 0
    BY DEF Complement
  <2> HIDE DEF p
  <2>2. QED
    BY <1>1, <2>1
<1>4. /\ BitAnd(a, p - 1) = a /\ BitAnd(b, p - 1) = b
      /\ BitAnd(a, 0) = 0 /\ BitAnd(b, 0) = 0
      /\ BitOr(a, 0) = a /\ BitOr(0, b) = b
  BY <1>1, AndOnes, ZeroWords
<1>5. CASE condition # 0
  <2>1. Mask(condition, n) = p - 1
    BY <1>2, <1>5 DEF Mask
  <2> HIDE DEF p
  <2>2. QED
    BY <1>3, <1>4, <1>5, <2>1 DEF Select
<1>6. CASE condition = 0
  <2>1. Mask(condition, n) = 0
    BY <1>6 DEF Mask
  <2> HIDE DEF p
  <2>2. QED
    BY <1>3, <1>4, <1>6, <2>1 DEF Select
<1>7. QED
  BY <1>5, <1>6

(* A word none of whose bits is one is 0.                                  *)
LEMMA NoBit ==
  \A n \in Nat : \A x \in 0..(Pow2[n] - 1) :
    (\A k \in 0..(n - 1) : (x \div Pow2[k]) % 2 = 0) => x = 0
<1> DEFINE Dark(x, n) == \A k \in 0..(n - 1) : (x \div Pow2[k]) % 2 = 0
           T == {n \in Nat : \A x \in 0..(Pow2[n] - 1) : Dark(x, n) => x = 0}
<1>1. 0 \in T
  BY Pow2Facts
<1>2. ASSUME NEW n \in Nat, n \in T PROVE n + 1 \in T
  <2> DEFINE p == Pow2[n]
  <2>1. p \in Nat \ {0} /\ Pow2[n + 1] = 2 * p
    BY Pow2Facts
  <2>2. ASSUME NEW x \in 0..(2 * p - 1), Dark(x, n + 1) PROVE x = 0
    <3>1. (x \div p) % 2 = 0 /\ Dark(x, n)
      BY <2>2
    <3>2. x < p
      <4> DEFINE q == x \div p
                 r == x % p
      <4>1. x \in Nat
        BY <2>1
      <4>2. q \in Nat /\ r \in 0..(p - 1) /\ x = q * p + r
        BY <2>1, <4>1, Division
      <4>3. q % 2 = 0
        BY <3>1
      <4> HIDE DEF q, r, p
      <4>4. ~(2 <= q)
        <5> SUFFICES ASSUME 2 <= q PROVE FALSE
          OBVIOUS
        <5>1. 2 * p <= q * p
          BY <2>1, <4>2, Multiples
        <5>2. q * p \in Nat
          BY <2>1, <4>2
        <5>3. QED
          BY <2>1, <2>2, <4>2, <5>1, <5>2
      <4>5. q = 0
        BY <4>2, <4>3, <4>4
      <4>6. QED
        BY <2>1, <4>2, <4>5
    <3>3. QED
      BY <1>2, <2>1, <3>1, <3>2
  <2>3. QED
    BY <2>1, <2>2
<1>3. Nat \subseteq T
  <2> HIDE DEF T
  <2> QED BY <1>1, <1>2, SetInduction
<1>4. QED
  BY <1>3

LEMMA ByteWidth == Pow2[8] = 256
BY Pow2Equation

LEMMA BytesClosed ==
  ASSUME NEW x \in 0..255, NEW y \in 0..255
  PROVE  BitOr(x, y) \in 0..255 /\ BitXor(x, y) \in 0..255
<1> DEFINE n == 8
<1>1. n \in Nat /\ 0..(Pow2[n] - 1) = 0..255
  BY ByteWidth
<1> HIDE DEF n
<1>2. QED
  BY <1>1, WordsClosed, Zenon

LEMMA SelectByte ==
  ASSUME NEW condition, NEW a \in 0..255, NEW b \in 0..255
  PROVE  Select(Mask(condition, 8), a, b, 8) = IF condition # 0 THEN b ELSE a
<1> DEFINE n == 8
<1>1. n \in Nat /\ 0..(Pow2[n] - 1) = 0..255
  BY ByteWidth
<1> HIDE DEF n
<1>2. Select(Mask(condition, n), a, b, n) = IF condition # 0 THEN b ELSE a
  BY <1>1, SelectIs, Zenon
<1>3. QED
  BY <1>2 DEF n

LEMMA AnyBitIs ==
  ASSUME NEW x \in 0..255
  PROVE  AnyBit(x) = IF x = 0 THEN 0 ELSE 1
<1>1. ASSUME x # 0 PROVE \E n \in 0..7 : (x \div Pow2[n]) % 2 = 1
  <2>1. x \in 0..(Pow2[8] - 1)
    BY ByteWidth
  <2>2. PICK k \in 0..7 : (x \div Pow2[k]) % 2 # 0
    <3> DEFINE n == 8
    <3>1. n \in Nat /\ 0..(n - 1) = 0..7 /\ x \in 0..(Pow2[n] - 1)
      BY <2>1
    <3> HIDE DEF n
    <3>2. \E k \in 0..(n - 1) : (x \div Pow2[k]) % 2 # 0
      BY <1>1, <3>1, NoBit
    <3>3. QED
      BY <3>1, <3>2, Zenon
  <2>3. Pow2[k] \in Nat \ {0}
    BY Pow2Facts
  <2>4. x \div Pow2[k] \in Nat
    BY <2>3
  <2>5. QED
    BY <2>2, <2>4
<1>2. ASSUME x = 0, NEW n \in 0..7 PROVE (x \div Pow2[n]) % 2 = 0
  <2>1. Pow2[n] \in Nat \ {0}
    BY Pow2Facts
  <2>2. 0 \div Pow2[n] = 0
    BY <2>1
  <2>3. QED
    BY <1>2, <2>2
<1>3. QED
  BY <1>1, <1>2 DEF AnyBit

(* eq64: the ones of a word are folded into its lower half, then quarter,  *)
(* and so on, until its last bit tells whether there was one.              *)
LEMMA Pow2Square == \A h \in Nat : Pow2[2 * h] = Pow2[h] * Pow2[h]
<1> DEFINE T == {h \in Nat : Pow2[2 * h] = Pow2[h] * Pow2[h]}
<1>1. 0 \in T
  BY Pow2Facts
<1>2. ASSUME NEW h \in Nat, h \in T PROVE h + 1 \in T
  <2> DEFINE p == Pow2[h]
             q == Pow2[2 * h]
  <2>1. p \in Nat /\ Pow2[h + 1] = 2 * p /\ q = p * p
    BY <1>2, Pow2Facts
  <2>2. Pow2[2 * (h + 1)] = 2 * (2 * q)
    <3>1. 2 * (h + 1) = (2 * h + 1) + 1 /\ 2 * h \in Nat /\ 2 * h + 1 \in Nat
      OBVIOUS
    <3>2. Pow2[2 * h + 1] = 2 * q /\ Pow2[(2 * h + 1) + 1] = 2 * Pow2[2 * h + 1]
      BY <3>1, Pow2Equation
    <3>3. QED
      BY <3>1, <3>2
  <2> HIDE DEF p, q
  <2>3. 2 * (2 * q) = (2 * p) * (2 * p)
    BY <2>1
  <2>4. QED
    BY <2>1, <2>2, <2>3
<1>3. Nat \subseteq T
  <2> HIDE DEF T
  <2> QED BY <1>1, <1>2, SetInduction
<1>4. QED
  BY <1>3

LEMMA BothHalvesZero ==
  ASSUME NEW v \in Nat, NEW p \in Nat \ {0}
  PROVE  v % (p * p) = 0 <=> v % p = 0 /\ (v \div p) % p = 0
<1> DEFINE n == p * p
           q == v \div p
           r == v % p
           s == q \div p
           t == q % p
           w == t * p
<1>1. /\ q \in Nat /\ r \in 0..(p - 1) /\ v = q * p + r
      /\ s \in Nat /\ t \in 0..(p - 1) /\ q = s * p + t
  <2>1. q \in Nat /\ r \in 0..(p - 1) /\ v = q * p + r
    BY Division
  <2> HIDE DEF q
  <2>2. s \in Nat /\ t \in 0..(p - 1) /\ q = s * p + t
    BY <2>1, Division
  <2>3. QED
    BY <2>1, <2>2
<1>2. n \in Nat \ {0} /\ w \in Nat /\ w + p <= n
  <2>1. t \in Nat /\ t < p
    BY <1>1
  <2> HIDE DEF t
  <2>2. w \in Nat /\ w + p <= n
    BY <2>1, Multiples
  <2>3. QED
    BY <2>2
<1>3. v = s * n + (w + r)
  <2> HIDE DEF q, r, s, t
  <2>1. q * p = (s * p) * p + t * p /\ (s * p) * p = s * (p * p)
    BY <1>1
  <2>2. QED
    BY <1>1, <2>1
<1>4. w + r \in 0..(n - 1)
  <2> HIDE DEF n, q, r, s, t, w
  <2> QED BY <1>1, <1>2
<1>5. v % n = w + r
  <2> DEFINE z == w + r
  <2>1. z \in 0..(n - 1) /\ v = s * n + z
    BY <1>3, <1>4
  <2> HIDE DEF n, q, r, s, t, w, z
  <2>2. (s * n + z) % n = z
    BY <1>1, <1>2, <2>1, DivisionIs
  <2>3. v % n = z
    BY <2>1, <2>2, Zenon
  <2>4. QED
    BY <2>3 DEF z
<1>6. w = 0 <=> t = 0
  <2> HIDE DEF t
  <2>1. t = 0 => w = 0
    BY <1>1
  <2>2. t # 0 => p <= w
    <3> SUFFICES ASSUME t # 0 PROVE p <= t * p
      OBVIOUS
    <3>1. 1 * p <= t * p
      BY <1>1, Multiples
    <3>2. QED
      BY <3>1
  <2>3. QED
    BY <1>1, <2>1, <2>2
<1>7. v % n = 0 <=> r = 0 /\ t = 0
  <2> HIDE DEF n, q, r, s, t, w
  <2> QED BY <1>1, <1>2, <1>5, <1>6
<1>8. QED
  BY <1>7

LEMMA OrFolds ==
  ASSUME NEW v \in Nat, NEW h \in Nat
  PROVE  /\ BitOr(v, v \div Pow2[h]) \in Nat
         /\ BitOr(v, v \div Pow2[h]) % Pow2[h] = 0
              <=> v % Pow2[2 * h] = 0
<1> DEFINE p == Pow2[h]
           u == v \div p
           y == BitOr(v, u)
<1>1. p \in Nat \ {0} /\ Pow2[2 * h] = p * p
  BY Pow2Facts, Pow2Square
<1>2. u \in Nat /\ v % p \in Nat /\ u % p \in Nat
  <2>1. u \in Nat
    BY <1>1, Division
  <2> HIDE DEF u, p
  <2>2. QED
    BY <1>1, <2>1, Division
<1>3. y \in Nat
  BY <1>2, ZeroWords
<1>4. y % p = BitOr(v % p, u % p)
  <2>1. OrBits[v][u] % p = OrBits[v % p][u % p]
    BY <1>2, DigitsOfWords, DigitsBelow
  <2> HIDE DEF u, p
  <2>2. QED
    BY <1>2, <2>1 DEF OrBits
<1>5. y % p = 0 <=> v % p = 0 /\ u % p = 0
  <2> DEFINE c == v % p
             d == u % p
  <2>1. c \in Nat /\ d \in Nat /\ y % p = BitOr(c, d)
    BY <1>2, <1>4
  <2> HIDE DEF c, d, y
  <2>2. BitOr(c, d) = 0 <=> c = 0 /\ d = 0
    BY <2>1, ZeroWords, Zenon
  <2>3. y % p = 0 <=> c = 0 /\ d = 0
    BY <2>1, <2>2, Zenon
  <2>4. QED
    BY <2>3 DEF c, d
<1>6. v % (p * p) = 0 <=> v % p = 0 /\ u % p = 0
  BY <1>1, BothHalvesZero
<1>7. QED
  BY <1>1, <1>3, <1>5, <1>6

FoldedStep(rounds, v, k) == BitOr(v, v \div Pow2[Pow2[rounds - k]])
Folded == INSTANCE Recursion WITH Step <- FoldedStep

LEMMA FoldedLast ==
  ASSUME NEW rounds \in Nat, NEW x \in 0..(Pow2[Pow2[rounds]] - 1),
         NEW f, Folded!IsRecursion(f, rounds, x, rounds)
  PROVE  f[rounds] \in Nat /\ (f[rounds] % 2 = 0 <=> x = 0)
<1> DEFINE Says(k) == /\ f[k] \in Nat
                      /\ f[k] % Pow2[Pow2[rounds - k]] = 0 <=> x = 0
           T == {k \in Nat : k <= rounds => Says(k)}
<1>1. /\ f[0] = x
      /\ \A k \in 1..rounds : f[k] = FoldedStep(rounds, f[k - 1], k)
  BY Folded!RecursionRuns
<1>2. 0 \in T
  <2> DEFINE p == Pow2[Pow2[rounds]]
  <2>1. p \in Nat \ {0}
    BY Pow2Facts
  <2>2. x \in Nat /\ x % p = x
    <3> HIDE DEF p
    <3> QED BY <2>1 DEF p
  <2>3. rounds - 0 = rounds
    OBVIOUS
  <2>4. Says(0)
    BY <1>1, <2>2, <2>3
  <2>5. QED
    BY <2>4
<1>3. ASSUME NEW k \in Nat, k \in T PROVE k + 1 \in T
  <2> SUFFICES ASSUME k + 1 <= rounds PROVE Says(k + 1)
    OBVIOUS
  <2> DEFINE j == rounds - (k + 1)
             h == Pow2[j]
             v == f[k]
  <2>1. /\ j \in Nat /\ rounds - k = j + 1 /\ k + 1 \in 1..rounds
        /\ (k + 1) - 1 = k
    OBVIOUS
  <2>2. h \in Nat /\ Pow2[rounds - k] = 2 * h
    BY <2>1, Pow2Facts
  <2>3. v \in Nat /\ (v % Pow2[2 * h] = 0 <=> x = 0)
    BY <1>3, <2>2
  <2>4. f[k + 1] = BitOr(v, v \div Pow2[h])
    <3>1. f[k + 1] = FoldedStep(rounds, f[(k + 1) - 1], k + 1)
      BY <1>1, <2>1
    <3>2. QED
      BY <2>1, <3>1 DEF FoldedStep
  <2> HIDE DEF h, v
  <2>5. f[k + 1] \in Nat /\ (f[k + 1] % Pow2[h] = 0 <=> x = 0)
    <3> DEFINE y == BitOr(v, v \div Pow2[h])
    <3>1. y \in Nat /\ (y % Pow2[h] = 0 <=> v % Pow2[2 * h] = 0)
      BY <2>2, <2>3, OrFolds
    <3>2. f[k + 1] = y
      BY <2>4
    <3> HIDE DEF y
    <3>3. QED
      BY <2>3, <3>1, <3>2
  <2>6. QED
    BY <2>5 DEF h
<1>4. Nat \subseteq T
  <2> HIDE DEF T
  <2> QED BY <1>2, <1>3, SetInduction
<1>5. Says(rounds)
  BY <1>4
<1>6. rounds - rounds = 0 /\ Pow2[Pow2[0]] = 2
  <2>1. Pow2[0] = 1 /\ Pow2[0 + 1] = 2 * Pow2[0]
    BY Pow2Equation
  <2>2. 0 + 1 = 1 /\ 2 * 1 = 2
    OBVIOUS
  <2>3. QED
    BY <2>1, <2>2
<1>7. QED
  BY <1>5, <1>6

LEMMA Eq64Is ==
  ASSUME NEW a \in WordValues, NEW b \in WordValues
  PROVE  Eq64(a, b) = IF a = b THEN 1 ELSE 0
<1> DEFINE rounds == CHOOSE k \in 0..Bits : Bits = Pow2[k]
           f == CHOOSE g : g =
                  [k \in 0..rounds |->
                     IF k = 0 THEN BitXor(a, b)
                     ELSE BitOr(g[k - 1],
                                g[k - 1] \div Pow2[Pow2[rounds - k]])]
           x == BitXor(a, b)
<1>1. rounds \in 0..Bits /\ Bits = Pow2[rounds]
  BY WidthAssumption
<1>2. Eq64(a, b) = 1 - (f[rounds] % 2)
  BY DEF Eq64
<1>3. Folded!IsRecursion(f, rounds, x, rounds)
  <2> HIDE DEF rounds
  <2> QED BY DEF Folded!IsRecursion, FoldedStep
<1> HIDE DEF f, rounds
<1>4. rounds \in Nat /\ Bits \in Nat
  <2>1. rounds \in Nat
    BY <1>1
  <2>2. QED
    BY <1>1, <2>1, Pow2Facts
<1>5. x \in 0..(Pow2[Pow2[rounds]] - 1)
  BY <1>1, <1>4, WordsClosed DEF WordValues
<1>6. x = 0 <=> a = b
  <2>1. a \in Nat /\ b \in Nat
    BY <1>4, Pow2Facts DEF WordValues
  <2>2. QED
    BY <2>1, ZeroWords
<1> HIDE DEF x
<1>7. f[rounds] \in Nat /\ (f[rounds] % 2 = 0 <=> a = b)
  BY <1>3, <1>4, <1>5, <1>6, FoldedLast
<1>8. QED
  BY <1>2, <1>7

(* lt64: the borrow of the highest bit.                                    *)
LEMMA Wraps ==
  ASSUME NEW n \in Nat \ {0}, NEW a \in 0..(n - 1), NEW b \in 0..(n - 1)
  PROVE  (a - b) % n = IF a < b THEN a - b + n ELSE a - b
OBVIOUS

LEMMA BitTable ==
  /\ BitOr(0, 0) = 0 /\ BitOr(0, 1) = 1 /\ BitOr(1, 0) = 1 /\ BitOr(1, 1) = 1
  /\ BitXor(0, 0) = 0 /\ BitXor(0, 1) = 1
  /\ BitXor(1, 0) = 1 /\ BitXor(1, 1) = 0
<1>1. BitAnd(0, 0) = 0 /\ BitAnd(0, 1) = 0 /\ BitAnd(1, 0) = 0 /\ BitAnd(1, 1) = 1
  BY ZeroWords, AndEquation, AndSelf
<1>2. QED
  BY <1>1 DEF BitOr, BitXor

LEMMA HighBit ==
  ASSUME NEW x \in Nat, NEW y \in Nat, NEW n \in Nat
  PROVE  /\ BitOr(x, y) \div Pow2[n] = BitOr(x \div Pow2[n], y \div Pow2[n])
         /\ BitXor(x, y) \div Pow2[n] = BitXor(x \div Pow2[n], y \div Pow2[n])
<1>1. x \div Pow2[n] \in Nat /\ y \div Pow2[n] \in Nat
  <2>1. Pow2[n] \in Nat \ {0}
    BY Pow2Facts
  <2>2. QED
    BY <2>1, Division
<1>2. /\ OrBits[x][y] \div Pow2[n] = OrBits[x \div Pow2[n]][y \div Pow2[n]]
      /\ XorBits[x][y] \div Pow2[n] = XorBits[x \div Pow2[n]][y \div Pow2[n]]
  BY DigitsOfWords, DigitsAbove
<1>3. QED
  BY <1>1, <1>2 DEF OrBits, XorBits

LEMMA Lt64Is ==
  ASSUME NEW a \in WordValues, NEW b \in WordValues
  PROVE  Lt64(a, b) = IF a < b THEN 1 ELSE 0
<1> DEFINE k == Bits - 1
           h == Pow2[k]
           s == (a - b) % Pow2[Bits]
           diff_ == BitXor(a, b)
           u == BitXor(s, b)
           v == BitOr(diff_, u)
           w == BitXor(a, v)
           A == a \div h
           B == b \div h
           S == s \div h
<1>1. Bits \in Nat \ {0}
  BY WidthAssumption, Pow2Facts
<1>2. k \in Nat /\ h \in Nat \ {0} /\ Pow2[Bits] = 2 * h
  <2>1. k \in Nat /\ k + 1 = Bits
    BY <1>1
  <2>2. QED
    BY <2>1, Pow2Facts
<1> HIDE DEF k, h
<1>3. /\ a \in 0..(2 * h - 1) /\ b \in 0..(2 * h - 1)
      /\ s = IF a < b THEN a - b + 2 * h ELSE a - b
  <2>1. a \in 0..(2 * h - 1) /\ b \in 0..(2 * h - 1) /\ 2 * h \in Nat \ {0}
    BY <1>2 DEF WordValues
  <2>2. (a - b) % (2 * h) = IF a < b THEN a - b + 2 * h ELSE a - b
    <3> DEFINE n == 2 * h
    <3> HIDE DEF n
    <3>1. (a - b) % n = IF a < b THEN a - b + n ELSE a - b
      BY <2>1, Wraps DEF n
    <3>2. QED
      BY <3>1 DEF n
  <2>3. QED
    BY <1>2, <2>1, <2>2
<1> HIDE DEF s
<1>4. s \in 0..(2 * h - 1)
  BY <1>2, <1>3
<1>5. ASSUME NEW x \in 0..(2 * h - 1)
      PROVE  x \in Nat /\ x \div h = IF x < h THEN 0 ELSE 1
  <2>1. x \in Nat
    BY <1>2
  <2>2. CASE x < h
    <3>1. 0 * h + x = x /\ x \in 0..(h - 1)
      BY <1>2, <2>1, <2>2
    <3>2. QED
      BY <1>2, <2>1, <2>2, <3>1, DivisionIs
  <2>3. CASE ~(x < h)
    <3>1. 1 * h + (x - h) = x /\ x - h \in 0..(h - 1)
      BY <1>2, <2>1, <2>3
    <3>2. QED
      BY <1>2, <2>1, <2>3, <3>1, DivisionIs
  <2>4. QED
    BY <2>2, <2>3
<1>6. /\ a \in Nat /\ b \in Nat /\ s \in Nat
      /\ A = (IF a < h THEN 0 ELSE 1) /\ B = (IF b < h THEN 0 ELSE 1)
      /\ S = (IF s < h THEN 0 ELSE 1)
  BY <1>3, <1>4, <1>5
<1>7. diff_ \in Nat /\ u \in Nat /\ v \in Nat /\ w \in Nat
  <2>1. diff_ \in Nat /\ u \in Nat
    BY <1>6, ZeroWords
  <2> HIDE DEF diff_, u
  <2>2. v \in Nat
    BY <2>1, ZeroWords
  <2> HIDE DEF v
  <2>3. QED
    BY <1>6, <2>1, <2>2, ZeroWords
<1>8. w \div h = BitXor(A, BitOr(BitXor(A, B), BitXor(S, B)))
  <2>1. diff_ \div h = BitXor(A, B) /\ u \div h = BitXor(S, B)
    BY <1>2, <1>6, HighBit DEF h
  <2>2. v \div h = BitOr(diff_ \div h, u \div h)
    BY <1>2, <1>7, HighBit DEF h
  <2>3. w \div h = BitXor(A, v \div h)
    BY <1>2, <1>6, <1>7, HighBit DEF h
  <2> HIDE DEF diff_, u, v, w, A, B, S
  <2>4. QED
    BY <2>1, <2>2, <2>3
<1>9. Lt64(a, b) = (w \div h) % 2
  BY DEF Lt64, s, h, k
<1> HIDE DEF diff_, u, v, w, A, B, S
<1>10. /\ A \in {0, 1} /\ B \in {0, 1} /\ S \in {0, 1}
       /\ a < b <=> (A = 0 /\ B = 1) \/ (A = B /\ S = 1)
  BY <1>2, <1>3, <1>6
<1>11. BitXor(A, BitOr(BitXor(A, B), BitXor(S, B))) = IF a < b THEN 1 ELSE 0
  <2>1. CASE A = 0 /\ B = 0
    BY <1>10, <2>1, BitTable
  <2>2. CASE A = 0 /\ B = 1
    BY <1>10, <2>2, BitTable
  <2>3. CASE A = 1 /\ B = 0
    BY <1>10, <2>3, BitTable
  <2>4. CASE A = 1 /\ B = 1
    BY <1>10, <2>4, BitTable
  <2>5. QED
    BY <1>10, <2>1, <2>2, <2>3, <2>4
<1>12. QED
  BY <1>8, <1>9, <1>11

-----------------------------------------------------------------------------
(* The functions on memory, byte by byte.                                  *)
Calls == MemoryCalls \cup WordCalls

(* n bytes are compared with, cleared or copied from n others.             *)
BytesOf(c, n) ==
  /\ n \in Nat /\ Len(c.a) = n
  /\ c.a = [k \in 1..n |-> c.a[k]] /\ c.b = [k \in 1..n |-> c.b[k]]
  /\ \A k \in 1..n : c.a[k] \in 0..255 /\ c.b[k] \in 0..255

LEMMA MemoryFacts ==
  ASSUME NEW c \in Calls, c.fn \in MemoryFns
  PROVE  BytesOf(c, Len(c.a))
<1>1. c \notin WordCalls
  BY DEF WordCalls, MemoryFns
<1>2. PICK n \in 0..MaxBytes :
        c.a \in [1..n -> ByteValues] /\ c.b \in [1..n -> ByteValues]
  BY <1>1 DEF Calls, MemoryCalls
<1>3. n \in Nat
  BY <1>2, BytesAssumption
<1>4. Len(c.a) = n
  BY <1>2, <1>3, LenProperties
<1>5. \A k \in 1..n : c.a[k] \in 0..255 /\ c.b[k] \in 0..255
  BY <1>2, BytesAssumption
<1>6. QED
  BY <1>2, <1>3, <1>4, <1>5 DEF BytesOf

LEMMA WordFacts ==
  ASSUME NEW c \in Calls, c.fn \notin MemoryFns
  PROVE  \/ /\ c.fn \in {"eq64", "lt64", "select64"}
            /\ c.a \in WordValues /\ c.b \in WordValues
         \/ /\ c.fn = "select8"
            /\ c.a \in 0..255 /\ c.b \in 0..255
<1>1. c \in WordCalls
  BY DEF Calls, MemoryCalls
<1>2. QED
  BY <1>1, BytesAssumption DEF WordCalls

(* What a function on memory has done with the first i bytes.              *)
Compared(c, k, d) ==
  d \in 0..255 /\ (d = 0 <=> \A j \in 1..k : c.a[j] = c.b[j])
Cleared(c, k, m) ==
  m = [j \in 1..Len(c.a) |-> IF j <= k THEN 0 ELSE c.a[j]]
Copied(c, k, m) ==
  m = [j \in 1..Len(c.a) |->
         IF j <= k /\ c.condition # 0 THEN c.b[j] ELSE c.a[j]]

Progress ==
  call.fn \in MemoryFns =>
    /\ i \in 0..Len(call.a)
    /\ call.fn = "memcmp"    => Compared(call, i, diff)
    /\ call.fn = "memzero"   => Cleared(call, i, mem)
    /\ call.fn = "memcpy_if" => Copied(call, i, mem)

UtilityIInv ==
  call \in Calls /\ Progress /\ (ret # Pending => CtAgrees)

LEMMA UtilityStarts == UtilityInit => UtilityIInv
<1> SUFFICES ASSUME NEW c \in Calls, UtilityStart(c) PROVE UtilityIInv
  BY DEF UtilityInit, Calls
<1>1. call = c /\ i = 0 /\ diff = 0 /\ ret = Pending
      /\ (c.fn \in MemoryFns => mem = c.a)
  BY DEF UtilityStart
<1>2. ASSUME c.fn \in MemoryFns
      PROVE  /\ 0 \in 0..Len(c.a) /\ Compared(c, 0, 0)
             /\ Cleared(c, 0, c.a) /\ Copied(c, 0, c.a)
  <2> DEFINE n == Len(c.a)
  <2>1. n \in Nat /\ c.a = [k \in 1..n |-> c.a[k]]
    BY <1>2, MemoryFacts DEF BytesOf
  <2> HIDE DEF n
  <2>2. \A j \in 1..n : ~(j <= 0)
    BY <2>1
  <2>3. c.a = [j \in 1..n |-> IF j <= 0 THEN 0 ELSE c.a[j]]
    BY <2>1, <2>2
  <2>4. c.a = [j \in 1..n |-> IF j <= 0 /\ c.condition # 0 THEN c.b[j]
                              ELSE c.a[j]]
    BY <2>1, <2>2
  <2>5. Compared(c, 0, 0) /\ 0 \in 0..n
    BY <2>1 DEF Compared
  <2>6. QED
    BY <2>3, <2>4, <2>5 DEF Cleared, Copied, n
<1>3. Progress
  BY <1>1, <1>2 DEF Progress
<1>4. QED
  BY <1>1, <1>3 DEF UtilityIInv

LEMMA MemcmpKeeps ==
  ASSUME UtilityIInv, MemcmpByte PROVE UtilityIInv'
<1> DEFINE n == Len(call.a)
           x == call.a[i + 1]
           y == call.b[i + 1]
<1>1. /\ ret = Pending /\ ret' = Pending /\ call' = call /\ i' = i + 1
      /\ call.fn = "memcmp" /\ call.fn \in MemoryFns /\ i < n /\ call \in Calls
      /\ i \in 0..n /\ Compared(call, i, diff)
      /\ diff' = BitOr(diff, BitXor(x, y))
  BY DEF MemcmpByte, Going, UtilityIInv, Progress, MemoryFns
<1>2. n \in Nat /\ \A k \in 1..n : call.a[k] \in 0..255 /\ call.b[k] \in 0..255
  BY <1>1, MemoryFacts DEF BytesOf
<1>3. i \in Nat /\ i + 1 \in 1..n /\ i + 1 \in 0..n
  <2> HIDE DEF n
  <2> QED BY <1>1, <1>2
<1>4. x \in 0..255 /\ y \in 0..255 /\ diff \in 0..255
  BY <1>1, <1>2, <1>3, Zenon DEF Compared
<1>5. BitXor(x, y) \in 0..255 /\ BitOr(diff, BitXor(x, y)) \in 0..255
  BY <1>4, BytesClosed, Zenon
<1>6. diff' = 0 <=> diff = 0 /\ x = y
  <2> DEFINE z == BitXor(x, y)
  <2> HIDE DEF x, y
  <2>1. z \in Nat /\ (z = 0 <=> x = y) /\ diff \in Nat
    <3>1. x \in Nat /\ y \in Nat /\ diff \in Nat
      BY <1>4
    <3>2. QED
      BY <3>1, ZeroWords, Zenon
  <2> HIDE DEF z
  <2>2. BitOr(diff, z) = 0 <=> diff = 0 /\ z = 0
    BY <2>1, ZeroWords, Zenon
  <2>3. diff' = BitOr(diff, z)
    BY <1>1 DEF z
  <2>4. QED
    BY <2>1, <2>2, <2>3, Zenon
<1>7. (\A j \in 1..(i + 1) : call.a[j] = call.b[j])
        <=> (\A j \in 1..i : call.a[j] = call.b[j]) /\ x = y
  <2>1. \A j \in 1..(i + 1) : j \in 1..i \/ j = i + 1
    BY <1>3
  <2>2. i + 1 \in 1..(i + 1) /\ \A j \in 1..i : j \in 1..(i + 1)
    BY <1>3
  <2>3. QED
    BY <2>1, <2>2, Zenon
<1>8. Compared(call, i + 1, diff')
  <2>1. diff = 0 <=> \A j \in 1..i : call.a[j] = call.b[j]
    BY <1>1 DEF Compared
  <2>2. diff' \in 0..255
    BY <1>1, <1>5
  <2>3. QED
    BY <1>6, <1>7, <2>1, <2>2, Zenon DEF Compared
<1>9. Progress'
  BY <1>1, <1>3, <1>8 DEF Progress
<1>10. QED
  BY <1>1, <1>9 DEF UtilityIInv, Pending

LEMMA MemzeroKeeps ==
  ASSUME UtilityIInv, MemzeroByte PROVE UtilityIInv'
<1> DEFINE n == Len(call.a)
<1>1. /\ ret = Pending /\ ret' = Pending /\ call' = call /\ i' = i + 1
      /\ call.fn = "memzero" /\ call.fn \in MemoryFns /\ i < n /\ call \in Calls
      /\ i \in 0..n /\ Cleared(call, i, mem)
      /\ mem' = [mem EXCEPT ![i + 1] = 0]
  BY DEF MemzeroByte, Going, UtilityIInv, Progress, MemoryFns
<1>2. n \in Nat
  BY <1>1, MemoryFacts DEF BytesOf
<1>3. mem = [j \in 1..n |-> IF j <= i THEN 0 ELSE call.a[j]]
  BY <1>1 DEF Cleared
<1> HIDE DEF n
<1>4. i \in Nat /\ i + 1 \in 1..n /\ i + 1 \in 0..n
  BY <1>1, <1>2
<1>5. \A j \in 1..n : (j <= i + 1 <=> j <= i \/ j = i + 1)
  BY <1>4
<1>6. mem' = [j \in 1..n |-> IF j <= i + 1 THEN 0 ELSE call.a[j]]
  <2>1. mem' = [j \in 1..n |-> IF j = i + 1 THEN 0 ELSE mem[j]]
    BY <1>1, <1>3
  <2>2. \A j \in 1..n : (IF j = i + 1 THEN 0 ELSE mem[j])
                          = IF j <= i + 1 THEN 0 ELSE call.a[j]
    BY <1>3, <1>5
  <2>3. QED
    BY <2>1, <2>2
<1>7. Cleared(call, i + 1, mem')
  BY <1>6 DEF Cleared, n
<1>8. Progress'
  BY <1>1, <1>4, <1>7 DEF Progress, n
<1>9. QED
  BY <1>1, <1>8 DEF UtilityIInv, Pending

LEMMA MemcpyIfKeeps ==
  ASSUME UtilityIInv, MemcpyIfByte PROVE UtilityIInv'
<1> DEFINE n == Len(call.a)
           true == call.condition # 0
<1>1. /\ ret = Pending /\ ret' = Pending /\ call' = call /\ i' = i + 1
      /\ call.fn = "memcpy_if" /\ call.fn \in MemoryFns /\ i < n
      /\ call \in Calls /\ i \in 0..n /\ Copied(call, i, mem)
      /\ mem' = [mem EXCEPT ![i + 1] = Select(Mask(call.condition, 8),
                                         mem[i + 1], call.b[i + 1], 8)]
  BY DEF MemcpyIfByte, Going, UtilityIInv, Progress, MemoryFns
<1>2. n \in Nat /\ \A k \in 1..n : call.a[k] \in 0..255 /\ call.b[k] \in 0..255
  BY <1>1, MemoryFacts DEF BytesOf
<1>3. mem = [j \in 1..n |-> IF j <= i /\ true THEN call.b[j] ELSE call.a[j]]
  BY <1>1 DEF Copied
<1> HIDE DEF n
<1>4. i \in Nat /\ i + 1 \in 1..n /\ i + 1 \in 0..n /\ ~(i + 1 <= i)
  BY <1>1, <1>2
<1>5. Select(Mask(call.condition, 8), mem[i + 1], call.b[i + 1], 8)
        = IF true THEN call.b[i + 1] ELSE call.a[i + 1]
  <2>1. /\ mem[i + 1] = call.a[i + 1]
        /\ call.a[i + 1] \in 0..255 /\ call.b[i + 1] \in 0..255
    BY <1>2, <1>3, <1>4
  <2> DEFINE x == call.a[i + 1]
             y == call.b[i + 1]
             cond == call.condition
  <2>2. x \in 0..255 /\ y \in 0..255 /\ x = mem[i + 1]
    BY <2>1
  <2> HIDE DEF x, y, cond
  <2>3. Select(Mask(cond, 8), x, y, 8) = IF cond # 0 THEN y ELSE x
    BY <2>2, SelectByte, Zenon
  <2>4. QED
    BY <2>2, <2>3 DEF x, y, cond
<1>6. \A j \in 1..n : (j <= i + 1 <=> j <= i \/ j = i + 1)
  BY <1>4
<1>7. mem' = [j \in 1..n |->
                IF j <= i + 1 /\ true THEN call.b[j] ELSE call.a[j]]
  <2> DEFINE new == IF true THEN call.b[i + 1] ELSE call.a[i + 1]
  <2>1. mem' = [j \in 1..n |-> IF j = i + 1 THEN new ELSE mem[j]]
    BY <1>1, <1>3, <1>5
  <2>2. \A j \in 1..n : (IF j = i + 1 THEN new ELSE mem[j])
                          = IF j <= i + 1 /\ true THEN call.b[j] ELSE call.a[j]
    BY <1>3, <1>6
  <2> HIDE DEF new
  <2>3. QED
    BY <2>1, <2>2
<1>8. Copied(call, i + 1, mem')
  BY <1>7 DEF Copied, n
<1>9. Progress'
  BY <1>1, <1>4, <1>8 DEF Progress, n
<1>10. QED
  BY <1>1, <1>9 DEF UtilityIInv, Pending

LEMMA MemoryReturnKeeps ==
  ASSUME UtilityIInv, MemoryReturn PROVE UtilityIInv'
<1> DEFINE n == Len(call.a)
<1>1. /\ call' = call /\ i' = i /\ diff' = diff /\ mem' = mem
      /\ call.fn \in MemoryFns /\ i = n /\ call \in Calls /\ Progress
      /\ ret' = IF call.fn = "memcmp" THEN AnyBit(diff) ELSE Void
  BY DEF MemoryReturn, UtilityIInv
<1>2. BytesOf(call, n)
  BY <1>1, MemoryFacts
<1>3. CASE call.fn = "memcmp"
  <2>1. ret' = IF diff = 0 THEN 0 ELSE 1
    <3>1. diff \in 0..255
      BY <1>1, <1>3 DEF Progress, Compared
    <3>2. QED
      BY <1>1, <1>3, <3>1, AnyBitIs
  <2>2. diff = 0 <=> call.a = call.b
    <3>1. diff = 0 <=> \A j \in 1..n : call.a[j] = call.b[j]
      BY <1>1, <1>3 DEF Progress, Compared
    <3>2. (\A j \in 1..n : call.a[j] = call.b[j]) => call.a = call.b
      BY <1>2 DEF BytesOf
    <3>3. QED
      BY <3>1, <3>2, Zenon
  <2>3. CtAgrees'
    BY <1>1, <1>3, <2>1, <2>2 DEF CtAgrees
  <2>4. QED
    BY <1>1, <2>3 DEF UtilityIInv, Progress
<1>4. CASE call.fn = "memzero"
  <2>1. mem = [k \in 1..n |-> 0]
    <3>1. mem = [j \in 1..n |-> IF j <= n THEN 0 ELSE call.a[j]]
      BY <1>1, <1>4 DEF Progress, Cleared
    <3>2. QED
      BY <3>1
  <2>2. CtAgrees'
    BY <1>1, <1>4, <2>1 DEF CtAgrees
  <2>3. QED
    BY <1>1, <2>2 DEF UtilityIInv, Progress
<1>5. CASE call.fn = "memcpy_if"
  <2>1. mem = IF call.condition # 0 THEN call.b ELSE call.a
    <3>1. mem = [j \in 1..n |-> IF j <= n /\ call.condition # 0 THEN call.b[j]
                                ELSE call.a[j]]
      BY <1>1, <1>5 DEF Progress, Copied
    <3>2. call.a = [j \in 1..n |-> call.a[j]] /\ call.b = [j \in 1..n |-> call.b[j]]
      BY <1>2 DEF BytesOf
    <3>3. CASE call.condition # 0
      BY <3>1, <3>2, <3>3
    <3>4. CASE call.condition = 0
      BY <3>1, <3>2, <3>4
    <3>5. QED
      BY <3>3, <3>4
  <2>2. CtAgrees'
    BY <1>1, <1>5, <2>1 DEF CtAgrees
  <2>3. QED
    BY <1>1, <2>2 DEF UtilityIInv, Progress
<1>6. QED
  BY <1>1, <1>3, <1>4, <1>5 DEF MemoryFns

LEMMA WordReturnKeeps ==
  ASSUME UtilityIInv, WordReturn PROVE UtilityIInv'
<1> DEFINE a == call.a
           b == call.b
           true == call.condition # 0
<1>1. call' = call /\ call.fn \notin MemoryFns /\ call \in Calls
  BY DEF WordReturn, UtilityIInv
<1>2. CASE call.fn \in {"eq64", "lt64", "select64"}
           /\ a \in WordValues /\ b \in WordValues
  <2>1. CASE call.fn = "eq64"
    <3>1. ret' = Eq64(a, b)
      BY <2>1 DEF WordReturn
    <3>2. ret' = IF a = b THEN 1 ELSE 0
      BY <1>2, <3>1, Eq64Is
    <3>3. QED
      BY <1>1, <2>1, <3>2 DEF CtAgrees, UtilityIInv, Progress
  <2>2. CASE call.fn = "lt64"
    <3>1. ret' = Lt64(a, b)
      BY <2>2 DEF WordReturn
    <3>2. ret' = IF a < b THEN 1 ELSE 0
      BY <1>2, <3>1, Lt64Is
    <3>3. QED
      BY <1>1, <2>2, <3>2 DEF CtAgrees, UtilityIInv, Progress
  <2>3. CASE call.fn = "select64"
    <3>1. ret' = Select(Mask(call.condition, Bits), a, b, Bits)
      BY <2>3 DEF WordReturn
    <3>2. Bits \in Nat /\ a \in 0..(Pow2[Bits] - 1) /\ b \in 0..(Pow2[Bits] - 1)
      BY <1>2, WidthAssumption, Pow2Facts DEF WordValues
    <3>3. ret' = IF true THEN b ELSE a
      BY <3>1, <3>2, SelectIs
    <3>4. QED
      BY <1>1, <2>3, <3>3 DEF CtAgrees, UtilityIInv, Progress
  <2>4. QED
    BY <1>2, <2>1, <2>2, <2>3
<1>3. CASE call.fn = "select8" /\ a \in 0..255 /\ b \in 0..255
  <2>1. ret' = Select(Mask(call.condition, 8), a, b, 8)
    BY <1>3 DEF WordReturn
  <2>2. ret' = IF true THEN b ELSE a
    <3> DEFINE cond == call.condition
    <3>1. a \in 0..255 /\ b \in 0..255
      BY <1>3
    <3> HIDE DEF a, b, cond
    <3>2. Select(Mask(cond, 8), a, b, 8) = IF cond # 0 THEN b ELSE a
      BY <3>1, SelectByte, Zenon
    <3>3. QED
      BY <2>1, <3>2 DEF a, b, cond
  <2>3. QED
    BY <1>1, <1>3, <2>2 DEF CtAgrees, UtilityIInv, Progress
<1>4. QED
  BY <1>1, <1>2, <1>3, WordFacts

LEMMA UtilityInvariant == UtilitySpec => []UtilityIInv
<1>1. UtilityIInv /\ [UtilityNext]_utilityVars => UtilityIInv'
  <2> SUFFICES ASSUME UtilityIInv, [UtilityNext]_utilityVars
               PROVE  UtilityIInv'
    OBVIOUS
  <2>1. CASE MemcmpByte
    BY <2>1, MemcmpKeeps
  <2>2. CASE MemzeroByte
    BY <2>2, MemzeroKeeps
  <2>3. CASE MemcpyIfByte
    BY <2>3, MemcpyIfKeeps
  <2>4. CASE MemoryReturn
    BY <2>4, MemoryReturnKeeps
  <2>5. CASE WordReturn
    BY <2>5, WordReturnKeeps
  <2>6. CASE UNCHANGED utilityVars
    BY <2>6 DEF utilityVars, UtilityIInv, Progress, CtAgrees
  <2>7. QED
    BY <2>1, <2>2, <2>3, <2>4, <2>5, <2>6 DEF UtilityNext
<1>2. QED
  BY <1>1, UtilityStarts, PTL DEF UtilitySpec

(* The utilities of blake4_ct.c return what the plain functions would, for *)
(* words of any width that is a power of two, for memory of any length and *)
(* for every condition.                                                    *)
THEOREM UtilitiesAgree == UtilitySpec => []CtAgrees
<1>1. UtilityIInv => CtAgrees
  BY DEF UtilityIInv, CtAgrees
<1>2. QED
  BY <1>1, UtilityInvariant, PTL
=============================================================================
