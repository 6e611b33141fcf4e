---------------------------- MODULE CpuFeatures ----------------------------
(***************************************************************************)
(* Detection of CPU features (src/blake4_dispatch.c), whose result module  *)
(* Dispatch takes as given: what each CPUID leaf and the XCR0 register     *)
(* say, read in the order of the code, one leaf or register at a time.     *)
(***************************************************************************)
EXTENDS Integers

VARIABLES
  machine,   \* what it runs on
  step,      \* the read to come, "done", or "fault" (invalid opcode)
  os_avx,    \* the local variable
  found      \* features

detectVars == <<machine, step, os_avx, found>>

(* Register state the operating system saves: XCR0 holds one of these, as  *)
(* a processor accepts no other combination of the bits 1, 2 and 5 to 7.   *)
Avx  == {"XMM", "YMM"}
Zmm  == Avx \cup {"opmask", "ZMM_Hi256", "Hi16_ZMM"}
XCR0 == {{}, {"XMM"}, Avx, Zmm}

(* Hypervisors mask features one by one, so all combinations occur.  A     *)
(* leaf above max_leaf returns what another leaf holds: any bits.          *)
X86Machines ==
  [arch : {"x86"}, max_leaf : {0, 1, 7},
   leaf1 : SUBSET {"SSE41", "OSXSAVE", "AVX"},
   leaf7 : SUBSET {"AVX2", "AVX512F", "AVX512VL"}, xcr0 : XCR0]

(* Without Advanced SIMD: bare Linux kernels only.                         *)
ArmMachines ==
  [arch : {"arm64"}, os : {"linux", "apple", "other"}, asimd : {TRUE}]
    \cup [arch : {"arm64"}, os : {"linux"}, asimd : {FALSE}]

Machines == X86Machines \cup ArmMachines \cup [arch : {"unknown"}]

DetectInit ==
  /\ machine \in Machines
  /\ step = CASE machine.arch = "x86"   -> "leaf0"
              [] machine.arch = "arm64" -> "hwcap"
              [] OTHER                  -> "done"
  /\ os_avx = FALSE
  /\ found = {}

Leaf0 ==
  /\ step = "leaf0"
  /\ step' = IF machine.max_leaf < 1 THEN "done" ELSE "leaf1"
  /\ UNCHANGED <<machine, os_avx, found>>

AfterAvx == IF machine.max_leaf >= 7 /\ os_avx' THEN "leaf7" ELSE "done"

Leaf1 ==
  /\ step = "leaf1"
  /\ found' = found \cup (machine.leaf1 \cap {"SSE41"})
  /\ UNCHANGED <<machine, os_avx>>
  /\ step' = IF {"OSXSAVE", "AVX"} \subseteq machine.leaf1
             THEN "xgetbv" ELSE AfterAvx

(* XGETBV is an invalid opcode unless the operating system has enabled it. *)
Xgetbv ==
  /\ step = "xgetbv"
  /\ IF "OSXSAVE" \notin machine.leaf1
     THEN step' = "fault" /\ UNCHANGED <<os_avx, found>>
     ELSE /\ os_avx' = (Avx \subseteq machine.xcr0)
          /\ found' = found \cup (IF os_avx' THEN {"AVX"} ELSE {})
          /\ step' = AfterAvx
  /\ UNCHANGED machine

(* Faulty variant: state saved for AVX is taken to be enough for AVX-512.  *)
OsAvx512Half == Avx \subseteq machine.xcr0

OsAvx512 == Zmm \subseteq machine.xcr0

Leaf7 ==
  /\ step = "leaf7"
  /\ found' = found \cup (machine.leaf7 \cap {"AVX2"})
                    \cup (IF OsAvx512 /\ "AVX512F" \in machine.leaf7
                          THEN machine.leaf7 \cap {"AVX512F", "AVX512VL"}
                          ELSE {})
  /\ step' = "done"
  /\ UNCHANGED <<machine, os_avx>>

Hwcap ==
  /\ step = "hwcap"
  /\ found' = IF machine.os = "linux" /\ ~machine.asimd THEN {} ELSE {"NEON"}
  /\ step' = "done"
  /\ UNCHANGED <<machine, os_avx>>

DetectNext == Leaf0 \/ Leaf1 \/ Xgetbv \/ Leaf7 \/ Hwcap

DetectSpec == DetectInit /\ [][DetectNext]_detectVars

-----------------------------------------------------------------------------
(* Whether the processor has a feature, in a leaf that exists ...          *)
Has(feature) ==
  CASE feature \in {"SSE41", "AVX"} ->
         machine.max_leaf >= 1 /\ feature \in machine.leaf1
    [] OTHER -> machine.max_leaf >= 7 /\ feature \in machine.leaf7

(* ... and what else its instructions need: other features, and registers  *)
(* that survive a context switch.                                          *)
Rests   == [SSE41 |-> {}, AVX |-> {}, AVX2 |-> {"AVX"}, AVX512F |-> {"AVX"},
            AVX512VL |-> {"AVX", "AVX512F"}]
Saved   == [SSE41 |-> {}, AVX |-> Avx, AVX2 |-> Avx, AVX512F |-> Zmm,
            AVX512VL |-> Zmm]

Saves(registers) ==
  registers # {} =>
    /\ machine.max_leaf >= 1 /\ "OSXSAVE" \in machine.leaf1
    /\ registers \subseteq machine.xcr0

Offered ==
  CASE machine.arch = "x86" ->
         {f \in DOMAIN Rests : /\ \A g \in Rests[f] \cup {f} : Has(g)
                               /\ Saves(Saved[f])}
    [] machine.arch = "arm64" -> IF machine.asimd THEN {"NEON"} ELSE {}
    [] OTHER -> {}

(* On any machine, whatever its hypervisor masks and whatever state its    *)
(* operating system saves, detection ends without a fault with exactly the *)
(* features that can be used: one too many and a hash executes an invalid  *)
(* opcode, or loses half its registers in a context switch.                *)
DetectionExact == step # "fault" /\ (step = "done" => found = Offered)
=============================================================================
