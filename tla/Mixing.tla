------------------------------- MODULE Mixing -------------------------------
(***************************************************************************)
(* blake4_compress_portable (src/blake4_dispatch.c), the compression       *)
(* function every other form has to compute: a call loads the state, takes *)
(* ten rounds of a column and a diagonal half each, and returns 16 words.  *)
(***************************************************************************)
EXTENDS MixingOps

CONSTANTS
  Inputs,   \* arguments callers pass: [cv, m, block_len, counter, flags]
  None

VARIABLES
  input,    \* the arguments of the call in progress, or of the last one
  v,        \* the state
  half,     \* half rounds done; Returned when no call is in progress
  out       \* the 16 words returned, or None

vars == <<input, v, half, out>>

Returned == 21

Start(in) ==
  /\ input' = in
  /\ v' = InitialState(in)
  /\ half' = 0
  /\ out' = None

Init == \E in \in Inputs :
  /\ input = in /\ v = InitialState(in) /\ half = 0 /\ out = None

Call == half = Returned /\ \E in \in Inputs : Start(in)

HalfRound ==
  /\ half < 20
  /\ LET s == Schedule(input.m, half \div 2)
     IN  v' = IF half % 2 = 0 THEN ColumnStep(v, s) ELSE DiagonalStep(v, s)
  /\ half' = half + 1
  /\ UNCHANGED <<input, out>>

Return ==
  /\ half = 20
  /\ out' = Output(v, input)
  /\ half' = Returned
  /\ UNCHANGED <<input, v>>

Next == Call \/ HalfRound \/ Return

Spec == Init /\ [][Next]_vars
=============================================================================
