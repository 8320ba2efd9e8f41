------------------------------ MODULE FreqTrim ------------------------------
(***************************************************************************)
(* PRCI_set_hfrosctrim_for_f_cpu of fe300prci_driver.c: the search for the *)
(* trim of the HFROSC with which the PLL, which multiplies it by 16, comes *)
(* over, under or close to a frequency.  The switching itself is           *)
(* PrciClocks, the measurement CpuFreq: here a measurement is any number   *)
(* within MeasureError of the truth.                                       *)
(***************************************************************************)
EXTENDS Integers

CONSTANTS
  MaxTrim,       \* 0x1F
  RoscFreq,      \* frequency of the HFROSC, divided, for each trim
  MeasureError,
  TrimCalls      \* calls: [f_cpu, target]

Trims   == 0 .. MaxTrim
Targets == {"OVERSHOOT", "CLOSEST", "UNDERSHOOT"}

\* A higher trim does not make the oscillator slower.
ASSUME TrimAssumption ==
  /\ MaxTrim \in Nat \ {0}
  /\ RoscFreq \in [Trims -> Nat]
  /\ \A t, u \in Trims : t <= u => RoscFreq[t] <= RoscFreq[u]
  /\ MeasureError \in Nat
  /\ TrimCalls \subseteq [f_cpu : Nat, target : Targets]

VARIABLES
  request,               \* the running call
  step,                  \* "idle", "search", "done"
  hfrosctrim, cpu_freq,  \* the trim and what was measured with it
  prev_trim, prev_freq,  \* those of the step before
  trim                   \* the trim field of HFROSCCFG

trimVars == <<request, step, hfrosctrim, cpu_freq, prev_trim, prev_freq, trim>>

TrimInit ==
  /\ request \in TrimCalls
  /\ step = "idle"
  /\ hfrosctrim = 0 /\ cpu_freq = 0 /\ prev_trim = 0 /\ prev_freq = 0
  /\ trim \in Trims

Desired == request.f_cpu \div 16

\* Run off the HFROSC with trim t and measure.
Try(t) ==
  /\ trim' = t
  /\ hfrosctrim' = t
  /\ cpu_freq' \in { f \in RoscFreq[t] - MeasureError .. RoscFreq[t] + MeasureError : f >= 0 }

\* A first measurement, made for the instruction cache, is ignored.
BeginTrim(c) ==
  /\ step \in {"idle", "done"}
  /\ request' = c
  /\ Try(0)
  /\ prev_trim' = 0
  /\ prev_freq' = cpu_freq'
  /\ step' = "search"

\* Mutant: the previous trim is not remembered.
NextTrim_KeepsPrevious ==
  /\ step = "search"
  /\ cpu_freq < Desired /\ hfrosctrim < MaxTrim
  /\ prev_freq' = cpu_freq
  /\ Try(hfrosctrim + 1)
  /\ UNCHANGED <<request, step, prev_trim>>

NextTrim ==
  /\ step = "search"
  /\ cpu_freq < Desired /\ hfrosctrim < MaxTrim
  /\ prev_trim' = hfrosctrim
  /\ prev_freq' = cpu_freq
  /\ Try(hfrosctrim + 1)
  /\ UNCHANGED <<request, step>>

\* Out of reach, too low or too high, the code takes prev_trim: at the high
\* end that is not the highest trim.
Chosen ==
  IF \/ prev_freq > Desired
     \/ cpu_freq < Desired
     \/ request.target = "UNDERSHOOT"
     \/ request.target = "CLOSEST" /\ Desired - prev_freq < cpu_freq - Desired
    THEN prev_trim
    ELSE hfrosctrim

\* PRCI_use_pll with the trim chosen.
EndTrim ==
  /\ step = "search"
  /\ ~(cpu_freq < Desired /\ hfrosctrim < MaxTrim)
  /\ trim' = Chosen
  /\ step' = "done"
  /\ UNCHANGED <<request, hfrosctrim, cpu_freq, prev_trim, prev_freq>>

TrimNext ==
  \/ \E c \in TrimCalls : BeginTrim(c)
  \/ NextTrim
  \/ EndTrim

TrimSpec == TrimInit /\ [][TrimNext]_trimVars

-----------------------------------------------------------------------------
(***************************************************************************)
(* Properties                                                              *)
(***************************************************************************)

Distance(t) ==
  IF RoscFreq[t] >= Desired THEN RoscFreq[t] - Desired ELSE Desired - RoscFreq[t]

\* A frequency within reach is met the way the caller asked, but for what
\* the measurement may be off; out of reach, the search ends at the low end,
\* or at most one trim from the high end.
TrimAsAsked ==
  step = "done" =>
    /\ RoscFreq[0] + MeasureError < Desired /\ Desired + MeasureError <= RoscFreq[MaxTrim] =>
         CASE request.target = "UNDERSHOOT" ->
                /\ RoscFreq[trim] < Desired + MeasureError
                /\ trim < MaxTrim /\ RoscFreq[trim + 1] + MeasureError >= Desired
           [] request.target = "OVERSHOOT" ->
                /\ RoscFreq[trim] + MeasureError >= Desired
                /\ trim > 0 /\ RoscFreq[trim - 1] < Desired + MeasureError
           [] request.target = "CLOSEST" ->
                \A t \in Trims : Distance(trim) <= Distance(t) + 2 * MeasureError
    /\ Desired + MeasureError < RoscFreq[0] => trim = 0
    /\ RoscFreq[MaxTrim] + MeasureError < Desired => trim >= MaxTrim - 1
=============================================================================
