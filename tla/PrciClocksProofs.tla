-------------------------- MODULE PrciClocksProofs --------------------------
(***************************************************************************)
(* Proofs about PrciClocks: for every set of calls, every RTC period and   *)
(* every modulus of mtime.                                                 *)
(***************************************************************************)
EXTENDS PrciClocks, TLAPS

\* use_pll has not switched to the PLL yet.
PllLabels ==
  { "pll_begin", "byp_cfg", "byp_div", "spi_div", "pll_div", "pll_cfg",
    "unbypass", "sample", "wait", "lock", "sel" }

RoscLabels == {"rosc_cfg", "rosc_rdy", "rosc_sel"}

\* use_pll has written PLLDIV.
DividerLabels == {"pll_cfg", "unbypass", "sample", "wait", "lock", "sel", "rosc_off"}

PllFns == {"use_pll", "use_hfxosc"}

HfroscRuns == hfrosc.en /\ hfrosc.rdy

\* Which oscillator is known to run at which label.
SourceInv ==
  /\ ~pll.sel => HfroscRuns
  /\ pll.sel /\ pll.refsel = 0 => HfroscRuns
  /\ pc = "rosc_rdy" => hfrosc.en
  /\ pc = "rosc_sel" => HfroscRuns
  /\ pc = "rosc_off" => pll.sel /\ pll.refsel = 1

\* How far use_pll has got with the PLL at each of its labels.
ProgressInv ==
  /\ pc \in PllLabels => ~pll.sel
  /\ pc \in RoscLabels /\ ret = "pll_div" => ~pll.sel
  /\ pc \in PllLabels \cup {"pll_check"} => call.fn \in PllFns
  /\ pc \in RoscLabels /\ ret # "idle" => call.fn \in PllFns
  /\ pc \in RoscLabels /\ ret = "pll_div" => ~call.bypass
  /\ pc \in RoscLabels /\ ret = "idle" => call.fn \notin PllFns
  /\ pc \in {"lfrosc_off"} => call.fn = "use_default_clocks" /\ ret = "idle"
  /\ pc \in RoscLabels /\ call.fn = "use_default_clocks" => ~lfrosc
  /\ pc \in {"spi_div", "pll_div", "pll_cfg", "unbypass", "sample", "wait", "lock"} => ~call.bypass
  /\ pc \in {"byp_cfg", "byp_div"} => call.bypass
  /\ pc \in {"byp_div", "unbypass", "sample", "wait", "lock", "sel", "rosc_off"}
       => pll.refsel = call.refsel
  /\ pc \in {"byp_div", "unbypass"} => pll.bypass
  /\ pc \in {"sample", "wait", "lock"} => ~pll.bypass
  /\ pc \in {"sel", "rosc_off"} => pll.bypass = call.bypass
  /\ pc = "rosc_off" => pll.sel /\ call.fn \in PllFns
  /\ pc \in DividerLabels /\ call.driver = "prci" /\ ~call.bypass
       => pll.finaldiv = call.finaldiv

\* While use_pll waits, the ticks it has seen are covered by time that has
\* passed, but for the part of a period before the first read of mtime.
WaitInv ==
  /\ pc = "wait" /\ age <= 3 * Period =>
       /\ Elapsed \in 0 .. 3
       /\ Elapsed = 1 => Period + phase <= age + Period - 1
       /\ Elapsed = 2 => 2 * Period + phase <= age + Period - 1
       /\ Elapsed = 3 => 3 * Period + phase <= age + Period - 1
  /\ pc = "lock" => age > 3 * Period
  /\ pc \in {"sel", "rosc_off"} /\ ~pll.bypass => age > 3 * Period

IInv ==
  /\ TypeOK
  /\ SourceInv
  /\ ProgressInv
  /\ WaitInv
  /\ FourTicksWaited

-----------------------------------------------------------------------------

\* At reset the CPU runs off the HFROSC.
LEMMA InitIInv == Init => IInv
<1> SUFFICES ASSUME Init PROVE IInv
  OBVIOUS
<1>1. TypeOK
  <2>1. pll \in [sel : BOOLEAN, refsel : {0, 1}, bypass : BOOLEAN, finaldiv : Nat \ {0}]
    BY DEF Init
  <2>2. hfrosc \in [en : BOOLEAN, rdy : BOOLEAN]
    BY DEF Init
  <2>3. mtime \in 0 .. MTimeMod - 1 /\ phase \in 0 .. Period - 1 /\ now \in 0 .. MTimeMod - 1
    BY ClockAssumption DEF Init
  <2>4. age \in 0 .. AgeBound
    BY ClockAssumption DEF Init
  <2> QED
    BY <2>1, <2>2, <2>3, <2>4, ClockAssumption DEF Init, TypeOK, Labels
<1>2. pll.sel = FALSE /\ pc = "idle" /\ hfrosc.en = TRUE /\ hfrosc.rdy = TRUE
  BY DEF Init
<1>3. SourceInv
  BY <1>2 DEF Init, SourceInv, HfroscRuns
<1>4. ProgressInv
  BY <1>2 DEF ProgressInv, PllLabels, RoscLabels, DividerLabels
<1>5. WaitInv /\ FourTicksWaited
  BY <1>2 DEF WaitInv, FourTicksWaited
<1> QED
  BY <1>1, <1>3, <1>4, <1>5 DEF IInv

\* The ticks since the sample, a word.
LEMMA ElapsedNat == TypeOK => Elapsed \in 0 .. MTimeMod - 1
BY ClockAssumption DEF TypeOK, Elapsed

\* Time passes: the only step in which the waiting loop's bookkeeping moves.
LEMMA TickStep == IInv /\ Tick => IInv'
<1> SUFFICES ASSUME IInv, Tick PROVE IInv'
  OBVIOUS
<1> USE ClockAssumption DEF IInv
<1>1. TypeOK'
  BY DEF Tick, TypeOK, ctl
<1>2. SourceInv' /\ ProgressInv'
  BY DEF Tick, SourceInv, ProgressInv, HfroscRuns, ctl
<1>3. age \in Nat /\ age' \in Nat /\ age' >= age /\ (~pll.bypass /\ age' <= 3 * Period => age' = age + 1)
  BY DEF Tick, TypeOK
<1>4. FourTicksWaited'
  BY <1>3 DEF Tick, FourTicksWaited
<1>5. WaitInv'
  <2>1. pc' = pc /\ pll' = pll /\ now' = now
    BY DEF Tick, ctl
  <2>2. ASSUME pc = "wait", age' <= 3 * Period
        PROVE  /\ Elapsed' \in 0 .. 3
               /\ Elapsed' = 1 => Period + phase' <= age' + Period - 1
               /\ Elapsed' = 2 => 2 * Period + phase' <= age' + Period - 1
               /\ Elapsed' = 3 => 3 * Period + phase' <= age' + Period - 1
    <3>1. age' = age + 1 /\ age <= 3 * Period
      BY <2>2, <1>3 DEF ProgressInv
    <3>2. /\ Elapsed \in 0 .. 3
          /\ Elapsed = 1 => Period + phase <= age + Period - 1
          /\ Elapsed = 2 => 2 * Period + phase <= age + Period - 1
          /\ Elapsed = 3 => 3 * Period + phase <= age + Period - 1
      BY <2>2, <3>1 DEF WaitInv
    <3>3. CASE mtime' = mtime
      <4>1. Elapsed' = Elapsed
        BY <3>3, <2>1 DEF Elapsed
      <4>2. phase' = phase \/ phase' = phase + 1
        BY <3>3, <1>1 DEF Tick, TypeOK
      <4>3. phase \in Nat /\ Period \in Nat
        BY DEF TypeOK
      <4> HIDE DEF IInv
      <4> QED
        BY <4>1, <4>2, <4>3, <3>1, <3>2, <1>3
    <3>4. CASE mtime' # mtime
      <4>1. phase' = 0 /\ phase = Period - 1
        BY <3>4 DEF Tick, TypeOK
      <4>2. Elapsed' = Elapsed + 1
        BY <3>4, <2>1, <3>2 DEF Tick, TypeOK, Elapsed
      <4>3. Period \in Nat \ {0}
        OBVIOUS
      <4> HIDE DEF IInv
      <4> QED
        BY <4>1, <4>2, <4>3, <3>1, <3>2, <2>2, <1>3
    <3> QED
      BY <3>3, <3>4
  <2> QED
    BY <2>1, <2>2, <1>3 DEF WaitInv
<1> QED
  BY <1>1, <1>2, <1>4, <1>5

\* An oscillator gets ready.
LEMMA HardwareStep == IInv /\ (HfroscReady \/ HfxoscReady) => IInv'
<1> SUFFICES ASSUME IInv, HfroscReady \/ HfxoscReady PROVE IInv'
  OBVIOUS
<1> USE DEF IInv, HfroscReady, HfxoscReady, ctl
<1>1. TypeOK'
  BY DEF TypeOK
<1>2. SourceInv'
  BY DEF SourceInv, HfroscRuns, TypeOK
<1>3. ProgressInv'
  BY DEF ProgressInv
<1>4. WaitInv' /\ FourTicksWaited'
  BY DEF WaitInv, FourTicksWaited, Elapsed
<1> QED
  BY <1>1, <1>2, <1>3, <1>4

\* A call begins: it starts none of the waits yet.
LEMMA CallStep == ASSUME IInv, NEW c \in Calls, Call(c) PROVE IInv'
<1> USE DEF IInv, Call, hw
<1>0. EntryOf(c) \in {"rosc_cfg", "lfrosc_off", "pll_check"}
      /\ (EntryOf(c) = "rosc_cfg" => c.fn = "use_hfrosc")
      /\ (EntryOf(c) = "lfrosc_off" => c.fn = "use_default_clocks")
      /\ (EntryOf(c) = "pll_check" => c.fn \in PllFns)
  BY ClockAssumption DEF EntryOf, CallRecords, PllFns
<1>1. TypeOK'
  BY <1>0 DEF TypeOK, Labels
<1>2. SourceInv'
  BY <1>0 DEF SourceInv, HfroscRuns
<1>3. ProgressInv'
  BY <1>0 DEF ProgressInv, PllLabels, RoscLabels, PllFns, DividerLabels
<1>4. WaitInv' /\ FourTicksWaited'
  BY <1>0 DEF WaitInv, FourTicksWaited
<1> QED
  BY <1>1, <1>2, <1>3, <1>4

\* use_hfrosc and use_default_clocks.
LEMMA RoscStep ==
  IInv /\ (LfroscOff \/ RoscCfg \/ RoscRdy \/ RoscSel) => IInv'
<1> SUFFICES ASSUME IInv, LfroscOff \/ RoscCfg \/ RoscRdy \/ RoscSel PROVE IInv'
  OBVIOUS
<1> USE DEF IInv, Goto, hw
<1>1. CASE LfroscOff
  <2>1. TypeOK'
    BY <1>1 DEF LfroscOff, TypeOK, Labels
  <2>2. SourceInv' /\ ProgressInv'
    BY <1>1 DEF LfroscOff, SourceInv, ProgressInv, HfroscRuns, PllLabels, RoscLabels, PllFns, DividerLabels
  <2>3. WaitInv' /\ FourTicksWaited'
    BY <1>1 DEF LfroscOff, WaitInv, FourTicksWaited
  <2> QED
    BY <2>1, <2>2, <2>3
<1>2. CASE RoscCfg
  <2>1. TypeOK'
    BY <1>2 DEF RoscCfg, TypeOK, Labels
  <2>2. SourceInv' /\ ProgressInv'
    BY <1>2 DEF RoscCfg, SourceInv, ProgressInv, HfroscRuns, PllLabels, RoscLabels, PllFns, DividerLabels
  <2>3. WaitInv' /\ FourTicksWaited'
    BY <1>2 DEF RoscCfg, WaitInv, FourTicksWaited
  <2> QED
    BY <2>1, <2>2, <2>3
<1>3. CASE RoscRdy
  <2>1. TypeOK'
    BY <1>3 DEF RoscRdy, TypeOK, Labels
  <2>2. SourceInv' /\ ProgressInv'
    BY <1>3 DEF RoscRdy, SourceInv, ProgressInv, HfroscRuns, PllLabels, RoscLabels, PllFns, DividerLabels
  <2>3. WaitInv' /\ FourTicksWaited'
    BY <1>3 DEF RoscRdy, WaitInv, FourTicksWaited
  <2> QED
    BY <2>1, <2>2, <2>3
<1>4. CASE RoscSel
  <2>1. /\ pll'.sel = FALSE /\ pll'.refsel = pll.refsel
        /\ pll'.bypass = pll.bypass /\ pll'.finaldiv = pll.finaldiv
        /\ pll' \in [sel : BOOLEAN, refsel : {0, 1}, bypass : BOOLEAN, finaldiv : Nat \ {0}]
    BY <1>4 DEF RoscSel, TypeOK
  <2>2. pc = "rosc_sel" /\ pc' = ret /\ ret \in {"idle", "pll_begin", "pll_div"}
    BY <1>4 DEF RoscSel, TypeOK
  <2>3. TypeOK'
    BY <1>4, <2>1, <2>2 DEF RoscSel, TypeOK, Labels
  <2>4. SourceInv'
    BY <1>4, <2>1, <2>2 DEF RoscSel, SourceInv, HfroscRuns
  <2>5. ProgressInv'
    BY <1>4, <2>1, <2>2 DEF RoscSel, ProgressInv, PllLabels, RoscLabels, PllFns, DividerLabels
  <2>6. WaitInv' /\ FourTicksWaited'
    BY <1>4, <2>1, <2>2 DEF RoscSel, WaitInv, FourTicksWaited
  <2> QED
    BY <2>3, <2>4, <2>5, <2>6
<1> QED
  BY <1>1, <1>2, <1>3, <1>4

\* use_pll up to its writes of PLLCFG and PLLDIV.
LEMMA PllBranchStep == IInv /\ (PllCheck \/ PllBegin \/ SpiDiv) => IInv'
<1> SUFFICES ASSUME IInv, PllCheck \/ PllBegin \/ SpiDiv PROVE IInv'
  OBVIOUS
<1> USE DEF IInv, Goto, hw
<1>1. CASE PllCheck
  <2>0. call.fn \in PllFns
    BY <1>1 DEF PllCheck, ProgressInv
  <2>1. TypeOK'
    BY <1>1 DEF PllCheck, TypeOK, Labels
  <2>2. SourceInv' /\ ProgressInv'
    BY <1>1 DEF PllCheck, SourceInv, ProgressInv, HfroscRuns, PllLabels, RoscLabels, PllFns, DividerLabels
  <2>3. WaitInv' /\ FourTicksWaited'
    BY <1>1 DEF PllCheck, WaitInv, FourTicksWaited
  <2> QED
    BY <2>1, <2>2, <2>3
<1>2. CASE PllBegin
  <2>1. /\ pc = "pll_begin" /\ UNCHANGED <<now, call>>
        /\ \/ call.bypass /\ pc' = "byp_cfg" /\ ret' = ret
           \/ ~call.bypass /\ pc' \in {"spi_div", "pll_div"} /\ ret' = ret
           \/ ~call.bypass /\ pc' = "rosc_cfg" /\ ret' = "pll_div"
    BY <1>2 DEF PllBegin
  <2>2. TypeOK'
    BY <1>2, <2>1 DEF PllBegin, TypeOK, Labels
  <2>3. SourceInv' /\ ProgressInv'
    BY <1>2, <2>1 DEF PllBegin, SourceInv, ProgressInv, HfroscRuns, PllLabels, RoscLabels, PllFns, DividerLabels
  <2>4. WaitInv' /\ FourTicksWaited'
    BY <1>2, <2>1 DEF PllBegin, WaitInv, FourTicksWaited
  <2> QED
    BY <2>2, <2>3, <2>4
<1>3. CASE SpiDiv
  <2>1. TypeOK'
    BY <1>3 DEF SpiDiv, TypeOK, Labels
  <2>2. SourceInv' /\ ProgressInv'
    BY <1>3 DEF SpiDiv, SourceInv, ProgressInv, HfroscRuns, PllLabels, RoscLabels, PllFns, DividerLabels
  <2>3. WaitInv' /\ FourTicksWaited'
    BY <1>3 DEF SpiDiv, WaitInv, FourTicksWaited
  <2> QED
    BY <2>1, <2>2, <2>3
<1> QED
  BY <1>1, <1>2, <1>3

\* The fields of pll after each write to the PLL's registers.
LEMMA PllWrites ==
  ASSUME TypeOK
  PROVE  /\ PllConfigured \in [sel : BOOLEAN, refsel : {0, 1}, bypass : BOOLEAN, finaldiv : Nat \ {0}]
         /\ PllConfigured.sel = FALSE
         /\ PllConfigured.refsel = call.refsel
         /\ PllConfigured.bypass = TRUE
         /\ PllConfigured.finaldiv = pll.finaldiv
<1>1. call.refsel \in {0, 1}
  BY ClockAssumption DEF TypeOK, CallRecords
<1> QED
  BY <1>1 DEF TypeOK, PllConfigured

\* use_pll: the writes of PLLCFG and PLLDIV before the wait.
LEMMA PllWriteStep ==
  IInv /\ (BypCfg \/ BypDiv \/ PllDiv \/ PllCfg \/ Unbypass) => IInv'
<1> SUFFICES ASSUME IInv, BypCfg \/ BypDiv \/ PllDiv \/ PllCfg \/ Unbypass PROVE IInv'
  OBVIOUS
<1> USE DEF IInv, Goto
<1>1. CASE BypCfg \/ PllCfg
  <2>1. pll' = PllConfigured /\ age' = 0 /\ ~pll.sel /\ call' = call /\ ret' = ret
    BY <1>1 DEF BypCfg, PllCfg, ProgressInv, PllLabels
  <2>2. TypeOK'
    <3>1. pll' \in [sel : BOOLEAN, refsel : {0, 1}, bypass : BOOLEAN, finaldiv : Nat \ {0}]
      BY <2>1, PllWrites
    <3>2. age' \in 0 .. AgeBound
      BY <2>1, ClockAssumption
    <3> QED
      BY <1>1, <3>1, <3>2 DEF BypCfg, PllCfg, TypeOK, Labels
  <2>3. SourceInv'
    BY <1>1, <2>1, PllWrites DEF BypCfg, PllCfg, SourceInv, HfroscRuns
  <2>4. ProgressInv'
    BY <1>1, <2>1, PllWrites DEF BypCfg, PllCfg, ProgressInv, PllLabels, RoscLabels, PllFns, DividerLabels
  <2>5. WaitInv' /\ FourTicksWaited'
    BY <1>1, <2>1, PllWrites DEF BypCfg, PllCfg, WaitInv, FourTicksWaited
  <2> QED
    BY <2>2, <2>3, <2>4, <2>5
<1>2. CASE BypDiv \/ PllDiv
  <2>0. call.finaldiv \in Nat \ {0}
    BY ClockAssumption DEF TypeOK, CallRecords
  <2>1. /\ pll' \in [sel : BOOLEAN, refsel : {0, 1}, bypass : BOOLEAN, finaldiv : Nat \ {0}]
        /\ pll'.sel = pll.sel /\ pll'.refsel = pll.refsel /\ pll'.bypass = pll.bypass
    BY <1>2, <2>0 DEF BypDiv, PllDiv, TypeOK
  <2>2. /\ call' = call /\ ret' = ret /\ age' = age /\ UNCHANGED <<hfrosc, hfxosc, lfrosc>>
        /\ ~pll.sel
        /\ \/ pc = "byp_div" /\ pc' = "sel"
           \/ pc = "pll_div" /\ pc' = "pll_cfg"
    BY <1>2 DEF BypDiv, PllDiv, ProgressInv, PllLabels
  <2>7. /\ pc = "byp_div" => call.bypass
        /\ pc = "pll_div" /\ call.driver = "prci" => pll'.finaldiv = call.finaldiv
    BY <1>2 DEF BypDiv, PllDiv, ProgressInv, TypeOK
  <2>3. TypeOK'
    BY <1>2, <2>1, <2>2 DEF BypDiv, PllDiv, TypeOK, Labels
  <2>4. SourceInv'
    BY <2>1, <2>2 DEF SourceInv, HfroscRuns
  <2>5. ProgressInv'
    BY <2>1, <2>2, <2>7 DEF ProgressInv, PllLabels, RoscLabels, PllFns, DividerLabels, TypeOK
  <2>6. WaitInv' /\ FourTicksWaited'
    BY <2>1, <2>2 DEF WaitInv, FourTicksWaited, ProgressInv, PllLabels
  <2> QED
    BY <2>3, <2>4, <2>5, <2>6
<1>3. CASE Unbypass
  <2>1. /\ pll' \in [sel : BOOLEAN, refsel : {0, 1}, bypass : BOOLEAN, finaldiv : Nat \ {0}]
        /\ pll'.sel = pll.sel /\ pll'.refsel = pll.refsel /\ pll'.bypass = FALSE
        /\ ~pll.sel
    BY <1>3 DEF Unbypass, TypeOK, ProgressInv, PllLabels
  <2>2. TypeOK'
    BY <1>3, <2>1, ClockAssumption DEF Unbypass, TypeOK, Labels
  <2>3. SourceInv'
    BY <1>3, <2>1 DEF Unbypass, SourceInv, HfroscRuns
  <2>4. ProgressInv'
    BY <1>3, <2>1 DEF Unbypass, ProgressInv, PllLabels, RoscLabels, PllFns, DividerLabels
  <2>5. WaitInv' /\ FourTicksWaited'
    BY <1>3, <2>1 DEF Unbypass, WaitInv, FourTicksWaited
  <2> QED
    BY <2>2, <2>3, <2>4, <2>5
<1> QED
  BY <1>1, <1>2, <1>3

\* use_pll: the wait for the lock.
LEMMA WaitStep == IInv /\ (Sample \/ WaitTicks \/ PollLock) => IInv'
<1> SUFFICES ASSUME IInv, Sample \/ WaitTicks \/ PollLock PROVE IInv'
  OBVIOUS
<1> USE DEF IInv, Goto, hw
<1>1. TypeOK'
  BY DEF Sample, WaitTicks, PollLock, TypeOK, Labels
<1>2. SourceInv'
  BY DEF Sample, WaitTicks, PollLock, SourceInv, HfroscRuns
<1>3. ProgressInv'
  <2>1. /\ UNCHANGED <<pll, call, ret, lfrosc>>
        /\ \/ pc = "sample" /\ pc' = "wait"
           \/ pc = "wait" /\ pc' = "lock"
           \/ pc = "lock" /\ pc' = "sel"
    BY DEF Sample, WaitTicks, PollLock
  <2>2. pll.bypass \in BOOLEAN /\ call.bypass \in BOOLEAN
    BY ClockAssumption DEF TypeOK, CallRecords
  <2> QED
    BY <2>1, <2>2 DEF ProgressInv, PllLabels, RoscLabels, PllFns, DividerLabels
<1>4. FourTicksWaited'
  BY DEF Sample, WaitTicks, PollLock, FourTicksWaited
<1>5. CASE Sample
  <2>1. Elapsed' = 0
    BY <1>5, ClockAssumption DEF Sample, Elapsed, TypeOK
  <2> QED
    BY <1>1, <1>2, <1>3, <1>4, <1>5, <2>1 DEF Sample, WaitInv
<1>6. CASE WaitTicks
  \* Four ticks cannot have been seen in three periods or less.
  <2>1. age > 3 * Period
    BY <1>6, ElapsedNat, ClockAssumption DEF WaitTicks, WaitInv, TypeOK
  <2> QED
    BY <1>1, <1>2, <1>3, <1>4, <1>6, <2>1 DEF WaitTicks, WaitInv
<1>7. CASE PollLock
  BY <1>1, <1>2, <1>3, <1>4, <1>7 DEF PollLock, WaitInv
<1> QED
  BY <1>5, <1>6, <1>7

\* use_pll: the switch to the PLL, and the HFROSC off when it is not used.
LEMMA SelStep == IInv /\ (PllSel \/ RoscOff) => IInv'
<1> SUFFICES ASSUME IInv, PllSel \/ RoscOff PROVE IInv'
  OBVIOUS
<1> USE DEF IInv, Goto
<1>1. CASE PllSel
  <2>1. /\ pll' \in [sel : BOOLEAN, refsel : {0, 1}, bypass : BOOLEAN, finaldiv : Nat \ {0}]
        /\ pll'.sel = TRUE /\ pll'.refsel = pll.refsel /\ pll'.bypass = pll.bypass
        /\ ~pll.sel
    BY <1>1 DEF PllSel, TypeOK, ProgressInv, PllLabels
  <2>2. /\ pc = "sel" /\ pc' \in {"idle", "rosc_off"} /\ (pc' = "rosc_off" => pll.refsel = 1)
        /\ call' = call /\ ret' = ret
    BY <1>1 DEF PllSel, ProgressInv
  <2>3. TypeOK'
    BY <1>1, <2>1, <2>2 DEF PllSel, TypeOK, Labels
  <2>4. SourceInv'
    BY <1>1, <2>1, <2>2 DEF PllSel, SourceInv, HfroscRuns
  <2>5. ProgressInv'
    BY <1>1, <2>1, <2>2 DEF PllSel, ProgressInv, PllLabels, RoscLabels, PllFns, DividerLabels
  <2>6. WaitInv' /\ FourTicksWaited'
    BY <1>1, <2>1, <2>2 DEF PllSel, WaitInv, FourTicksWaited
  <2> QED
    BY <2>3, <2>4, <2>5, <2>6
<1>2. CASE RoscOff
  <2>1. TypeOK'
    BY <1>2 DEF RoscOff, TypeOK, Labels
  <2>2. SourceInv' /\ ProgressInv'
    BY <1>2 DEF RoscOff, SourceInv, ProgressInv, HfroscRuns, PllLabels, RoscLabels, DividerLabels
  <2>3. WaitInv' /\ FourTicksWaited'
    BY <1>2 DEF RoscOff, WaitInv, FourTicksWaited
  <2> QED
    BY <2>1, <2>2, <2>3
<1> QED
  BY <1>1, <1>2

\* Every step keeps the invariant.
LEMMA NextStep == IInv /\ [Next]_vars => IInv'
<1> SUFFICES ASSUME IInv, [Next]_vars PROVE IInv'
  OBVIOUS
<1>1. CASE UNCHANGED vars
  BY <1>1 DEF vars, IInv, TypeOK, SourceInv, ProgressInv, WaitInv, FourTicksWaited,
              HfroscRuns, Elapsed
<1>2. CASE Next
  BY <1>2, TickStep, HardwareStep, CallStep, RoscStep, PllBranchStep, PllWriteStep,
     WaitStep, SelStep DEF Next, DriverStep
<1> QED
  BY <1>1, <1>2

-----------------------------------------------------------------------------

\* The inductive invariant of the clock switching.
THEOREM Inductive == Spec => []IInv
BY InitIInv, NextStep, PTL DEF Spec

\* The registers and locals keep their types, whatever is called.
THEOREM TypeCorrect == Spec => []TypeOK
<1>1. IInv => TypeOK
  BY DEF IInv
<1> QED
  BY <1>1, Inductive, PTL

\* Four RTC ticks last more than three periods, for every period, every
\* phase of the first read and every width of mtime, wraps included.
THEOREM FourTicks == Spec => []FourTicksWaited
<1>1. IInv => FourTicksWaited
  BY DEF IInv
<1> QED
  BY <1>1, Inductive, PTL

\* No sequence of calls runs the CPU off an HFROSC that is off or not ready,
\* directly or through the PLL.
THEOREM HfroscIsKept == Spec => []HfroscKept
<1>1. IInv => HfroscKept
  BY DEF IInv, SourceInv, HfroscKept, HfroscRuns
<1> QED
  BY <1>1, Inductive, PTL

\* Nor off any other source that is down, once the crystal runs: one that has
\* not started is the only thing the promise of fe300prci_driver.h fails for.
THEOREM ClockKeepsRunning == Spec => [](hfxosc => CpuKeepsRunning)
<1>1. IInv => (hfxosc => CpuKeepsRunning)
  BY DEF IInv, TypeOK, SourceInv, CpuKeepsRunning, CpuRuns, RefRunning, HfroscRuns
<1> QED
  BY <1>1, Inductive, PTL

\* While the CPU stays on the PLL no call writes the PLL's configuration.
THEOREM PllFrozen == Spec => PllFrozenWhileSelected
<1>1. IInv /\ [Next]_vars => [pll.sel /\ pll'.sel => pll' = pll]_vars
  <2> SUFFICES ASSUME IInv, Next, pll.sel, pll'.sel PROVE pll' = pll
    OBVIOUS
  <2> USE DEF Goto, hw, IInv
  <2>1. pc \notin PllLabels
    BY DEF ProgressInv
  <2>2. CASE Tick \/ HfroscReady \/ HfxoscReady \/ \E c \in Calls : Call(c)
    BY <2>2 DEF Tick, HfroscReady, HfxoscReady, Call
  <2>3. CASE LfroscOff \/ RoscCfg \/ RoscRdy \/ PllCheck \/ RoscOff
    BY <2>3 DEF LfroscOff, RoscCfg, RoscRdy, PllCheck, RoscOff
  <2>4. CASE RoscSel
    BY <2>4 DEF RoscSel, TypeOK
  <2>5. ~(PllBegin \/ BypCfg \/ BypDiv \/ SpiDiv \/ PllDiv \/ PllCfg \/ Unbypass
            \/ Sample \/ WaitTicks \/ PollLock \/ PllSel)
    BY <2>1 DEF PllBegin, BypCfg, BypDiv, SpiDiv, PllDiv, PllCfg, Unbypass, Sample,
                WaitTicks, PollLock, PllSel, PllLabels
  <2> QED
    BY <2>2, <2>3, <2>4, <2>5 DEF Next, DriverStep
<1> QED
  BY <1>1, Inductive, PTL DEF Spec, PllFrozenWhileSelected

\* The hardware and the beginning of a call do not switch the CPU.
LEMMA NotSwitching ==
  ASSUME Tick \/ HfroscReady \/ HfxoscReady \/ \E c \in Calls : Call(c)
  PROVE  UNCHANGED <<pll, sckdiv>> /\ (UNCHANGED <<pc, ret, call>> \/ pc = "idle")
BY DEF Tick, HfroscReady, HfxoscReady, Call, hw, ctl

\* A call returns only when the CPU runs off the source asked for, with the
\* bypass asked for, whatever the calls before have left behind; off a PLL
\* set up by PRCI_use_pll, with the divider asked for as well.
THEOREM SwitchesDone == Spec => SwitchesAsAsked
<1>1. IInv /\ [Next]_vars => [pc # "idle" /\ pc' = "idle" => Established']_vars
  <2> SUFFICES ASSUME IInv, Next, pc # "idle", pc' = "idle" PROVE Established'
    OBVIOUS
  <2> USE DEF IInv, Goto
  <2>1. DriverStep
    BY NotSwitching DEF Next
  <2>2. RoscSel \/ PllSel \/ RoscOff
    BY <2>1 DEF DriverStep, LfroscOff, RoscCfg, RoscRdy, PllCheck, PllBegin, BypCfg, BypDiv,
                SpiDiv, PllDiv, PllCfg, Unbypass, Sample, WaitTicks, PollLock
  <2>3. call' = call /\ call.fn \in {"use_hfrosc", "use_default_clocks"} \cup PllFns
    <3>1. call.fn \in {"use_hfrosc", "use_default_clocks"} \cup PllFns
      BY ClockAssumption DEF TypeOK, CallRecords, PllFns
    <3> QED
      BY <2>2, <3>1 DEF RoscSel, PllSel, RoscOff
  <2>4. CASE RoscSel
    <3>1. ret = "idle" /\ lfrosc' = lfrosc /\ pll'.sel = FALSE
      BY <2>4 DEF RoscSel, TypeOK
    <3>2. call.fn \notin PllFns /\ (call.fn = "use_default_clocks" => ~lfrosc)
      BY <2>4, <3>1 DEF RoscSel, ProgressInv, RoscLabels
    <3> QED
      BY <2>3, <3>1, <3>2 DEF Established, PllFns
  <2>5. CASE PllSel \/ RoscOff
    <3>1. call.fn \in PllFns /\ pll.refsel = call.refsel /\ pll.bypass = call.bypass
      BY <2>5 DEF PllSel, RoscOff, ProgressInv, PllLabels
    <3>2. /\ pll'.sel /\ pll'.refsel = pll.refsel /\ pll'.bypass = pll.bypass
          /\ pll'.finaldiv = pll.finaldiv
      BY <2>5 DEF PllSel, RoscOff, ProgressInv, TypeOK
    <3>3. call.driver = "prci" /\ ~call.bypass => pll.finaldiv = call.finaldiv
      BY <2>5 DEF PllSel, RoscOff, ProgressInv, DividerLabels
    <3> QED
      BY <2>3, <3>1, <3>2, <3>3 DEF Established, PllFns
  <2> QED
    BY <2>2, <2>4, <2>5
<1> QED
  BY <1>1, Inductive, PTL DEF Spec, SwitchesAsAsked

\* init.c has slowed the flash down from where it sets the PLL up to where
\* it switches to it, and only the driver comes back there from use_hfrosc.
BoostLabels == {"pll_div", "pll_cfg", "unbypass", "sample", "wait", "lock", "sel"}

FlashInv ==
  /\ pc \in BoostLabels /\ call.driver = "init" /\ ~call.bypass => sckdiv = 8
  /\ pc \in RoscLabels /\ ret = "pll_div" => call.driver = "prci"

\* Every step keeps the flash slow where it has to be.
LEMMA FlashStep == IInv /\ FlashInv /\ [Next]_vars => FlashInv'
<1> SUFFICES ASSUME IInv, FlashInv, [Next]_vars PROVE FlashInv'
  OBVIOUS
<1> USE DEF FlashInv, BoostLabels, RoscLabels, Goto
<1>1. CASE UNCHANGED vars
  BY <1>1 DEF vars
<1>2. CASE Tick \/ HfroscReady \/ HfxoscReady
  BY <1>2 DEF Tick, HfroscReady, HfxoscReady, ctl
<1>3. ASSUME NEW c \in Calls, Call(c) PROVE FlashInv'
  BY <1>3 DEF Call, EntryOf
<1>4. CASE LfroscOff
  <2>1. ret = "idle" /\ ret' = ret
    BY <1>4 DEF LfroscOff, IInv, ProgressInv
  <2> QED
    BY <1>4, <2>1 DEF LfroscOff
<1>5. CASE RoscCfg \/ RoscRdy
  BY <1>5 DEF RoscCfg, RoscRdy, hw
<1>6. CASE RoscSel
  <2>1. pc' = ret /\ ret \in {"idle", "pll_begin", "pll_div"} /\ call' = call /\ ret' = ret
    BY <1>6 DEF RoscSel, IInv, TypeOK
  <2>2. ret = "pll_div" => call.driver = "prci"
    BY <1>6 DEF RoscSel
  <2> QED
    BY <2>1, <2>2
<1>7. CASE PllCheck
  BY <1>7 DEF PllCheck
<1>8. CASE PllBegin
  BY <1>8 DEF PllBegin, IInv, TypeOK, CallRecords, ClockAssumption
<1>9. CASE BypCfg \/ BypDiv
  BY <1>9 DEF BypCfg, BypDiv, IInv, ProgressInv
<1>10. CASE SpiDiv
  BY <1>10 DEF SpiDiv
<1>11. CASE PllDiv \/ PllCfg \/ Unbypass
  BY <1>11 DEF PllDiv, PllCfg, Unbypass
<1>12. CASE Sample \/ WaitTicks \/ PollLock
  BY <1>12 DEF Sample, WaitTicks, PollLock, hw
<1>13. CASE PllSel \/ RoscOff
  BY <1>13 DEF PllSel, RoscOff
<1> QED
  BY <1>1, <1>2, <1>3, <1>4, <1>5, <1>6, <1>7, <1>8, <1>9, <1>10, <1>11, <1>12, <1>13
     DEF Next, DriverStep

\* The flash the code is fetched from has been slowed down whenever init.c
\* boosts the clock, for every sequence of calls before.
THEOREM FlashIsSlow == Spec => SlowFlashBeforeBoost
<1>1. Init => FlashInv
  BY DEF Init, FlashInv, BoostLabels, RoscLabels
<1>2. IInv /\ FlashInv /\ [Next]_vars
        => [call.driver = "init" /\ ~pll.sel /\ pll'.sel /\ ~pll'.bypass => sckdiv = 8]_vars
  <2> SUFFICES ASSUME IInv, FlashInv, Next, call.driver = "init", ~pll.sel, pll'.sel, ~pll'.bypass
               PROVE  sckdiv = 8
    OBVIOUS
  <2> USE DEF Goto, IInv
  <2>1. DriverStep
    BY NotSwitching DEF Next
  <2>2. PllSel
    BY <2>1 DEF DriverStep, LfroscOff, RoscCfg, RoscRdy, RoscSel, PllCheck, PllBegin, BypCfg,
                BypDiv, SpiDiv, PllDiv, PllCfg, Unbypass, PllConfigured, Sample, WaitTicks,
                PollLock, RoscOff, TypeOK, hw
  <2>3. pc = "sel" /\ pll.bypass = call.bypass /\ pll'.bypass = pll.bypass
    BY <2>2 DEF PllSel, ProgressInv, TypeOK
  <2> QED
    BY <2>3 DEF FlashInv, BoostLabels
<1> QED
  BY <1>1, <1>2, FlashStep, Inductive, PTL DEF Spec, SlowFlashBeforeBoost
=============================================================================
