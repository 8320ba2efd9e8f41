----------------------------- MODULE PrciClocks -----------------------------
(***************************************************************************)
(* Switching the CPU clock: use_hfrosc, use_pll and use_default_clocks of  *)
(* fw/bsp/env/tgfs-vp/init.c, and their PRCI_* counterparts of             *)
(* fw/bsp/drivers/fe300prci/fe300prci_driver.c with PRCI_use_hfxosc.  The  *)
(* program calls them one after the other, in any order.                   *)
(*                                                                         *)
(* One action is one register access, or one loop of polls up to the one   *)
(* that ends it.  The oscillators, the PLL and the RTC go on by            *)
(* themselves: their actions (Tick, HfroscReady, HfxoscReady) interleave   *)
(* with the driver's.  Time advances in fractions of an RTC period, so     *)
(* that "4 ticks" and a duration can be told apart.                        *)
(***************************************************************************)
EXTENDS Integers

CONSTANTS
  Calls,        \* the driver calls the program makes, see CallRecords
  Period,       \* fractions of time in one period of the RTC
  SettleTime,   \* time after which the PLL is locked and LOCK is reliable
  AgeBound,     \* bound: `age' stops counting here
  MTimeMod      \* mtime is read modulo this (2^32 in the code)

CallRecords ==
  [ driver   : {"init", "prci"},
    fn       : {"use_hfrosc", "use_default_clocks", "use_pll", "use_hfxosc"},
    refsel   : {0, 1},
    bypass   : BOOLEAN,
    ownRosc  : BOOLEAN,      \* hfrosctrim >= 0 && hfroscdiv >= 0
    finaldiv : Nat \ {0} ]

ASSUME ClockAssumption ==
  /\ Calls \subseteq CallRecords
  /\ \A c \in Calls : c.fn = "use_hfxosc" => c.refsel = 1 /\ c.bypass /\ ~c.ownRosc
  /\ Period \in Nat \ {0}
  /\ SettleTime \in Nat
  /\ AgeBound \in Nat
  /\ AgeBound >= SettleTime
  /\ AgeBound > 3 * Period
  /\ MTimeMod \in Nat
  /\ MTimeMod > 4

VARIABLES
  hfrosc,   \* HFROSCCFG: [en, rdy]
  hfxosc,   \* the crystal oscillator is stable (no driver function reads it)
  extlf,    \* the board clocks the RTC by something else than the LFROSC
  lfrosc,   \* AON_LFROSC: the enable bit
  pll,      \* PLLCFG and PLLDIV: [sel, refsel, bypass, finaldiv]
  age,      \* time since the PLL left bypass
  sckdiv,   \* SPI0 SCKDIV, the divider of the flash the code is fetched from
  mtime,    \* CLINT mtime, the low word
  phase,    \* fraction of the current RTC period that has passed
  now,      \* the local of use_pll
  pc,       \* next access of the running call, "idle" between calls
  ret,      \* where use_hfrosc returns to
  call      \* the running call, or the last one

hw   == <<hfrosc, hfxosc, extlf, lfrosc, pll, age, sckdiv, mtime, phase>>
ctl  == <<now, pc, ret, call>>
vars == <<hfrosc, hfxosc, extlf, lfrosc, pll, age, sckdiv, mtime, phase, now, pc, ret, call>>

ResetSckDiv == 3

\* Reset: the CPU runs off the HFROSC, the PLL is bypassed and not selected.
\* The crystal may have started before the program, or not yet, and the
\* RTC may have a clock of its own, or only the LFROSC.
Init ==
  /\ hfrosc = [en |-> TRUE, rdy |-> TRUE]
  /\ hfxosc \in BOOLEAN
  /\ extlf  \in BOOLEAN
  /\ lfrosc = TRUE
  /\ \E r \in {0, 1} :
       pll = [sel |-> FALSE, refsel |-> r, bypass |-> TRUE, finaldiv |-> 1]
  /\ age    = 0
  /\ sckdiv = ResetSckDiv
  /\ mtime  \in 0 .. MTimeMod - 1
  /\ phase  \in 0 .. Period - 1
  /\ now    = 0
  /\ pc     = "idle"
  /\ ret    = "idle"
  /\ call   \in Calls

-----------------------------------------------------------------------------
(* The hardware *)

\* The oscillator the PLL (or its bypass) takes its reference from.
RefRunning == IF pll.refsel = 1 THEN hfxosc ELSE hfrosc.en /\ hfrosc.rdy

\* `mtime_lo() - now', unsigned.
Elapsed == IF mtime >= now THEN mtime - now ELSE mtime - now + MTimeMod

\* What a poll of LOCK may return: before SettleTime it glitches, after it
\* the bit is set if there is a reference to lock to.
LockReads == { b \in BOOLEAN : age < SettleTime \/ b = RefRunning }

Tick ==
  /\ age' = IF pll.bypass \/ age = AgeBound THEN age ELSE age + 1
  /\ IF ~extlf /\ ~lfrosc
       THEN UNCHANGED <<mtime, phase>>
       ELSE IF phase + 1 < Period
         THEN phase' = phase + 1 /\ UNCHANGED mtime
         ELSE phase' = 0 /\ mtime' = IF mtime + 1 < MTimeMod THEN mtime + 1 ELSE 0
  /\ UNCHANGED <<hfrosc, hfxosc, extlf, lfrosc, pll, sckdiv, ctl>>

HfroscReady ==
  /\ hfrosc.en /\ ~hfrosc.rdy
  /\ hfrosc' = [hfrosc EXCEPT !.rdy = TRUE]
  /\ UNCHANGED <<hfxosc, extlf, lfrosc, pll, age, sckdiv, mtime, phase, ctl>>

HfxoscReady ==
  /\ ~hfxosc
  /\ hfxosc' = TRUE
  /\ UNCHANGED <<hfrosc, extlf, lfrosc, pll, age, sckdiv, mtime, phase, ctl>>

-----------------------------------------------------------------------------
(* The driver *)

\* The CPU executes only while the source it is switched to runs.
CpuRuns == IF pll.sel THEN RefRunning ELSE hfrosc.en /\ hfrosc.rdy

\* Control moves from label `from' to label `to'.
Goto(from, to) ==
  /\ CpuRuns
  /\ pc = from
  /\ pc' = to
  /\ UNCHANGED <<now, call>>

EntryOf(c) ==
  CASE c.fn = "use_hfrosc"         -> "rosc_cfg"
    [] c.fn = "use_default_clocks" -> "lfrosc_off"
    [] OTHER                       -> "pll_check"

Call(c) ==
  /\ CpuRuns
  /\ pc = "idle"
  /\ call' = c
  /\ pc'   = EntryOf(c)
  /\ ret'  = "idle"
  /\ UNCHANGED <<hw, now>>

\* AON_REG(AON_LFROSC) &= ~ROSC_EN(1)
LfroscOff ==
  /\ Goto("lfrosc_off", "rosc_cfg")
  /\ lfrosc' = FALSE
  /\ UNCHANGED <<hfrosc, hfxosc, extlf, pll, age, sckdiv, mtime, phase, ret>>

\* use_hfrosc: the write of HFROSCCFG.  An oscillator that runs goes on
\* running ("It is OK to change this even if we are running off of it").
RoscCfg ==
  /\ Goto("rosc_cfg", "rosc_rdy")
  /\ hfrosc' = [en |-> TRUE, rdy |-> hfrosc.en /\ hfrosc.rdy]
  /\ UNCHANGED <<hfxosc, extlf, lfrosc, pll, age, sckdiv, mtime, phase, ret>>

RoscRdy_NoPoll == Goto("rosc_rdy", "rosc_sel") /\ UNCHANGED <<hw, ret>>

RoscRdy ==
  /\ hfrosc.rdy
  /\ Goto("rosc_rdy", "rosc_sel")
  /\ UNCHANGED <<hw, ret>>

RoscSel_KeepsSel == Goto("rosc_sel", ret) /\ UNCHANGED <<hw, ret>>

\* PLLCFG &= ~PLL_SEL(1), and back to the caller
RoscSel ==
  /\ Goto("rosc_sel", ret)
  /\ pll' = [pll EXCEPT !.sel = FALSE]
  /\ UNCHANGED <<hfrosc, hfxosc, extlf, lfrosc, age, sckdiv, mtime, phase, ret>>

PllCheck_Dropped == Goto("pll_check", "pll_begin") /\ UNCHANGED <<hw, ret>>

\* use_pll: not while the CPU runs off the PLL
PllCheck ==
  /\ IF pll.sel THEN Goto("pll_check", "rosc_cfg") /\ ret' = "pll_begin"
                ELSE Goto("pll_check", "pll_begin") /\ UNCHANGED ret
  /\ UNCHANGED hw

\* if (bypass) ... else: init.c slows the flash down, the driver sets up
\* the HFROSC when the caller asks for it
PllBegin ==
  /\ CASE call.bypass            -> Goto("pll_begin", "byp_cfg") /\ UNCHANGED ret
       [] ~call.bypass /\ call.driver = "init"
                                 -> Goto("pll_begin", "spi_div") /\ UNCHANGED ret
       [] ~call.bypass /\ call.driver = "prci" /\ call.ownRosc
                                 -> Goto("pll_begin", "rosc_cfg") /\ ret' = "pll_div"
       [] OTHER                  -> Goto("pll_begin", "pll_div") /\ UNCHANGED ret
  /\ UNCHANGED hw

\* PLLCFG = config_value: SEL is written as 0
PllConfigured == [pll EXCEPT !.sel = FALSE, !.refsel = call.refsel, !.bypass = TRUE]

BypCfg ==
  /\ Goto("byp_cfg", "byp_div")
  /\ pll' = PllConfigured
  /\ age' = 0
  /\ UNCHANGED <<hfrosc, hfxosc, extlf, lfrosc, sckdiv, mtime, phase, ret>>

BypDiv ==
  /\ Goto("byp_div", "sel")
  /\ pll' = [pll EXCEPT !.finaldiv = 1]
  /\ UNCHANGED <<hfrosc, hfxosc, extlf, lfrosc, age, sckdiv, mtime, phase, ret>>

SpiDiv_Dropped == Goto("spi_div", "pll_div") /\ UNCHANGED <<hw, ret>>

SpiDiv ==
  /\ Goto("spi_div", "pll_div")
  /\ sckdiv' = 8
  /\ UNCHANGED <<hfrosc, hfxosc, extlf, lfrosc, pll, age, mtime, phase, ret>>

PllDiv_FieldValue ==
  /\ Goto("pll_div", "pll_cfg")
  /\ pll' = [pll EXCEPT !.finaldiv = call.finaldiv - 1]
  /\ UNCHANGED <<hfrosc, hfxosc, extlf, lfrosc, age, sckdiv, mtime, phase, ret>>

\* init.c always divides by 1, the driver by finaldiv
PllDiv ==
  /\ Goto("pll_div", "pll_cfg")
  /\ pll' = [pll EXCEPT !.finaldiv = IF call.driver = "init" THEN 1 ELSE call.finaldiv]
  /\ UNCHANGED <<hfrosc, hfxosc, extlf, lfrosc, age, sckdiv, mtime, phase, ret>>

PllCfg ==
  /\ Goto("pll_cfg", "unbypass")
  /\ pll' = PllConfigured
  /\ age' = 0
  /\ UNCHANGED <<hfrosc, hfxosc, extlf, lfrosc, sckdiv, mtime, phase, ret>>

Unbypass ==
  /\ Goto("unbypass", "sample")
  /\ pll' = [pll EXCEPT !.bypass = FALSE]
  /\ age' = 0
  /\ UNCHANGED <<hfrosc, hfxosc, extlf, lfrosc, sckdiv, mtime, phase, ret>>

\* now = mtime_lo()
Sample ==
  /\ CpuRuns
  /\ pc = "sample"
  /\ now' = mtime
  /\ pc'  = "wait"
  /\ UNCHANGED <<hw, ret, call>>

WaitTicks_Three == Elapsed >= 3 /\ Goto("wait", "lock") /\ UNCHANGED <<hw, ret>>

WaitTicks_NoWrap == mtime >= now + 4 /\ Goto("wait", "lock") /\ UNCHANGED <<hw, ret>>

\* while (mtime_lo() - now < 4)
WaitTicks ==
  /\ Elapsed >= 4
  /\ Goto("wait", "lock")
  /\ UNCHANGED <<hw, ret>>

\* while ((PLLCFG & PLL_LOCK(1)) == 0)
PollLock ==
  /\ TRUE \in LockReads
  /\ Goto("lock", "sel")
  /\ UNCHANGED <<hw, ret>>

\* PLLCFG |= PLL_SEL(1); only the driver then stops an HFROSC not in use
PllSel ==
  /\ Goto("sel", IF call.driver = "prci" /\ call.refsel = 1 THEN "rosc_off" ELSE "idle")
  /\ pll' = [pll EXCEPT !.sel = TRUE]
  /\ UNCHANGED <<hfrosc, hfxosc, extlf, lfrosc, age, sckdiv, mtime, phase, ret>>

RoscOff ==
  /\ Goto("rosc_off", "idle")
  /\ hfrosc' = [en |-> FALSE, rdy |-> FALSE]
  /\ UNCHANGED <<hfxosc, extlf, lfrosc, pll, age, sckdiv, mtime, phase, ret>>

DriverStep ==
  \/ LfroscOff
  \/ RoscCfg
  \/ RoscRdy
  \/ RoscSel
  \/ PllCheck
  \/ PllBegin
  \/ BypCfg
  \/ BypDiv
  \/ SpiDiv
  \/ PllDiv
  \/ PllCfg
  \/ Unbypass
  \/ Sample
  \/ WaitTicks
  \/ PollLock
  \/ PllSel
  \/ RoscOff

Next ==
  \/ Tick
  \/ HfroscReady
  \/ HfxoscReady
  \/ \E c \in Calls : Call(c)
  \/ DriverStep

Spec == Init /\ [][Next]_vars

\* The oscillators start, the crystal's included, and time passes; the CPU
\* polls often enough to see a condition that keeps coming back (the loops
\* are a few cycles, an RTC period is hundreds of them).
FairSpec ==
  Spec /\ WF_vars(Tick) /\ WF_vars(HfroscReady)
            /\ WF_vars(HfxoscReady) /\ SF_vars(DriverStep)

-----------------------------------------------------------------------------
(***************************************************************************)
(* Properties                                                              *)
(***************************************************************************)

Labels ==
  { "idle", "lfrosc_off", "rosc_cfg", "rosc_rdy", "rosc_sel", "pll_check",
    "pll_begin", "byp_cfg", "byp_div", "spi_div", "pll_div", "pll_cfg",
    "unbypass", "sample", "wait", "lock", "sel", "rosc_off" }

TypeOK ==
  /\ hfrosc \in [en : BOOLEAN, rdy : BOOLEAN]
  /\ hfxosc \in BOOLEAN
  /\ extlf  \in BOOLEAN
  /\ lfrosc \in BOOLEAN
  /\ pll    \in [sel : BOOLEAN, refsel : {0, 1}, bypass : BOOLEAN, finaldiv : Nat \ {0}]
  /\ age    \in 0 .. AgeBound
  /\ sckdiv \in {ResetSckDiv, 8}
  /\ mtime  \in 0 .. MTimeMod - 1
  /\ phase  \in 0 .. Period - 1
  /\ now    \in 0 .. MTimeMod - 1
  /\ pc     \in Labels
  /\ ret    \in {"idle", "pll_begin", "pll_div"}
  /\ call   \in Calls

\* "Now it is safe to check for PLL Lock": when the CPU runs off the PLL, it
\* is past the time in which LOCK glitches.
LockSettled == pll.sel /\ ~pll.bypass => age >= SettleTime

\* What four ticks of the RTC do guarantee, whatever the phase and the value
\* of mtime at the first read, a wrap of mtime included: more than three
\* full periods.
FourTicksWaited == pll.sel /\ ~pll.bypass => age > 3 * Period

\* fe300prci_driver.h:29,35,38-41: a call switches over "safely", it "won't
\* turn off or glitch the clock the CPU is actually running off": the source
\* the CPU is switched to is up, always.
CpuKeepsRunning == CpuRuns

\* The part of that promise that holds: the HFROSC is on and ready whenever
\* the CPU runs off it, directly or as the reference of the PLL, whichever
\* calls have turned it off before.
HfroscKept == ~pll.sel \/ pll.refsel = 0 => hfrosc.en /\ hfrosc.rdy

\* The PLL is not touched while the CPU runs off it: its configuration only
\* changes in a step that leaves it deselected.
PllFrozenWhileSelected == [][pll.sel /\ pll'.sel => pll' = pll]_vars

\* init.c: the flash divider is set before the clock is boosted, whatever
\* the calls before have left selected or configured.
SlowFlashBeforeBoost ==
  [][call.driver = "init" /\ ~pll.sel /\ pll'.sel /\ ~pll'.bypass => sckdiv = 8]_vars

\* A call that returns has switched to the source it was asked for, with the
\* bypass asked for and, where PRCI_use_pll has the PLL divide, the divider.
Established ==
  CASE call.fn = "use_hfrosc"         -> ~pll.sel
    [] call.fn = "use_default_clocks" -> ~pll.sel /\ ~lfrosc
    [] OTHER ->
         /\ pll.sel /\ pll.refsel = call.refsel /\ pll.bypass = call.bypass
         /\ call.driver = "prci" /\ ~call.bypass => pll.finaldiv = call.finaldiv

SwitchesAsAsked == [][pc # "idle" /\ pc' = "idle" => Established']_vars

\* Every call returns, wherever mtime wraps: nothing but the wait for four
\* ticks of an RTC that has no clock but the LFROSC, which an earlier
\* use_default_clocks has turned off, can hold one up for good.
HangsOnlyWithoutRtc ==
  (pc # "idle") ~> (pc = "idle" \/ (pc = "wait" /\ ~extlf /\ ~lfrosc))
=============================================================================
