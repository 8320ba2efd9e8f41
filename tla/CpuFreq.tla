------------------------------ MODULE CpuFreq ------------------------------
(***************************************************************************)
(* Measuring the CPU's frequency against the RTC: measure_cpu_freq,        *)
(* get_cpu_freq and uart_init of fw/bsp/env/tgfs-vp/init.c, and            *)
(* PRCI_measure_mcycle_freq with its rdmcycle of the PRCI driver.  Time is *)
(* counted in CPU cycles; every read of mtime or of a cycle CSR is a step, *)
(* and between two steps between 1 and Poll cycles pass.  The clock calls  *)
(* of PrciClocks are seen here only as changes of the CPU's frequency.     *)
(***************************************************************************)
EXTENDS Integers, Sequences

CONSTANTS
  Word,        \* 2^32 in the code: mtime, mcycle and mcycleh are words
  Poll,        \* most cycles between two reads
  RtcFreq,     \* get_timer_freq(), 32768 in the code
  RealTicks,   \* ticks of the measurement "for real", 10 in the code
  Baud,        \* argument of uart_init
  Programs,    \* sequences of calls, one of which is made
  Starts,      \* states of the counters at reset
  ResetPeriod, \* CPU cycles per RTC tick at reset
  MaxHi        \* bound: values of mcycleh

\* "clock" stands for the clock calls: val is the number of cycles per RTC
\* tick after them.  The val of "measure" is mtime_ticks.
CallRecords == [fn : {"clock", "get_cpu_freq", "uart_init", "measure"}, val : Nat \ {0}]

ASSUME FreqAssumption ==
  /\ {Word, Poll, RtcFreq, RealTicks, Baud} \subseteq Nat \ {0}
  /\ RealTicks > 1
  /\ MaxHi \in Nat
  /\ Starts \subseteq [mtime : 0 .. Word - 1, mcycleh : 0 .. MaxHi, mcycle : 0 .. Word - 1]
  /\ Programs \subseteq Seq(CallRecords)
  /\ ResetPeriod \in Nat \ {0}

\* The calls that may be made, and the speeds the CPU may have.
CallsMade == UNION {{p[i] : i \in 1 .. Len(p)} : p \in Programs}
Periods   == {ResetPeriod} \cup {c.val : c \in {d \in CallsMade : d.fn = "clock"}}
Measures  == {c.val : c \in {d \in CallsMade : d.fn = "measure"}}

\* No tick of the RTC goes by between two reads.
ASSUME PollAssumption == \A p \in Periods : Poll < p

\* The cycles of a measurement and its result are words, and a window of the
\* driver is not over before its start is taken.
ASSUME WordAssumption ==
  \A p \in Periods :
    /\ RealTicks * p + 4 * Poll <= Word
    /\ (p + 2 * Poll) * RtcFreq <= Word
    /\ \A n \in Measures :
         /\ 9 * Poll <= (n + 1) * p
         /\ n * p + 9 * Poll <= Word
         /\ (n * p + 6 * Poll) * RtcFreq <= Word * n

\* The UART's divider is not below its least.
ASSUME BaudAssumption ==
  \A p \in Periods : 2 * Poll * RtcFreq + (Baud + 1) * RealTicks <= p * RtcFreq * RealTicks

VARIABLES
  mtime,        \* CLINT: low word of mtime
  phase,        \* cycles since its last tick
  mcycleh,      \* CSR
  mcycle,       \* CSR
  period,       \* CPU cycles per RTC tick
  slack,        \* cycles since the last step
  pc,           \* next step of the running call
  calls,        \* the running call and those to come
  loc,          \* the local variables, see Locals
  ret,          \* where rdmcycle continues
  cpu_freq,     \* static of get_cpu_freq, 0 before
  div,          \* UART0 DIV, 0 before uart_init
  snap,         \* history: <<mcycleh, mcycle>> when rdmcycle read lo
  measured,     \* history: result of the last measurement
  stale         \* history: the clock was switched since cpu_freq was set

\* ticks is n or mtime_ticks, tmp the sample the next edge is waited for from,
\* hi and lo those of rdmcycle.
Locals   == {"ticks", "tmp", "start_mtime", "end_mtime", "delta_mtime", "start_mcycle", "hi", "lo"}
NoLocals == [l \in Locals |-> 0]

time == <<mtime, phase, mcycleh, mcycle>>
out  == <<cpu_freq, div, measured, stale>>
vars == <<time, period, slack, pc, calls, loc, ret, snap, out>>

Init ==
  /\ \E s \in Starts : mtime = s.mtime /\ mcycleh = s.mcycleh /\ mcycle = s.mcycle
  /\ period = ResetPeriod
  /\ phase \in 0 .. ResetPeriod - 1
  /\ slack = 0
  /\ pc = "next"
  /\ calls \in Programs
  /\ loc = NoLocals
  /\ ret = "p_start"
  /\ snap = <<0, 0>>
  /\ cpu_freq = 0
  /\ div = 0
  /\ measured = [freq |-> 0, ticks |-> 0, period |-> 0, reads |-> 0]
  /\ stale = FALSE

-----------------------------------------------------------------------------
(* Time *)

Cycle ==
  /\ calls # <<>>
  /\ slack < Poll
  /\ slack' = slack + 1
  /\ IF phase + 1 < period
       THEN phase' = phase + 1 /\ UNCHANGED mtime
       ELSE phase' = 0 /\ mtime' = (mtime + 1) % Word
  /\ \/ mcycle + 1 < Word /\ mcycle' = mcycle + 1 /\ UNCHANGED mcycleh
     \/ mcycle + 1 = Word /\ mcycle' = 0 /\ mcycleh < MaxHi /\ mcycleh' = mcycleh + 1
  /\ UNCHANGED <<period, pc, calls, loc, ret, snap, out>>

\* One step of the code at label l, some cycles after the last.
At(l) ==
  /\ pc = l
  /\ slack > 0
  /\ slack' = 0
  /\ UNCHANGED <<time, period>>

Goto(l) == pc' = l /\ UNCHANGED calls

Rdmcycle(l) == Goto("hi") /\ ret' = l

Calling(fns) == calls # <<>> /\ Head(calls).fn \in fns

Return == pc' = "next" /\ calls' = Tail(calls) /\ loc' = NoLocals

\* The local l gets the value v.
Assign(l, v) == loc' = [loc EXCEPT ![l] = v]

\* The measurement has the result f; reads is the most reads that can lie
\* between a tick and the value taken of mcycle.
Measure(f, reads) ==
  measured' = [freq |-> f, ticks |-> loc.ticks, period |-> period, reads |-> reads]

-----------------------------------------------------------------------------
(* init.c *)

\* get_cpu_freq: measure_cpu_freq(1) to warm up, if nothing is cached
GetCpuFreq ==
  /\ Calling({"get_cpu_freq", "uart_init"})
  /\ At("next")
  /\ IF cpu_freq = 0
       THEN Goto("sample") /\ Assign("ticks", 1)
       ELSE Goto("got") /\ UNCHANGED loc
  /\ UNCHANGED <<ret, snap, out>>

\* measure_cpu_freq: tmp = mtime_lo()
Sample ==
  /\ At("sample")
  /\ Assign("tmp", mtime)
  /\ Goto("edge")
  /\ UNCHANGED <<ret, snap, out>>

\* ... until start_mtime # tmp
Edge ==
  /\ At("edge")
  /\ Assign("start_mtime", mtime)
  /\ Goto(IF mtime = loc.tmp THEN "edge" ELSE "start")
  /\ UNCHANGED <<ret, snap, out>>

StartCycle ==
  /\ At("start")
  /\ Assign("start_mcycle", mcycle)
  /\ Goto("window")
  /\ UNCHANGED <<ret, snap, out>>

\* Mutant: the difference is signed.
Delta_Signed == mtime - loc.start_mtime

Delta == (mtime - loc.start_mtime) % Word

\* ... until delta_mtime reaches n
Window ==
  /\ At("window")
  /\ Assign("delta_mtime", Delta)
  /\ Goto(IF Delta < loc.ticks THEN "window" ELSE "result")
  /\ UNCHANGED <<ret, snap, out>>

\* (dc / dm) * mtime_freq + ((dc % dm) * mtime_freq) / dm
Freq(dc, dm) == ((dc \div dm) * RtcFreq + ((dc % dm) * RtcFreq) \div dm) % Word

\* Mutant: the warm-up is kept.
Result_FirstKept ==
  /\ At("result")
  /\ Measure(Freq((mcycle - loc.start_mcycle) % Word, loc.delta_mtime), 2)
  /\ Goto("got") /\ cpu_freq' = measured'.freq /\ stale' = FALSE
  /\ UNCHANGED <<loc, ret, snap, div>>

\* The measurement returns to get_cpu_freq, which drops the warm-up.
Result ==
  /\ At("result")
  /\ Measure(Freq((mcycle - loc.start_mcycle) % Word, loc.delta_mtime), 2)
  /\ \/ /\ loc.ticks = 1
        /\ Goto("sample") /\ Assign("ticks", RealTicks) /\ UNCHANGED <<cpu_freq, stale>>
     \/ /\ loc.ticks # 1
        /\ Goto("got") /\ cpu_freq' = measured'.freq /\ stale' = FALSE /\ UNCHANGED loc
  /\ UNCHANGED <<ret, snap, div>>

\* Back in the caller of get_cpu_freq; uart_init sets the divider.
Got ==
  /\ At("got")
  /\ div' = IF Calling({"uart_init"}) THEN (cpu_freq \div Baud - 1) % Word ELSE div
  /\ Return
  /\ UNCHANGED <<ret, snap, cpu_freq, measured, stale>>

-----------------------------------------------------------------------------
(* PRCI_measure_mcycle_freq *)

End == (mtime + Head(calls).val + 1) % Word

\* Mutant: the rollover of the end is not looked for.
PrciBegin_NoRollover ==
  /\ Calling({"measure"})
  /\ At("next")
  /\ loc' = [loc EXCEPT !["ticks"] = Head(calls).val, !["tmp"] = mtime, !["end_mtime"] = End]
  /\ Goto("p_edge")
  /\ UNCHANGED <<ret, snap, out>>

\* Sample again while the end would roll over.
PrciBegin ==
  /\ Calling({"measure"})
  /\ At("next")
  /\ loc' = [loc EXCEPT !["ticks"] = Head(calls).val, !["tmp"] = mtime, !["end_mtime"] = End]
  /\ Goto(IF End < mtime THEN "next" ELSE "p_edge")
  /\ UNCHANGED <<ret, snap, out>>

PrciEdge ==
  /\ At("p_edge")
  /\ Assign("start_mtime", mtime)
  /\ IF mtime = loc.tmp THEN Goto("p_edge") /\ UNCHANGED ret ELSE Rdmcycle("p_start")
  /\ UNCHANGED <<snap, out>>

\* rdmcycle
ReadHi ==
  /\ At("hi")
  /\ Assign("hi", mcycleh)
  /\ Goto("lo")
  /\ UNCHANGED <<ret, snap, out>>

ReadLo ==
  /\ At("lo")
  /\ Assign("lo", mcycle)
  /\ snap' = <<mcycleh, mcycle>>
  /\ Goto("hi2")
  /\ UNCHANGED <<ret, out>>

\* Mutant: the high word is not compared.
ReadHi2_NoRetry ==
  /\ At("hi2")
  /\ Goto(ret)
  /\ UNCHANGED <<loc, ret, snap, out>>

ReadHi2 ==
  /\ At("hi2")
  /\ Goto(IF loc.hi = mcycleh THEN ret ELSE "hi")
  /\ UNCHANGED <<loc, ret, snap, out>>

\* The difference is truncated to a word: the high words do not matter to it.
PrciStart ==
  /\ At("p_start")
  /\ Assign("start_mcycle", loc.lo)
  /\ Goto("p_window")
  /\ UNCHANGED <<ret, snap, out>>

PrciWindow ==
  /\ At("p_window")
  /\ IF mtime < loc.end_mtime THEN Goto("p_window") /\ UNCHANGED ret ELSE Rdmcycle("p_result")
  /\ UNCHANGED <<loc, snap, out>>

PrciResult ==
  /\ At("p_result")
  /\ Measure(((((loc.lo - loc.start_mcycle) % Word) * RtcFreq) \div loc.ticks) % Word, 6)
  /\ Return
  /\ UNCHANGED <<ret, snap, cpu_freq, div, stale>>

-----------------------------------------------------------------------------

\* The clock is switched; the RTC keeps its own pace.
SwitchClock ==
  /\ Calling({"clock"})
  /\ pc      = "next"
  /\ slack   > 0
  /\ slack'  = 0
  /\ period' = Head(calls).val
  /\ phase'  \in 0 .. Head(calls).val - 1
  /\ stale'  = TRUE
  /\ Return
  /\ UNCHANGED <<mtime, mcycleh, mcycle, ret, snap, cpu_freq, div, measured>>

Step ==
  \/ SwitchClock
  \/ GetCpuFreq \/ Sample \/ Edge \/ StartCycle \/ Window \/ Result \/ Got
  \/ PrciBegin \/ PrciEdge \/ PrciStart \/ PrciWindow \/ PrciResult
  \/ ReadHi \/ ReadLo \/ ReadHi2

Next == Cycle \/ Step

Spec == Init /\ [][Next]_vars

\* Time passes and the hart executes.
FairSpec == Spec /\ WF_vars(Next)

-----------------------------------------------------------------------------
(***************************************************************************)
(* Properties                                                              *)
(***************************************************************************)

Labels ==
  {"next", "sample", "edge", "start", "window", "result", "got",
   "p_edge", "p_start", "p_window", "p_result", "hi", "lo", "hi2"}

TypeOK ==
  /\ mtime    \in 0 .. Word - 1
  /\ period   \in Nat \ {0}
  /\ phase    \in 0 .. period - 1
  /\ mcycleh  \in 0 .. MaxHi
  /\ mcycle   \in 0 .. Word - 1
  /\ slack    \in 0 .. Poll
  /\ pc       \in Labels
  /\ calls    \in Seq(CallRecords)
  /\ loc      \in [Locals -> Nat]
  /\ ret      \in {"p_start", "p_result"}
  /\ snap     \in (0 .. MaxHi) \X (0 .. Word - 1)
  /\ cpu_freq \in 0 .. Word - 1
  /\ div      \in 0 .. Word - 1
  /\ measured \in [freq : 0 .. Word - 1, ticks : Nat, period : Nat, reads : Nat]
  /\ stale    \in BOOLEAN

\* What rdmcycle returns is what the 64-bit counter held when its low word was
\* read, also when the low word carries between the reads.
ReadExact ==
  pc \in {"p_start", "p_result"} => <<loc.hi, loc.lo>> = snap

\* f, measured over n ticks, is the CPU's frequency but for the cycles the
\* reads at an end of the window may take, and rounding.
Fits(f, n, reads) ==
  /\ f * n - period * RtcFreq * n < reads * Poll * RtcFreq + n
  /\ period * RtcFreq * n - f * n < reads * Poll * RtcFreq + n

\* Every measurement is close to the frequency the CPU runs at, wherever mtime
\* and mcycle wrap: the two ends of the window are both taken right after a
\* tick, and all its ticks are counted.
MeasuredClose ==
  measured.ticks # 0 /\ measured.period = period =>
    Fits(measured.freq, measured.ticks, measured.reads)

\* Until the clock is next switched, the cached frequency has the precision of
\* the long measurement, and the UART runs at its baud rate.
BaudFits ==
  ~stale =>
    /\ cpu_freq # 0 => Fits(cpu_freq, RealTicks, 2)
    /\ div # 0 =>
         /\ (div + 1) * Baud <= cpu_freq
         /\ cpu_freq < (div + 2) * Baud

\* Every call returns, also when mtime wraps while it runs.
AllReturn == <>(calls = <<>>)
=============================================================================
