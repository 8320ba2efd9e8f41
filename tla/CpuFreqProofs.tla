--------------------------- MODULE CpuFreqProofs ---------------------------
(***************************************************************************)
(* Proofs about CpuFreq, for words of any size and any calls: types, the   *)
(* two-word read of mcycle, how close the measurements are to the true     *)
(* frequency, and that the UART is set up for it.                          *)
(***************************************************************************)
EXTENDS CpuFreq, SequenceTheorems, TLAPS

\* Inside a call there is one, and its window has a length.
CallsOK ==
  /\ pc # "next" => calls # <<>>
  /\ pc \notin {"next", "got"} => loc.ticks > 0
  /\ pc = "result" => loc.delta_mtime >= loc.ticks

\* The high word only grows: between its two reads lies that of the low word.
ReadInv ==
  /\ pc = "lo" => loc.hi <= mcycleh
  /\ pc = "hi2" => loc.hi <= snap[1] /\ snap[1] <= mcycleh /\ loc.lo = snap[2]
  /\ pc \in {"p_start", "p_result"} => loc.hi = snap[1] /\ loc.lo = snap[2]

IInv == TypeOK /\ CallsOK /\ ReadInv

-----------------------------------------------------------------------------
(* Lemmas *)

\* A word holds remainders.
LEMMA WordRange == ASSUME NEW x \in Int PROVE x % Word \in 0 .. Word - 1
  BY FreqAssumption

\* The first of the calls left, and what is left after it.
LEMMA CallFacts ==
  ASSUME calls \in Seq(CallRecords), calls # <<>>
  PROVE  /\ Head(calls) \in CallRecords
         /\ Head(calls).val \in Nat \ {0}
         /\ Tail(calls) \in Seq(CallRecords)
<1>1. Head(calls) \in CallRecords /\ Tail(calls) \in Seq(CallRecords)
  BY HeadTailProperties
<1> QED
  BY <1>1 DEF CallRecords

\* The frequency of init.c is a word.
LEMMA FreqRange ==
  ASSUME NEW dc \in Nat, NEW dm \in Nat \ {0} PROVE Freq(dc, dm) \in 0 .. Word - 1
<1>1. dc \div dm \in Nat /\ dc % dm \in Nat
  OBVIOUS
<1>2. RtcFreq \in Nat
  BY FreqAssumption
<1>3. ((dc % dm) * RtcFreq) \in Nat /\ (dc \div dm) * RtcFreq \in Nat
  BY <1>1, <1>2
<1>4. ((dc % dm) * RtcFreq) \div dm \in Nat
  BY <1>3
<1> QED
  BY <1>3, <1>4, WordRange DEF Freq

-----------------------------------------------------------------------------
(* The types, in three parts *)

TimeOK ==
  /\ mtime    \in 0 .. Word - 1
  /\ period   \in Nat \ {0}
  /\ phase    \in 0 .. period - 1
  /\ mcycleh  \in 0 .. MaxHi
  /\ mcycle   \in 0 .. Word - 1
  /\ slack    \in 0 .. Poll

ControlOK ==
  /\ pc       \in Labels
  /\ calls    \in Seq(CallRecords)
  /\ loc      \in [Locals -> Nat]
  /\ ret      \in {"p_start", "p_result"}
  /\ snap     \in (0 .. MaxHi) \X (0 .. Word - 1)

OutOK ==
  /\ cpu_freq \in 0 .. Word - 1
  /\ div      \in 0 .. Word - 1
  /\ measured \in [freq : 0 .. Word - 1, ticks : Nat, period : Nat, reads : Nat]
  /\ stale    \in BOOLEAN

\* The parts make up the types.
LEMMA TypeParts == TypeOK <=> TimeOK /\ ControlOK /\ OutOK
  BY DEF TypeOK, TimeOK, ControlOK, OutOK

\* A step of the code leaves time alone.
LEMMA AtTime == ASSUME TimeOK, NEW l, At(l) PROVE TimeOK'
<1>1. Poll \in Nat
  BY FreqAssumption
<1> QED
  BY <1>1 DEF TimeOK, At, time

\* Locals are natural numbers.
LEMMA AssignOK ==
  ASSUME loc \in [Locals -> Nat], NEW l \in Locals, NEW v \in Nat, Assign(l, v)
  PROVE  loc' \in [Locals -> Nat] /\ loc'[l] = v /\ \A k \in Locals \ {l} : loc'[k] = loc[k]
  BY DEF Assign

\* What the code reads is a natural number.
LEMMA ReadNat ==
  ASSUME TypeOK
  PROVE  /\ mtime \in Nat /\ mcycle \in Nat /\ mcycleh \in Nat /\ cpu_freq \in Nat
         /\ \A k \in Locals : loc[k] \in Nat
         /\ loc.ticks \in Nat /\ loc.tmp \in Nat /\ loc.hi \in Nat /\ loc.lo \in Nat
         /\ loc.start_mtime \in Nat /\ loc.end_mtime \in Nat /\ loc.delta_mtime \in Nat
         /\ loc.start_mcycle \in Nat
         /\ Word \in Nat \ {0}
<1>1. Word \in Nat \ {0}
  BY FreqAssumption
<1>2. mtime \in Nat /\ mcycle \in Nat /\ mcycleh \in Nat /\ cpu_freq \in Nat
  BY <1>1, FreqAssumption DEF TypeOK
<1>3. \A k \in Locals : loc[k] \in Nat
  BY DEF TypeOK
<1> QED
  BY <1>1, <1>2, <1>3 DEF Locals

\* The end of a call, whatever it was.
LEMMA ReturnOK == ASSUME ControlOK, calls # <<>>, Return, UNCHANGED <<ret, snap>> PROVE ControlOK'
<1>1. Tail(calls) \in Seq(CallRecords)
  BY CallFacts DEF ControlOK
<1>2. NoLocals \in [Locals -> Nat]
  BY DEF NoLocals
<1> QED
  BY <1>1, <1>2 DEF ControlOK, Return, Labels

\* Types: what the code reads and computes are words and natural numbers.
LEMMA TypeStep == IInv /\ [Next]_vars => TypeOK'
<1> SUFFICES ASSUME IInv, [Next]_vars PROVE TypeOK'
  OBVIOUS
<1>a. TimeOK /\ ControlOK /\ OutOK /\ TypeOK
  BY TypeParts DEF IInv
<1>1. ASSUME Cycle PROVE TypeOK'
  <2>1. ControlOK' /\ OutOK'
    BY <1>a, <1>1 DEF Cycle, ControlOK, OutOK, out
  <2>2. mtime' \in 0 .. Word - 1
    <3>1. (mtime + 1) % Word \in 0 .. Word - 1
      BY <1>a, ReadNat, WordRange
    <3>2. mtime' = mtime \/ mtime' = (mtime + 1) % Word
      BY <1>1 DEF Cycle
    <3> QED
      BY <1>a, <3>1, <3>2 DEF TimeOK
  <2>3. phase' \in 0 .. period - 1 /\ period' = period
    BY <1>a, <1>1 DEF Cycle, TimeOK
  <2>4. mcycleh' \in 0 .. MaxHi /\ mcycle' \in 0 .. Word - 1
    <3>1. \/ mcycle + 1 < Word /\ mcycle' = mcycle + 1 /\ mcycleh' = mcycleh
          \/ mcycle' = 0 /\ mcycleh < MaxHi /\ mcycleh' = mcycleh + 1
      BY <1>1 DEF Cycle
    <3>2. MaxHi \in Nat /\ Word \in Nat \ {0}
      BY FreqAssumption
    <3> QED
      BY <1>a, <3>1, <3>2 DEF TimeOK
  <2>5. slack' \in 0 .. Poll
    BY <1>a, <1>1, FreqAssumption DEF Cycle, TimeOK
  <2> QED
    BY <1>a, <2>1, <2>2, <2>3, <2>4, <2>5 DEF TypeOK, TimeOK, ControlOK, OutOK
<1>2. ASSUME SwitchClock PROVE TypeOK'
  <2>1. Head(calls).val \in Nat \ {0} /\ calls # <<>>
    BY <1>2, <1>a, CallFacts DEF SwitchClock, Calling, ControlOK
  <2>2. TimeOK'
    BY <1>2, <1>a, <2>1, FreqAssumption DEF SwitchClock, TimeOK
  <2>3. ControlOK'
    BY <1>2, <1>a, <2>1, ReturnOK DEF SwitchClock
  <2>4. OutOK'
    BY <1>2, <1>a DEF SwitchClock, OutOK
  <2> QED
    BY <2>2, <2>3, <2>4 DEF TypeOK, TimeOK, ControlOK, OutOK
<1>3. ASSUME GetCpuFreq PROVE TypeOK'
  <2>1. TimeOK'
    BY <1>3, <1>a, AtTime DEF GetCpuFreq
  <2>2. loc' \in [Locals -> Nat]
    <3>1. "ticks" \in Locals /\ 1 \in Nat
      BY DEF Locals
    <3>2. CASE cpu_freq = 0
      BY <1>3, <1>a, <3>1, <3>2, AssignOK DEF GetCpuFreq, ControlOK
    <3>3. CASE cpu_freq # 0
      BY <1>3, <1>a, <3>3 DEF GetCpuFreq, ControlOK
    <3> QED
      BY <3>2, <3>3
  <2>3. ControlOK'
    BY <1>3, <1>a, <2>2 DEF GetCpuFreq, ControlOK, Goto, Labels
  <2>4. OutOK'
    BY <1>3, <1>a DEF GetCpuFreq, OutOK, out
  <2> QED
    BY <2>1, <2>3, <2>4 DEF TypeOK, TimeOK, ControlOK, OutOK
<1>4. ASSUME Sample PROVE TypeOK'
  <2>1. TimeOK'
    BY <1>4, <1>a, AtTime DEF Sample
  <2>2. loc' \in [Locals -> Nat]
    <3>1. "tmp" \in Locals /\ mtime \in Nat
      BY <1>a, ReadNat DEF Locals
    <3> QED
      BY <1>4, <1>a, <3>1, AssignOK DEF Sample, ControlOK
  <2>3. ControlOK'
    BY <1>4, <1>a, <2>2 DEF Sample, ControlOK, Goto, Labels
  <2>4. OutOK'
    BY <1>4, <1>a DEF Sample, OutOK, out
  <2> QED
    BY <2>1, <2>3, <2>4 DEF TypeOK, TimeOK, ControlOK, OutOK
<1>5. ASSUME Edge PROVE TypeOK'
  <2>1. TimeOK'
    BY <1>5, <1>a, AtTime DEF Edge
  <2>2. loc' \in [Locals -> Nat]
    <3>1. "start_mtime" \in Locals /\ mtime \in Nat
      BY <1>a, ReadNat DEF Locals
    <3> QED
      BY <1>5, <1>a, <3>1, AssignOK DEF Edge, ControlOK
  <2>3. ControlOK'
    BY <1>5, <1>a, <2>2 DEF Edge, ControlOK, Goto, Labels
  <2>4. OutOK'
    BY <1>5, <1>a DEF Edge, OutOK, out
  <2> QED
    BY <2>1, <2>3, <2>4 DEF TypeOK, TimeOK, ControlOK, OutOK
<1>6. ASSUME StartCycle PROVE TypeOK'
  <2>1. TimeOK'
    BY <1>6, <1>a, AtTime DEF StartCycle
  <2>2. loc' \in [Locals -> Nat]
    <3>1. "start_mcycle" \in Locals /\ mcycle \in Nat
      BY <1>a, ReadNat DEF Locals
    <3> QED
      BY <1>6, <1>a, <3>1, AssignOK DEF StartCycle, ControlOK
  <2>3. ControlOK'
    BY <1>6, <1>a, <2>2 DEF StartCycle, ControlOK, Goto, Labels
  <2>4. OutOK'
    BY <1>6, <1>a DEF StartCycle, OutOK, out
  <2> QED
    BY <2>1, <2>3, <2>4 DEF TypeOK, TimeOK, ControlOK, OutOK
<1>7. ASSUME Window PROVE TypeOK'
  <2>1. TimeOK'
    BY <1>7, <1>a, AtTime DEF Window
  <2>0. Delta \in Nat
    BY <1>a, ReadNat, WordRange DEF Delta
  <2>2. loc' \in [Locals -> Nat]
    <3>1. "delta_mtime" \in Locals /\ Delta \in Nat
      BY <1>a, ReadNat, <2>0 DEF Locals
    <3> QED
      BY <1>7, <1>a, <3>1, AssignOK DEF Window, ControlOK
  <2>3. ControlOK'
    BY <1>7, <1>a, <2>2 DEF Window, ControlOK, Goto, Labels
  <2>4. OutOK'
    BY <1>7, <1>a DEF Window, OutOK, out
  <2> QED
    BY <2>1, <2>3, <2>4 DEF TypeOK, TimeOK, ControlOK, OutOK
<1>8. ASSUME Result PROVE TypeOK'
  <2>1. TimeOK'
    BY <1>8, <1>a, AtTime DEF Result
  <2>5. measured' \in [freq : 0 .. Word - 1, ticks : Nat, period : Nat, reads : Nat]
    <3>1. (mcycle - loc.start_mcycle) % Word \in Nat
      BY <1>a, ReadNat, WordRange
    <3>2. loc.delta_mtime \in Nat \ {0}
      BY <1>8, <1>a, ReadNat DEF Result, At, IInv, CallsOK
    <3>3. Freq((mcycle - loc.start_mcycle) % Word, loc.delta_mtime) \in 0 .. Word - 1
      BY <3>1, <3>2, FreqRange
    <3>4. period \in Nat
      BY <1>a DEF TimeOK
    <3> QED
      BY <1>8, <1>a, <3>3, <3>4, ReadNat DEF Result, Measure
  <2>2. loc' \in [Locals -> Nat]
    <3>1. "ticks" \in Locals /\ RealTicks \in Nat
      BY FreqAssumption DEF Locals
    <3> QED
      BY <1>8, <1>a, <3>1, AssignOK DEF Result, ControlOK
  <2>3. ControlOK'
    BY <1>8, <1>a, <2>2 DEF Result, ControlOK, Goto, Labels
  <2>4. OutOK'
    BY <1>8, <1>a, <2>5 DEF Result, OutOK
  <2> QED
    BY <2>1, <2>3, <2>4 DEF TypeOK, TimeOK, ControlOK, OutOK
<1>9. ASSUME Got PROVE TypeOK'
  <2>1. TimeOK'
    BY <1>9, <1>a, AtTime DEF Got
  <2>3. ControlOK'
    BY <1>9, <1>a, ReturnOK DEF Got, At, IInv, CallsOK
  <2>5. div' \in 0 .. Word - 1
    <3>1. cpu_freq \div Baud \in Int
      BY <1>a, ReadNat, FreqAssumption
    <3> QED
      BY <1>9, <1>a, <3>1, WordRange DEF Got, OutOK
  <2>4. OutOK'
    BY <1>9, <1>a, <2>5 DEF Got, OutOK
  <2> QED
    BY <2>1, <2>3, <2>4 DEF TypeOK, TimeOK, ControlOK, OutOK
<1>10. ASSUME PrciBegin PROVE TypeOK'
  <2>1. TimeOK'
    BY <1>10, <1>a, AtTime DEF PrciBegin
  <2>5. Head(calls).val \in Nat \ {0}
    BY <1>10, <1>a, CallFacts DEF PrciBegin, Calling, ControlOK
  <2>6. End \in Nat
    BY <1>a, <2>5, ReadNat, WordRange DEF End
  <2>2. loc' \in [Locals -> Nat]
    BY <1>10, <1>a, <2>5, <2>6, ReadNat DEF PrciBegin, ControlOK
  <2>3. ControlOK'
    BY <1>10, <1>a, <2>2 DEF PrciBegin, ControlOK, Goto, Labels
  <2>4. OutOK'
    BY <1>10, <1>a DEF PrciBegin, OutOK, out
  <2> QED
    BY <2>1, <2>3, <2>4 DEF TypeOK, TimeOK, ControlOK, OutOK
<1>11. ASSUME PrciEdge PROVE TypeOK'
  <2>1. TimeOK'
    BY <1>11, <1>a, AtTime DEF PrciEdge
  <2>2. loc' \in [Locals -> Nat]
    <3>1. "start_mtime" \in Locals /\ mtime \in Nat
      BY <1>a, ReadNat DEF Locals
    <3> QED
      BY <1>11, <1>a, <3>1, AssignOK DEF PrciEdge, ControlOK
  <2>3. ControlOK'
    BY <1>11, <1>a, <2>2 DEF PrciEdge, ControlOK, Goto, Labels, Rdmcycle
  <2>4. OutOK'
    BY <1>11, <1>a DEF PrciEdge, OutOK, out
  <2> QED
    BY <2>1, <2>3, <2>4 DEF TypeOK, TimeOK, ControlOK, OutOK
<1>12. ASSUME PrciStart PROVE TypeOK'
  <2>1. TimeOK'
    BY <1>12, <1>a, AtTime DEF PrciStart
  <2>2. loc' \in [Locals -> Nat]
    <3>1. "start_mcycle" \in Locals /\ loc.lo \in Nat
      BY <1>a, ReadNat DEF Locals
    <3> QED
      BY <1>12, <1>a, <3>1, AssignOK DEF PrciStart, ControlOK
  <2>3. ControlOK'
    BY <1>12, <1>a, <2>2 DEF PrciStart, ControlOK, Goto, Labels
  <2>4. OutOK'
    BY <1>12, <1>a DEF PrciStart, OutOK, out
  <2> QED
    BY <2>1, <2>3, <2>4 DEF TypeOK, TimeOK, ControlOK, OutOK
<1>13. ASSUME PrciWindow PROVE TypeOK'
  <2>1. TimeOK'
    BY <1>13, <1>a, AtTime DEF PrciWindow
  <2>3. ControlOK'
    BY <1>13, <1>a DEF PrciWindow, ControlOK, Goto, Labels, Rdmcycle
  <2>4. OutOK'
    BY <1>13, <1>a DEF PrciWindow, OutOK, out
  <2> QED
    BY <2>1, <2>3, <2>4 DEF TypeOK, TimeOK, ControlOK, OutOK
<1>14. ASSUME PrciResult PROVE TypeOK'
  <2>1. TimeOK'
    BY <1>14, <1>a, AtTime DEF PrciResult
  <2>3. ControlOK'
    BY <1>14, <1>a, ReturnOK DEF PrciResult, At, IInv, CallsOK
  <2>5. measured' \in [freq : 0 .. Word - 1, ticks : Nat, period : Nat, reads : Nat]
    <3>1. (loc.lo - loc.start_mcycle) % Word \in Nat
      BY <1>a, ReadNat, WordRange
    <3>2. loc.ticks \in Nat \ {0}
      BY <1>14, <1>a, ReadNat DEF PrciResult, At, IInv, CallsOK
    <3>3. ((loc.lo - loc.start_mcycle) % Word) * RtcFreq \in Nat
      BY <3>1, FreqAssumption
    <3>4. (((loc.lo - loc.start_mcycle) % Word) * RtcFreq) \div loc.ticks \in Int
      BY <3>2, <3>3
    <3>5. ((((loc.lo - loc.start_mcycle) % Word) * RtcFreq) \div loc.ticks) % Word \in 0 .. Word - 1
      BY <3>4, WordRange
    <3>6. period \in Nat
      BY <1>a DEF TimeOK
    <3> QED
      BY <1>14, <1>a, <3>5, <3>6, ReadNat DEF PrciResult, Measure
  <2>4. OutOK'
    BY <1>14, <1>a, <2>5 DEF PrciResult, OutOK
  <2> QED
    BY <2>1, <2>3, <2>4 DEF TypeOK, TimeOK, ControlOK, OutOK
<1>15. ASSUME ReadHi PROVE TypeOK'
  <2>1. TimeOK'
    BY <1>15, <1>a, AtTime DEF ReadHi
  <2>2. loc' \in [Locals -> Nat]
    <3>1. "hi" \in Locals /\ mcycleh \in Nat
      BY <1>a, ReadNat DEF Locals
    <3> QED
      BY <1>15, <1>a, <3>1, AssignOK DEF ReadHi, ControlOK
  <2>3. ControlOK'
    BY <1>15, <1>a, <2>2 DEF ReadHi, ControlOK, Goto, Labels
  <2>4. OutOK'
    BY <1>15, <1>a DEF ReadHi, OutOK, out
  <2> QED
    BY <2>1, <2>3, <2>4 DEF TypeOK, TimeOK, ControlOK, OutOK
<1>16. ASSUME ReadLo PROVE TypeOK'
  <2>1. TimeOK'
    BY <1>16, <1>a, AtTime DEF ReadLo
  <2>2. loc' \in [Locals -> Nat]
    <3>1. "lo" \in Locals /\ mcycle \in Nat
      BY <1>a, ReadNat DEF Locals
    <3> QED
      BY <1>16, <1>a, <3>1, AssignOK DEF ReadLo, ControlOK
  <2>5. snap' \in (0 .. MaxHi) \X (0 .. Word - 1)
    BY <1>16, <1>a DEF ReadLo, TimeOK
  <2>3. ControlOK'
    BY <1>16, <1>a, <2>2, <2>5 DEF ReadLo, ControlOK, Goto, Labels
  <2>4. OutOK'
    BY <1>16, <1>a DEF ReadLo, OutOK, out
  <2> QED
    BY <2>1, <2>3, <2>4 DEF TypeOK, TimeOK, ControlOK, OutOK
<1>17. ASSUME ReadHi2 PROVE TypeOK'
  <2>1. TimeOK'
    BY <1>17, <1>a, AtTime DEF ReadHi2
  <2>3. ControlOK'
    BY <1>17, <1>a DEF ReadHi2, ControlOK, Goto, Labels
  <2>4. OutOK'
    BY <1>17, <1>a DEF ReadHi2, OutOK, out
  <2> QED
    BY <2>1, <2>3, <2>4 DEF TypeOK, TimeOK, ControlOK, OutOK
<1>50. ASSUME UNCHANGED vars PROVE TypeOK'
  BY <1>50 DEF IInv, TypeOK, vars, time, out
<1> QED
  BY <1>1, <1>2, <1>3, <1>4, <1>5, <1>6, <1>7, <1>8, <1>9, <1>10, <1>11, <1>12, <1>13, <1>14, <1>15, <1>16, <1>17, <1>50 DEF Next, Step

\* A window has a length, and a call runs, until the call returns.
LEMMA CallsStep == IInv /\ [Next]_vars => CallsOK'
<1> SUFFICES ASSUME IInv, [Next]_vars PROVE CallsOK'
  OBVIOUS
<1>a. TypeOK /\ loc \in [Locals -> Nat]
  BY DEF IInv, TypeOK
<1>1. ASSUME Cycle PROVE CallsOK'
  BY <1>1 DEF Cycle, IInv, CallsOK
<1>2. ASSUME SwitchClock PROVE CallsOK'
  BY <1>2 DEF SwitchClock, At, Return, CallsOK
<1>3. ASSUME GetCpuFreq PROVE CallsOK'
  <2>1. calls' # <<>>
    BY <1>3 DEF GetCpuFreq, Calling, Goto
  <2>2. CASE cpu_freq = 0
    BY <1>3, <1>a, <2>1, <2>2 DEF GetCpuFreq, At, Goto, Assign, CallsOK, Locals
  <2>3. CASE cpu_freq # 0
    BY <1>3, <2>1, <2>3 DEF GetCpuFreq, At, Goto, CallsOK
  <2> QED
    BY <2>2, <2>3
<1>4. ASSUME Sample PROVE CallsOK'
  <2>1. loc'.ticks = loc.ticks
    BY <1>4, <1>a DEF Sample, Assign, Locals
  <2> QED
    BY <1>4, <2>1 DEF Sample, At, Goto, IInv, CallsOK
<1>5. ASSUME Edge PROVE CallsOK'
  <2>1. loc'.ticks = loc.ticks
    BY <1>5, <1>a DEF Edge, Assign, Locals
  <2> QED
    BY <1>5, <2>1 DEF Edge, At, Goto, IInv, CallsOK
<1>6. ASSUME StartCycle PROVE CallsOK'
  <2>1. loc'.ticks = loc.ticks
    BY <1>6, <1>a DEF StartCycle, Assign, Locals
  <2> QED
    BY <1>6, <2>1 DEF StartCycle, At, Goto, IInv, CallsOK
<1>7. ASSUME Window PROVE CallsOK'
  <2>1. Delta \in Nat /\ loc.ticks \in Nat
    BY <1>a, ReadNat, WordRange DEF Delta
  <2>2. loc'.ticks = loc.ticks /\ loc'.delta_mtime = Delta
    BY <1>7, <1>a DEF Window, Assign, Locals
  <2> QED
    BY <1>7, <2>1, <2>2 DEF Window, At, Goto, IInv, CallsOK
<1>8. ASSUME Result PROVE CallsOK'
  <2>1. CASE loc.ticks = 1
    <3>1. loc'.ticks > 0
      BY <1>8, <1>a, <2>1, FreqAssumption DEF Result, Assign, Locals
    <3> QED
      BY <1>8, <2>1, <3>1 DEF Result, At, Goto, IInv, CallsOK
  <2>2. CASE loc.ticks # 1
    BY <1>8, <2>2 DEF Result, At, Goto, IInv, CallsOK
  <2> QED
    BY <2>1, <2>2
<1>9. ASSUME Got PROVE CallsOK'
  BY <1>9 DEF Got, At, Return, CallsOK
<1>10. ASSUME PrciBegin PROVE CallsOK'
  <2>1. Head(calls).val \in Nat \ {0} /\ calls' # <<>>
    BY <1>10, <1>a, CallFacts DEF PrciBegin, Calling, Goto, TypeOK
  <2>2. loc'.ticks = Head(calls).val
    BY <1>10, <1>a DEF PrciBegin, Locals
  <2> QED
    BY <1>10, <2>1, <2>2 DEF PrciBegin, At, Goto, CallsOK
<1>11. ASSUME PrciEdge PROVE CallsOK'
  <2>1. loc'.ticks = loc.ticks
    BY <1>11, <1>a DEF PrciEdge, Assign, Locals
  <2> QED
    BY <1>11, <2>1 DEF PrciEdge, At, Goto, Rdmcycle, IInv, CallsOK
<1>12. ASSUME PrciStart PROVE CallsOK'
  <2>1. loc'.ticks = loc.ticks
    BY <1>12, <1>a DEF PrciStart, Assign, Locals
  <2> QED
    BY <1>12, <2>1 DEF PrciStart, At, Goto, IInv, CallsOK
<1>13. ASSUME PrciWindow PROVE CallsOK'
  BY <1>13 DEF PrciWindow, At, Goto, Rdmcycle, IInv, CallsOK
<1>14. ASSUME PrciResult PROVE CallsOK'
  BY <1>14 DEF PrciResult, At, Return, CallsOK
<1>15. ASSUME ReadHi PROVE CallsOK'
  <2>1. loc'.ticks = loc.ticks
    BY <1>15, <1>a DEF ReadHi, Assign, Locals
  <2> QED
    BY <1>15, <2>1 DEF ReadHi, At, Goto, IInv, CallsOK
<1>16. ASSUME ReadLo PROVE CallsOK'
  <2>1. loc'.ticks = loc.ticks
    BY <1>16, <1>a DEF ReadLo, Assign, Locals
  <2> QED
    BY <1>16, <2>1 DEF ReadLo, At, Goto, IInv, CallsOK
<1>17. ASSUME ReadHi2 PROVE CallsOK'
  BY <1>17 DEF ReadHi2, At, Goto, IInv, TypeOK, CallsOK
<1>50. ASSUME UNCHANGED vars PROVE CallsOK'
  BY <1>50 DEF IInv, CallsOK, vars
<1> QED
  BY <1>1, <1>2, <1>3, <1>4, <1>5, <1>6, <1>7, <1>8, <1>9, <1>10, <1>11, <1>12, <1>13, <1>14, <1>15, <1>16, <1>17, <1>50 DEF Next, Step

\* Only the two reads of the high word and time between them matter.
LEMMA ReadStep == IInv /\ [Next]_vars => ReadInv'
<1> SUFFICES ASSUME IInv, [Next]_vars PROVE ReadInv'
  OBVIOUS
<1>a. TypeOK /\ loc \in [Locals -> Nat] /\ mcycleh \in Nat /\ snap[1] \in Nat
  <2>1. TypeOK
    BY DEF IInv
  <2>2. loc \in [Locals -> Nat] /\ mcycleh \in 0 .. MaxHi
    BY <2>1 DEF TypeOK
  <2>3. snap \in (0 .. MaxHi) \X (0 .. Word - 1)
    BY <2>1 DEF TypeOK
  <2>4. mcycleh \in Nat
    BY <2>2, FreqAssumption
  <2>5. snap[1] \in 0 .. MaxHi
    BY <2>3
  <2>6. snap[1] \in Nat
    BY <2>5, FreqAssumption
  <2> QED
    BY <2>1, <2>2, <2>4, <2>6
<1>1. ASSUME Cycle PROVE ReadInv'
  <2>1. loc.hi \in Nat /\ mcycleh' \in Nat /\ mcycleh <= mcycleh'
    BY <1>1, <1>a, ReadNat DEF Cycle
  <2> QED
    BY <1>1, <1>a, <2>1 DEF Cycle, IInv, ReadInv
<1>2. ASSUME SwitchClock PROVE ReadInv'
  BY <1>2 DEF SwitchClock, Return, ReadInv
<1>3. ASSUME GetCpuFreq PROVE ReadInv'
  BY <1>3 DEF GetCpuFreq, Goto, ReadInv
<1>4. ASSUME Sample PROVE ReadInv'
  BY <1>4 DEF Sample, Goto, ReadInv
<1>5. ASSUME Edge PROVE ReadInv'
  BY <1>5 DEF Edge, Goto, ReadInv
<1>6. ASSUME StartCycle PROVE ReadInv'
  BY <1>6 DEF StartCycle, Goto, ReadInv
<1>7. ASSUME Window PROVE ReadInv'
  BY <1>7 DEF Window, Goto, ReadInv
<1>8. ASSUME Result PROVE ReadInv'
  BY <1>8 DEF Result, Goto, ReadInv
<1>9. ASSUME Got PROVE ReadInv'
  BY <1>9 DEF Got, Return, ReadInv
<1>10. ASSUME PrciBegin PROVE ReadInv'
  BY <1>10 DEF PrciBegin, Goto, ReadInv
<1>11. ASSUME PrciEdge PROVE ReadInv'
  BY <1>11 DEF PrciEdge, Goto, Rdmcycle, ReadInv
<1>12. ASSUME PrciStart PROVE ReadInv'
  BY <1>12 DEF PrciStart, Goto, ReadInv
<1>13. ASSUME PrciWindow PROVE ReadInv'
  BY <1>13 DEF PrciWindow, Goto, Rdmcycle, ReadInv
<1>14. ASSUME PrciResult PROVE ReadInv'
  BY <1>14 DEF PrciResult, Return, ReadInv
<1>15. ASSUME ReadHi PROVE ReadInv'
  <2>1. loc'.hi = mcycleh /\ mcycleh' = mcycleh
    BY <1>15, <1>a DEF ReadHi, Assign, At, time, Locals
  <2> QED
    BY <1>15, <1>a, <2>1 DEF ReadHi, Goto, ReadInv
<1>16. ASSUME ReadLo PROVE ReadInv'
  <2>1. loc'.hi = loc.hi /\ loc'.lo = mcycle /\ mcycleh' = mcycleh
    BY <1>16, <1>a DEF ReadLo, Assign, At, time, Locals
  <2>2. snap'[1] = mcycleh /\ snap'[2] = mcycle /\ loc.hi <= mcycleh
    BY <1>16 DEF ReadLo, At, IInv, ReadInv
  <2> QED
    BY <1>16, <1>a, <2>1, <2>2 DEF ReadLo, Goto, ReadInv
<1>17. ASSUME ReadHi2 PROVE ReadInv'
  <2>1. loc.hi <= snap[1] /\ snap[1] <= mcycleh /\ loc.lo = snap[2] /\ loc.hi \in Nat
    BY <1>17, <1>a, ReadNat DEF ReadHi2, At, IInv, ReadInv
  <2>2. ret \in {"p_start", "p_result"}
    BY <1>a DEF TypeOK
  <2>3. CASE loc.hi = mcycleh
    BY <1>17, <1>a, <2>1, <2>2, <2>3 DEF ReadHi2, Goto, ReadInv
  <2>4. CASE loc.hi # mcycleh
    BY <1>17, <2>4 DEF ReadHi2, Goto, ReadInv
  <2> QED
    BY <2>3, <2>4
<1>50. ASSUME UNCHANGED vars PROVE ReadInv'
  BY <1>50 DEF IInv, ReadInv, vars, time
<1> QED
  BY <1>1, <1>2, <1>3, <1>4, <1>5, <1>6, <1>7, <1>8, <1>9, <1>10, <1>11, <1>12, <1>13, <1>14, <1>15, <1>16, <1>17, <1>50 DEF Next, Step

\* At reset no call runs.
LEMMA InitInv == Init => IInv
<1> SUFFICES ASSUME Init PROVE IInv
  OBVIOUS
<1>1. TimeOK
  BY FreqAssumption DEF Init, TimeOK
<1>2. ControlOK
  <2>1. calls \in Seq(CallRecords) /\ 0 \in 0 .. MaxHi /\ 0 \in 0 .. Word - 1
    BY FreqAssumption DEF Init
  <2> QED
    BY <2>1 DEF Init, ControlOK, Labels, NoLocals
<1>3. OutOK
  <2>1. 0 \in 0 .. Word - 1
    BY FreqAssumption
  <2>2. measured \in [freq : 0 .. Word - 1, ticks : Nat, period : Nat, reads : Nat]
    BY <2>1 DEF Init
  <2> QED
    BY <2>1, <2>2 DEF Init, OutOK
<1>4. CallsOK /\ ReadInv
  BY DEF Init, CallsOK, ReadInv
<1> QED
  BY <1>1, <1>2, <1>3, <1>4, TypeParts DEF IInv

-----------------------------------------------------------------------------
(* Arithmetic *)

\* Differences and successors of words.
LEMMA WordDiff ==
  ASSUME NEW w \in Nat \ {0}, NEW x \in 0 .. w - 1, NEW m \in 0 .. w - 1
  PROVE  (x - m) % w = IF m <= x THEN x - m ELSE x - m + w
OBVIOUS

LEMMA WordNext ==
  ASSUME NEW w \in Nat \ {0}, NEW x \in 0 .. w - 1
  PROVE  (x + 1) % w = IF x + 1 < w THEN x + 1 ELSE 0
OBVIOUS

\* A counter that is a step ahead is a step further from where it was.
LEMMA WordAdvance ==
  ASSUME NEW w \in Nat \ {0}, NEW x \in 0 .. w - 1, NEW m \in 0 .. w - 1,
         ((x - m) % w) + 1 < w
  PROVE  (((x + 1) % w) - m) % w = ((x - m) % w) + 1
<1>1. (x - m) % w = IF m <= x THEN x - m ELSE x - m + w
  BY WordDiff
<1>2. (x + 1) % w = IF x + 1 < w THEN x + 1 ELSE 0
  BY WordNext
<1>3. (x + 1) % w \in 0 .. w - 1
  BY <1>2
<1>4. (((x + 1) % w) - m) % w = IF m <= (x + 1) % w THEN ((x + 1) % w) - m ELSE ((x + 1) % w) - m + w
  BY <1>3, WordDiff
<1> QED
  BY <1>1, <1>2, <1>4

\* Multiplication keeps an order.
LEMMA Times ==
  ASSUME NEW a \in Int, NEW b \in Int, NEW c \in Nat
  PROVE  /\ a <= b => a * c <= b * c
         /\ a < b /\ c # 0 => a * c < b * c
OBVIOUS

\* a \div d, times d, is a but for a remainder.
LEMMA DivRem ==
  ASSUME NEW a \in Nat, NEW d \in Nat \ {0}
  PROVE  a = d * (a \div d) + (a % d) /\ a % d \in 0 .. d - 1 /\ a \div d \in Nat
OBVIOUS

LEMMA Floor ==
  ASSUME NEW a \in Nat, NEW d \in Nat \ {0}
  PROVE  a \div d \in Nat /\ (a \div d) * d <= a /\ a < (a \div d) * d + d
BY DivRem

\* A quotient of cycles by ticks, scaled by the frequency of the ticks.
LEMMA SplitQuotient ==
  ASSUME NEW dc \in Nat, NEW dm \in Nat \ {0}, NEW r \in Nat
  PROVE  LET g == ((dc \div dm) * r) + (((dc % dm) * r) \div dm)
         IN  g \in Nat /\ g * dm <= dc * r /\ dc * r < g * dm + dm
<1> DEFINE q == dc \div dm
           m == dc % dm
           k == (m * r) \div dm
<1>1. dc = dm * q + m /\ m \in Nat /\ q \in Nat
  BY DivRem
<1>2. m * r \in Nat
  BY <1>1
<1>3. k \in Nat /\ k * dm <= m * r /\ m * r < k * dm + dm
  BY <1>2, Floor
<1> HIDE DEF q, m, k
<1>4. (q * r + k) * dm = (q * r) * dm + k * dm
  BY <1>1, <1>3
<1>5. dc * r = (dm * q) * r + m * r
  BY <1>1
<1>6. (dm * q) * r = (q * r) * dm
  BY <1>1
<1>7. q * r + k \in Nat /\ (q * r) * dm \in Nat /\ k * dm \in Nat
  BY <1>1, <1>3
<1>8. (q * r + k) * dm <= dc * r /\ dc * r < (q * r + k) * dm + dm
  BY <1>2, <1>3, <1>4, <1>5, <1>6, <1>7
<1> QED
  BY <1>7, <1>8 DEF q, m, k

\* A frequency f over dm ticks of p cycles, off by fewer than b cycles, is as
\* close over the first n of them.
LEMMA Closeness ==
  ASSUME NEW f \in Nat, NEW dc \in Nat, NEW dm \in Nat \ {0}, NEW n \in Nat, NEW p \in Nat,
         NEW r \in Nat \ {0}, NEW b \in Nat,
         n \in 1 .. dm,
         f * dm <= dc * r, dc * r < f * dm + dm,
         dm * p < dc + b, dc < dm * p + b
  PROVE  /\ f * n - p * r * n < b * r + n
         /\ p * r * n - f * n < b * r + n
<1> DEFINE x == f - p * r
           e == dc - dm * p
<1>1. dm * p \in Nat /\ e \in Int /\ e < b /\ -b < e
  OBVIOUS
<1>2. p * r \in Nat /\ x \in Int
  OBVIOUS
<1>3. x * n = f * n - p * r * n
  BY <1>2
<1>4. x * dm = f * dm - p * r * dm /\ e * r = dc * r - (dm * p) * r
  BY <1>1, <1>2
<1>5. (dm * p) * r = p * r * dm
  OBVIOUS
<1>6. x * dm <= e * r /\ e * r < x * dm + dm
  <2>1. p * r * dm \in Nat /\ f * dm \in Nat /\ dc * r \in Nat
    BY <1>2
  <2> QED
    BY <1>4, <1>5, <2>1
<1>7. e * r < b * r /\ (-b) * r < e * r /\ (-b) * r = -(b * r)
  BY <1>1, Times
<1> HIDE DEF x, e
<1>8. b * r \in Nat /\ e * r \in Int /\ x * dm \in Int /\ x * n \in Int
  BY <1>1, <1>2
<1>9. x * n < b * r + n
  <2>1. CASE x <= 0
    <3>1. x * n <= 0
      BY <2>1, <1>2
    <3> QED
      BY <3>1, <1>8
  <2>2. CASE x > 0
    <3>1. n * x <= dm * x
      BY <2>2, <1>2, Times
    <3>2. n * x = x * n /\ dm * x = x * dm
      BY <1>2
    <3> QED
      BY <3>1, <3>2, <1>6, <1>7, <1>8
  <2> QED
    BY <1>2, <2>1, <2>2
<1>10. -(x * n) < b * r + n
  <2>1. CASE x >= 0
    <3>1. x * n >= 0
      BY <2>1, <1>2
    <3> QED
      BY <3>1, <1>8
  <2>2. CASE x < 0
    <3> DEFINE y == -x - 1
    <3>1. y \in Nat
      BY <2>2, <1>2
    <3>2. y * dm = -(x * dm) - dm /\ y * n = -(x * n) - n
      BY <1>2
    <3>3. n * y <= dm * y /\ n * y = y * n /\ dm * y = y * dm
      BY <3>1, Times
    <3> QED
      BY <3>2, <3>3, <1>6, <1>7, <1>8
  <2> QED
    BY <1>2, <2>1, <2>2
<1> QED
  BY <1>3, <1>8, <1>9, <1>10

-----------------------------------------------------------------------------
(* Where the clocks stand in a measurement *)

\* CPU cycles since the tick start_mtime, and since mcycle was read.
Elapsed == ((mtime - loc.start_mtime) % Word) * period + phase
Age     == (mcycle - loc.start_mcycle) % Word
LoAge   == (mcycle - loc.lo) % Word

\* The values read are words.
ReadWords ==
  /\ loc.tmp \in 0 .. Word - 1 /\ loc.start_mtime \in 0 .. Word - 1
  /\ loc.start_mcycle \in 0 .. Word - 1 /\ loc.lo \in 0 .. Word - 1

\* The RTC has ticked at most once since tmp was read, in the last reads.
EdgeOK == mtime = loc.tmp \/ (mtime = (loc.tmp + 1) % Word /\ phase < slack)

\* The start of the window lies right behind a tick, and every read of mtime
\* less than two reads behind the last.
InitcWindow ==
  /\ Age < Elapsed /\ Elapsed < Age + 2 * Poll
  /\ Elapsed < loc.ticks * period + slack \/ Age <= slack

\* delta_mtime counts the ticks of the window but for the reads at its ends.
InitcResult ==
  /\ loc.delta_mtime * period <= loc.ticks * period + 2 * Poll
  /\ loc.delta_mtime * period + slack < Age + 2 * Poll
  /\ Age + 2 <= loc.delta_mtime * period + Poll + slack

InitcInv ==
  /\ pc \in {"sample", "edge", "start", "window", "result"} => loc.ticks \in {1, RealTicks}
  /\ pc = "edge"   => EdgeOK
  /\ pc = "start"  => slack <= Elapsed /\ Elapsed < Poll + slack
  /\ pc = "window" => InitcWindow
  /\ pc = "result" => InitcResult

Readings == {"hi", "lo", "hi2"}
PrciPcs  == Readings \cup {"p_edge", "p_start", "p_window", "p_result"}

\* What rdmcycle is called for: the time since the tick start_mtime at the
\* start of the window, and since the start at its end; and how much of that
\* time may have passed before the call.
Taken == IF ret = "p_start" THEN Elapsed ELSE Age
Bound == IF ret = "p_start" THEN Poll ELSE loc.ticks * period + Poll - 1

\* A carry into the high word makes rdmcycle read again, once: the next carry
\* is far.
HiOK ==
  \/ Taken < Bound + slack
  \/ Taken < Bound + 3 * Poll + slack /\ mcycle <= 2 * Poll + slack
LoOK ==
  \/ Taken < Bound + Poll + slack /\ (mcycleh = loc.hi \/ mcycle < slack)
  \/ Taken < Bound + 4 * Poll + slack /\ mcycleh = loc.hi /\ mcycle <= 3 * Poll + slack
Hi2OK ==
  \/ Taken < Bound + 2 * Poll + slack /\ (mcycleh = loc.hi \/ mcycle < Poll + slack)
  \/ Taken < Bound + 5 * Poll + slack /\ mcycleh = loc.hi /\ mcycle <= 4 * Poll + slack

\* lo was read right behind the tick start_mtime.
LoStart == LoAge < Elapsed /\ Elapsed < LoAge + 6 * Poll

PrciWindowOK ==
  /\ Age < Elapsed /\ Elapsed < Age + 6 * Poll
  /\ Elapsed < loc.ticks * period + slack \/ Age <= 2 * Poll + slack

\* d cycles are the window of the driver but for the reads at its ends.
PrciFits(d) == loc.ticks * period < d + 6 * Poll /\ d + 2 <= loc.ticks * period + 6 * Poll

PrciInv ==
  /\ pc \in PrciPcs => loc.ticks \in Measures /\ loc.end_mtime < Word
  /\ pc = "p_edge" => loc.end_mtime = loc.tmp + loc.ticks + 1 /\ EdgeOK
  /\ pc \in PrciPcs \ {"p_edge"} => loc.end_mtime = loc.start_mtime + loc.ticks
  /\ pc = "hi"  => HiOK
  /\ pc = "lo"  => LoOK
  /\ pc = "hi2" => Hi2OK
  /\ pc \in {"hi", "lo"} /\ ret = "p_start" => slack <= Elapsed
  /\ pc \in Readings /\ ret = "p_result" => loc.ticks * period < Age + 6 * Poll
  /\ pc = "hi2" /\ ret = "p_start" => LoAge <= slack /\ LoStart
  /\ pc = "p_start" => LoAge <= Poll + slack /\ LoStart
  /\ pc = "p_window" => PrciWindowOK
  /\ pc = "p_result" \/ (pc = "hi2" /\ ret = "p_result") =>
       PrciFits((loc.lo - loc.start_mcycle) % Word)
  /\ pc = "p_start" => ret = "p_start"
  /\ pc = "p_result" => ret = "p_result"

\* The calls are those that may be made, and the speeds.
MadeInv == period \in Periods /\ calls \in Seq(CallsMade)

WInv == IInv /\ MadeInv /\ ReadWords /\ InitcInv /\ PrciInv

\* What the assumptions say of the speed the CPU runs at.
LEMMA PeriodFacts ==
  ASSUME NEW p \in Periods
  PROVE  /\ p \in Nat /\ Poll < p /\ Poll \in Nat \ {0} /\ Word \in Nat \ {0}
         /\ RtcFreq \in Nat \ {0} /\ RealTicks \in Nat /\ RealTicks > 1 /\ Baud \in Nat \ {0}
         /\ RealTicks * p + 4 * Poll <= Word
         /\ (p + 2 * Poll) * RtcFreq <= Word
         /\ 2 * Poll * RtcFreq + (Baud + 1) * RealTicks <= p * RtcFreq * RealTicks
         /\ p <= RealTicks * p
<1>1. p \in Nat
  <2>1. CallsMade \subseteq CallRecords
    <3> SUFFICES ASSUME NEW q \in Programs, NEW i \in 1 .. Len(q) PROVE q[i] \in CallRecords
      BY DEF CallsMade
    <3>1. q \in Seq(CallRecords)
      BY FreqAssumption
    <3> QED
      BY <3>1, ElementOfSeq
  <2> QED
    BY <2>1, FreqAssumption DEF Periods, CallRecords
<1>2. /\ Poll \in Nat \ {0} /\ Word \in Nat \ {0} /\ RtcFreq \in Nat \ {0}
      /\ RealTicks \in Nat /\ RealTicks > 1 /\ Baud \in Nat \ {0}
  BY FreqAssumption
<1>3. 1 * p <= RealTicks * p /\ 1 * p = p
  BY <1>1, <1>2, Times
<1> QED
  BY <1>1, <1>2, <1>3, PollAssumption, WordAssumption, BaudAssumption

\* And of the windows of the driver.
LEMMA MeasureFacts ==
  ASSUME NEW p \in Periods, NEW n \in Measures
  PROVE  /\ n \in Nat \ {0} /\ n * p \in Nat
         /\ 9 * Poll <= n * p + p
         /\ n * p + 9 * Poll <= Word
         /\ (n * p + 6 * Poll) * RtcFreq <= Word * n
         /\ 9 * Poll <= 2 * (n * p)
<1>1. n \in Nat \ {0}
  <2>1. CallsMade \subseteq CallRecords
    <3> SUFFICES ASSUME NEW q \in Programs, NEW i \in 1 .. Len(q) PROVE q[i] \in CallRecords
      BY DEF CallsMade
    <3>1. q \in Seq(CallRecords)
      BY FreqAssumption
    <3> QED
      BY <3>1, ElementOfSeq
  <2> QED
    BY <2>1 DEF Measures, CallRecords
<1>2. p \in Nat /\ Poll \in Nat
  BY PeriodFacts
<1>3. (n + 1) * p = n * p + p /\ n * p \in Nat
  BY <1>1, <1>2
<1>4. 1 * p <= n * p /\ 1 * p = p
  BY <1>1, <1>2, Times
<1>5. /\ 9 * Poll <= (n + 1) * p
      /\ n * p + 9 * Poll <= Word
      /\ (n * p + 6 * Poll) * RtcFreq <= Word * n
  BY WordAssumption
<1>6. ASSUME NEW a \in Nat, 9 * Poll <= a + p, p <= a PROVE 9 * Poll <= 2 * a
  BY <1>2, <1>6
<1> QED
  BY <1>1, <1>3, <1>4, <1>5, <1>6

\* What the code waits for is counted in natural numbers.
LEMMA ClockTypes ==
  ASSUME IInv, MadeInv, ReadWords
  PROVE  /\ period \in Nat /\ phase \in 0 .. period - 1 /\ slack \in 0 .. Poll
         /\ mtime \in 0 .. Word - 1 /\ mcycle \in 0 .. Word - 1
         /\ mcycleh \in Nat
         /\ Elapsed \in Nat /\ Age \in 0 .. Word - 1 /\ LoAge \in 0 .. Word - 1
         /\ loc.ticks \in Nat /\ loc.ticks * period \in Nat
         /\ ((mtime - loc.start_mtime) % Word) \in 0 .. Word - 1
         /\ Elapsed = ((mtime - loc.start_mtime) % Word) * period + phase
<1>1. TimeOK /\ loc.ticks \in Nat
  BY TypeParts, ReadNat DEF IInv
<1>2. Word \in Nat \ {0}
  BY FreqAssumption
<1>3. mtime \in Int /\ mcycle \in Int /\ loc.start_mtime \in Int /\ loc.start_mcycle \in Int
      /\ loc.lo \in Int
  BY <1>1, <1>2 DEF TimeOK, ReadWords
<1>4. /\ (mtime - loc.start_mtime) % Word \in 0 .. Word - 1
      /\ Age \in 0 .. Word - 1 /\ LoAge \in 0 .. Word - 1
  BY <1>3, WordRange DEF Age, LoAge
<1>5. period \in Nat /\ phase \in Nat
  BY <1>1 DEF TimeOK
<1>6. ((mtime - loc.start_mtime) % Word) * period \in Nat /\ loc.ticks * period \in Nat
  BY <1>1, <1>2, <1>4, <1>5
<1>7. Elapsed \in Nat
  BY <1>5, <1>6 DEF Elapsed
<1> QED
  BY <1>1, <1>4, <1>5, <1>6, <1>7 DEF TimeOK, Elapsed

\* A cycle counts in all the clocks, as long as they fit a word.
LEMMA CycleClocks ==
  ASSUME IInv, MadeInv, ReadWords, Cycle
  PROVE  /\ UNCHANGED <<period, pc, calls, loc, ret, snap, cpu_freq, div, measured, stale>>
         /\ slack \in Nat /\ slack < Poll /\ slack' = slack + 1
         /\ Elapsed + 1 < Word => Elapsed' = Elapsed + 1
         /\ Age + 1 < Word => Age' = Age + 1
         /\ LoAge + 1 < Word => LoAge' = LoAge + 1
         /\ \/ mcycle' = mcycle + 1 /\ mcycleh' = mcycleh
            \/ mcycle + 1 = Word /\ mcycle' = 0
<1>1. /\ UNCHANGED <<period, pc, calls, loc, ret, snap, cpu_freq, div, measured, stale>>
      /\ slack < Poll /\ slack' = slack + 1
      /\ \/ mcycle + 1 < Word /\ mcycle' = mcycle + 1 /\ mcycleh' = mcycleh
         \/ mcycle + 1 = Word /\ mcycle' = 0
  BY DEF Cycle, out
<1>2. /\ Word \in Nat \ {0} /\ mcycle \in 0 .. Word - 1 /\ mtime \in 0 .. Word - 1
      /\ period \in Nat /\ phase \in 0 .. period - 1 /\ slack \in Nat
  BY ClockTypes, FreqAssumption
<1>3. mcycle' = (mcycle + 1) % Word
  BY <1>1, <1>2, WordNext
<1>4. Age + 1 < Word => Age' = Age + 1
  BY <1>1, <1>2, <1>3, WordAdvance DEF Age, ReadWords
<1>5. LoAge + 1 < Word => LoAge' = LoAge + 1
  BY <1>1, <1>2, <1>3, WordAdvance DEF LoAge, ReadWords
<1>6. ASSUME Elapsed + 1 < Word PROVE Elapsed' = Elapsed + 1
  <2> DEFINE d == (mtime - loc.start_mtime) % Word
  <2>1. d \in 0 .. Word - 1 /\ Elapsed = d * period + phase
    BY ClockTypes
  <2>2. CASE phase + 1 < period
    <3>1. phase' = phase + 1 /\ mtime' = mtime
      BY <2>2 DEF Cycle
    <3> QED
      BY <1>1, <1>2, <2>1, <3>1 DEF Elapsed
  <2>3. CASE ~(phase + 1 < period)
    <3>1. phase' = 0 /\ mtime' = (mtime + 1) % Word /\ phase + 1 = period
      BY <1>2, <2>3 DEF Cycle
    <3>2. d * 2 <= d * period
      <4>1. 2 <= period /\ d \in Nat
        BY <1>2, <2>1, PeriodFacts DEF MadeInv
      <4>2. 2 * d <= period * d /\ 2 * d = d * 2 /\ period * d = d * period
        BY <1>2, <4>1, Times
      <4> QED
        BY <4>2
    <3>3. d + 1 < Word
      <4>1. d * 2 + 1 < Word
        BY <1>2, <1>6, <2>1, <3>2
      <4> QED
        BY <1>2, <2>1, <4>1
    <3>4. (mtime' - loc.start_mtime) % Word = d + 1
      BY <1>2, <3>1, <3>3, WordAdvance DEF ReadWords
    <3>5. Elapsed' = (d + 1) * period + 0
      BY <1>1, <3>1, <3>4 DEF Elapsed
    <3>6. (d + 1) * period = d * period + period
      BY <1>2, <2>1
    <3> QED
      BY <1>2, <2>1, <3>1, <3>5, <3>6
  <2> QED
    BY <2>2, <2>3
<1> QED
  BY <1>1, <1>2, <1>4, <1>5, <1>6

\* Behind a tick there is none for longer than a read.
LEMMA EdgeCycle == ASSUME WInv, Cycle, EdgeOK PROVE EdgeOK'
<1>1. UNCHANGED <<period, loc>> /\ slack \in Nat /\ slack < Poll /\ slack' = slack + 1
  BY CycleClocks DEF WInv
<1>2. period \in Nat /\ Poll < period /\ Poll \in Nat \ {0}
  BY PeriodFacts DEF WInv, MadeInv
<1>3. phase \in 0 .. period - 1
  BY ClockTypes DEF WInv
<1>4. CASE mtime = loc.tmp /\ phase + 1 < period
  BY <1>1, <1>4 DEF EdgeOK, Cycle
<1>5. CASE mtime = loc.tmp /\ ~(phase + 1 < period)
  BY <1>1, <1>5 DEF EdgeOK, Cycle
<1>6. CASE mtime = (loc.tmp + 1) % Word /\ phase < slack
  <2>1. phase + 1 < period
    BY <1>1, <1>2, <1>3, <1>6
  <2> QED
    BY <1>1, <1>2, <1>3, <1>6, <2>1 DEF EdgeOK, Cycle
<1> QED
  BY <1>4, <1>5, <1>6 DEF EdgeOK

\* A cycle passes while measure_cpu_freq runs.
LEMMA InitcCycle == ASSUME WInv, Cycle PROVE InitcInv'
<1>1. /\ UNCHANGED <<period, pc, calls, loc, ret, snap>>
      /\ slack \in Nat /\ slack < Poll /\ slack' = slack + 1
      /\ Elapsed + 1 < Word => Elapsed' = Elapsed + 1
      /\ Age + 1 < Word => Age' = Age + 1
  BY CycleClocks DEF WInv
<1>2. /\ period \in Nat /\ Poll < period /\ Poll \in Nat \ {0} /\ Word \in Nat
      /\ RealTicks * period + 4 * Poll <= Word /\ period <= RealTicks * period
      /\ RealTicks * period \in Nat
  <2>1. period \in Nat /\ RealTicks \in Nat
    BY PeriodFacts DEF WInv, MadeInv
  <2>2. RealTicks * period \in Nat
    BY <2>1
  <2> QED
    BY <2>2, PeriodFacts DEF WInv, MadeInv
<1>3. /\ Elapsed \in Nat /\ Age \in Nat /\ loc.ticks * period \in Nat
      /\ mtime \in 0 .. Word - 1 /\ phase \in 0 .. period - 1
  BY ClockTypes, <1>2 DEF WInv
<1>4. pc \in {"sample", "edge", "start", "window", "result"} =>
        loc.ticks \in {1, RealTicks} /\ loc.ticks * period <= RealTicks * period
  BY <1>2 DEF WInv, InitcInv
<1>5. pc = "edge" => EdgeOK'
  BY EdgeCycle DEF WInv, InitcInv
<1>6. ASSUME pc = "start" PROVE slack' <= Elapsed' /\ Elapsed' < Poll + slack'
  <2>1. slack <= Elapsed /\ Elapsed < Poll + slack
    BY <1>6 DEF WInv, InitcInv
  <2> QED
    BY <1>1, <1>2, <1>3, <2>1
<1>7. ASSUME pc = "window" PROVE InitcWindow'
  <2>1. /\ Age < Elapsed /\ Elapsed < Age + 2 * Poll
        /\ Elapsed < loc.ticks * period + slack \/ Age <= slack
    BY <1>7 DEF WInv, InitcInv, InitcWindow
  <2>2. Elapsed + 1 < Word /\ Age + 1 < Word
    BY <1>1, <1>2, <1>3, <1>4, <1>7, <2>1
  <2>3. Elapsed' = Elapsed + 1 /\ Age' = Age + 1
    BY <1>1, <2>2
  <2>4. /\ Age' < Elapsed' /\ Elapsed' < Age' + 2 * Poll
        /\ Elapsed' < loc.ticks * period + slack' \/ Age' <= slack'
    BY <1>1, <1>2, <1>3, <2>1, <2>3
  <2> QED
    BY <1>1, <2>4 DEF InitcWindow
<1>8. ASSUME pc = "result" PROVE InitcResult'
  <2> DEFINE m == loc.delta_mtime * period
  <2>0. m \in Nat
    BY <1>2, ReadNat DEF WInv, IInv
  <2>1. /\ m <= loc.ticks * period + 2 * Poll
        /\ m + slack < Age + 2 * Poll /\ Age + 2 <= m + Poll + slack
    BY <1>8 DEF WInv, InitcInv, InitcResult
  <2>2. m' = m
    BY <1>1
  <2> HIDE DEF m
  <2>3. Age + 1 < Word
    BY <1>1, <1>2, <1>3, <1>4, <1>8, <2>0, <2>1
  <2>4. m + slack' < Age' + 2 * Poll /\ Age' + 2 <= m + Poll + slack'
    BY <1>1, <1>2, <1>3, <2>0, <2>1, <2>3
  <2>5. m' <= loc'.ticks * period' + 2 * Poll
    BY <1>1, <2>1, <2>2
  <2> QED
    BY <2>2, <2>4, <2>5 DEF InitcResult, m
<1> QED
  BY <1>1, <1>4, <1>5, <1>6, <1>7, <1>8 DEF InitcInv, WInv

\* A cycle passes while PRCI_measure_mcycle_freq runs.
LEMMA PrciCycle == ASSUME WInv, Cycle, pc \in PrciPcs PROVE PrciInv'
<1> DEFINE t == loc.ticks * period
<1>1. /\ UNCHANGED <<period, pc, calls, loc, ret, snap>>
      /\ slack \in Nat /\ slack < Poll /\ slack' = slack + 1
      /\ Elapsed + 1 < Word => Elapsed' = Elapsed + 1
      /\ Age + 1 < Word => Age' = Age + 1
      /\ LoAge + 1 < Word => LoAge' = LoAge + 1
      /\ \/ mcycle' = mcycle + 1 /\ mcycleh' = mcycleh
         \/ mcycle + 1 = Word /\ mcycle' = 0
  BY CycleClocks DEF WInv
<1>2. period \in Periods /\ loc.ticks \in Measures
  BY DEF WInv, MadeInv, PrciInv
<1>3. /\ period \in Nat /\ Poll < period /\ Poll \in Nat \ {0} /\ Word \in Nat
      /\ t \in Nat /\ t + 9 * Poll <= Word /\ 9 * Poll <= 2 * t
  BY <1>2, PeriodFacts, MeasureFacts
<1>4. /\ Elapsed \in Nat /\ Age \in Nat /\ LoAge \in Nat
      /\ mcycle \in 0 .. Word - 1 /\ mcycleh \in Nat /\ ret \in {"p_start", "p_result"}
  <2>1. ret \in {"p_start", "p_result"}
    BY DEF WInv, IInv, TypeOK
  <2> QED
    BY ClockTypes, <1>3, <2>1 DEF WInv
<1>5. t' = t
  BY <1>1
<1> HIDE DEF t
<1>6. Taken \in Nat /\ Bound \in Nat /\ Bound + 8 * Poll <= Word
  BY <1>3, <1>4 DEF Taken, Bound, t
<1>7. Taken + 1 < Word => Taken' = Taken + 1
  BY <1>1, <1>4 DEF Taken
<1>8. Bound' = Bound
  BY <1>1 DEF Bound
<1>9. pc = "p_edge" => EdgeOK'
  BY EdgeCycle DEF WInv, PrciInv
<1>10. ASSUME pc = "hi" PROVE HiOK'
  <2>1. \/ Taken < Bound + slack
        \/ Taken < Bound + 3 * Poll + slack /\ mcycle <= 2 * Poll + slack
    BY <1>10 DEF WInv, PrciInv, HiOK
  <2>2. Taken' = Taken + 1
    BY <1>1, <1>3, <1>6, <1>7, <2>1
  <2>3. \/ Taken' < Bound + slack'
        \/ Taken' < Bound + 3 * Poll + slack' /\ mcycle' <= 2 * Poll + slack'
    BY <1>1, <1>3, <1>4, <1>6, <2>1, <2>2
  <2> QED
    BY <1>8, <2>3 DEF HiOK
<1>11. ASSUME pc = "lo" PROVE LoOK'
  <2>0. loc.hi \in Nat /\ loc' = loc
    BY <1>1, ReadNat DEF WInv, IInv
  <2>1. \/ Taken < Bound + Poll + slack /\ (mcycleh = loc.hi \/ mcycle < slack)
        \/ Taken < Bound + 4 * Poll + slack /\ mcycleh = loc.hi /\ mcycle <= 3 * Poll + slack
    BY <1>11 DEF WInv, PrciInv, LoOK
  <2>2. Taken' = Taken + 1
    BY <1>1, <1>3, <1>6, <1>7, <2>1
  <2>3. \/ Taken' < Bound + Poll + slack' /\ (mcycleh' = loc.hi \/ mcycle' < slack')
        \/ Taken' < Bound + 4 * Poll + slack' /\ mcycleh' = loc.hi /\ mcycle' <= 3 * Poll + slack'
    BY <1>1, <1>3, <1>4, <1>6, <2>1, <2>2
  <2> QED
    BY <1>8, <2>0, <2>3 DEF LoOK
<1>12. ASSUME pc = "hi2" PROVE Hi2OK'
  <2>0. loc.hi \in Nat /\ loc' = loc
    BY <1>1, ReadNat DEF WInv, IInv
  <2>1. \/ Taken < Bound + 2 * Poll + slack /\ (mcycleh = loc.hi \/ mcycle < Poll + slack)
        \/ Taken < Bound + 5 * Poll + slack /\ mcycleh = loc.hi /\ mcycle <= 4 * Poll + slack
    BY <1>12 DEF WInv, PrciInv, Hi2OK
  <2>2. Taken' = Taken + 1
    BY <1>1, <1>3, <1>6, <1>7, <2>1
  <2>3. \/ Taken' < Bound + 2 * Poll + slack' /\ (mcycleh' = loc.hi \/ mcycle' < Poll + slack')
        \/ Taken' < Bound + 5 * Poll + slack' /\ mcycleh' = loc.hi /\ mcycle' <= 4 * Poll + slack'
    BY <1>1, <1>3, <1>4, <1>6, <2>1, <2>2
  <2> QED
    BY <1>8, <2>0, <2>3 DEF Hi2OK
<1>13. ASSUME pc \in Readings, ret = "p_result" PROVE t < Age' + 6 * Poll
  <2>1. t < Age + 6 * Poll /\ Taken = Age
    BY <1>13 DEF WInv, PrciInv, Taken, t
  <2>2. Taken < Bound + 6 * Poll
    <3>1. HiOK \/ LoOK \/ Hi2OK
      BY <1>13 DEF WInv, PrciInv, Readings
    <3> QED
      BY <1>1, <1>3, <1>4, <1>6, <3>1 DEF HiOK, LoOK, Hi2OK
  <2>3. Age' = Age + 1
    BY <1>1, <1>3, <1>4, <1>6, <2>1, <2>2
  <2> QED
    BY <1>3, <1>4, <2>1, <2>3
<1>14. ASSUME pc = "hi2", ret = "p_start" PROVE LoAge' <= slack' /\ LoStart'
  <2>1. LoAge <= slack /\ LoAge < Elapsed /\ Elapsed < LoAge + 6 * Poll
    BY <1>14 DEF WInv, PrciInv, LoStart
  <2> QED
    BY <1>1, <1>3, <1>4, <2>1 DEF LoStart
<1>15. ASSUME pc = "p_start" PROVE LoAge' <= Poll + slack' /\ LoStart'
  <2>1. LoAge <= Poll + slack /\ LoAge < Elapsed /\ Elapsed < LoAge + 6 * Poll
    BY <1>15 DEF WInv, PrciInv, LoStart
  <2> QED
    BY <1>1, <1>3, <1>4, <2>1 DEF LoStart
<1>16. ASSUME pc = "p_window" PROVE PrciWindowOK'
  <2>1. /\ Age < Elapsed /\ Elapsed < Age + 6 * Poll
        /\ Elapsed < t + slack \/ Age <= 2 * Poll + slack
    BY <1>16 DEF WInv, PrciInv, PrciWindowOK, t
  <2>2. Elapsed' = Elapsed + 1 /\ Age' = Age + 1
    BY <1>1, <1>3, <1>4, <2>1
  <2>3. /\ Age' < Elapsed' /\ Elapsed' < Age' + 6 * Poll
        /\ Elapsed' < t + slack' \/ Age' <= 2 * Poll + slack'
    BY <1>1, <1>3, <1>4, <2>1, <2>2
  <2> QED
    BY <1>5, <2>3 DEF PrciWindowOK, t
<1>20. ASSUME pc \in {"hi", "lo"}, ret = "p_start" PROVE slack' <= Elapsed'
  <2>1. slack <= Elapsed /\ Taken = Elapsed /\ Bound = Poll
    BY <1>20 DEF WInv, PrciInv, Taken, Bound
  <2>2. HiOK \/ LoOK
    BY <1>20 DEF WInv, PrciInv
  <2>3. Elapsed + 1 < Word
    BY <1>1, <1>3, <1>4, <1>6, <2>1, <2>2 DEF HiOK, LoOK
  <2> QED
    BY <1>1, <1>3, <1>4, <2>1, <2>3
<1>17. pc \in Readings /\ ret = "p_result" => loc'.ticks * period' < Age' + 6 * Poll
  BY <1>1, <1>13 DEF t
<1>18. /\ pc = "p_result" \/ (pc = "hi2" /\ ret = "p_result") =>
            PrciFits((loc.lo - loc.start_mcycle) % Word)'
  BY <1>1 DEF WInv, PrciInv, PrciFits
<1>19. /\ loc.ticks \in Measures /\ loc.end_mtime < Word
       /\ pc = "p_edge" => loc.end_mtime = loc.tmp + loc.ticks + 1
       /\ pc \in PrciPcs \ {"p_edge"} => loc.end_mtime = loc.start_mtime + loc.ticks
       /\ pc = "p_start" => ret = "p_start"
       /\ pc = "p_result" => ret = "p_result"
  BY DEF WInv, PrciInv
<1> QED
  BY <1>1, <1>9, <1>10, <1>11, <1>12, <1>14, <1>15, <1>16, <1>17, <1>18, <1>19, <1>20
  DEF PrciInv

\* A step of the code finds the clocks as they stand.
LEMMA AtClocks ==
  ASSUME WInv, NEW l, At(l)
  PROVE  /\ pc = l /\ UNCHANGED <<mtime, phase, mcycleh, mcycle, period>>
         /\ slack \in 1 .. Poll /\ slack' = 0
         /\ loc'.start_mtime = loc.start_mtime => Elapsed' = Elapsed
         /\ loc'.start_mcycle = loc.start_mcycle => Age' = Age
         /\ loc'.lo = loc.lo => LoAge' = LoAge
<1>1. pc = l /\ UNCHANGED <<mtime, phase, mcycleh, mcycle, period>> /\ slack > 0 /\ slack' = 0
  BY DEF At, time
<1>2. slack \in 0 .. Poll /\ Poll \in Nat
  BY ClockTypes, FreqAssumption DEF WInv
<1> QED
  BY <1>1, <1>2 DEF Elapsed, Age, LoAge

\* Behind the edge the RTC's tick is less than a read old.
LEMMA EdgeSeen ==
  ASSUME WInv, EdgeOK, mtime # loc.tmp, slack \in 1 .. Poll,
         loc'.start_mtime = mtime, UNCHANGED <<mtime, phase, period>>
  PROVE  Elapsed' < Poll /\ Elapsed' \in Nat /\ mtime = (loc.tmp + 1) % Word
<1>1. mtime = (loc.tmp + 1) % Word /\ phase < slack
  BY DEF EdgeOK
<1>2. /\ mtime \in 0 .. Word - 1 /\ Word \in Nat \ {0} /\ period \in Nat /\ phase \in Nat
      /\ Poll \in Nat
  BY ClockTypes, FreqAssumption DEF WInv
<1>3. (mtime - mtime) % Word = 0
  BY <1>2, WordDiff
<1>4. Elapsed' = 0 * period + phase
  BY <1>3 DEF Elapsed
<1> QED
  BY <1>1, <1>2, <1>4

\* What is read is a word, and the calls are used up.
LEMMA WordsMade == WInv /\ [Next]_vars => ReadWords' /\ MadeInv'
<1> SUFFICES ASSUME WInv, [Next]_vars PROVE ReadWords' /\ MadeInv'
  OBVIOUS
<1>a. /\ loc \in [Locals -> Nat] /\ ReadWords /\ MadeInv
      /\ mtime \in 0 .. Word - 1 /\ mcycle \in 0 .. Word - 1 /\ 0 \in 0 .. Word - 1
  <2>1. loc \in [Locals -> Nat] /\ ReadWords /\ MadeInv
    BY DEF WInv, IInv, TypeOK
  <2>2. mtime \in 0 .. Word - 1 /\ mcycle \in 0 .. Word - 1
    BY ClockTypes DEF WInv
  <2>3. 0 \in 0 .. Word - 1
    BY FreqAssumption
  <2> QED
    BY <2>1, <2>2, <2>3
<1>b. ASSUME calls # <<>> PROVE Tail(calls) \in Seq(CallsMade) /\ Head(calls) \in CallsMade
  BY <1>a, <1>b, HeadTailProperties DEF MadeInv
<1>c. NoLocals.tmp = 0 /\ NoLocals.start_mtime = 0 /\ NoLocals.start_mcycle = 0 /\ NoLocals.lo = 0
  BY DEF NoLocals, Locals
<1> USE <1>a
<1>1. CASE UNCHANGED vars \/ Cycle
  BY <1>1 DEF vars, time, out, Cycle, ReadWords, MadeInv
<1>2. CASE SwitchClock
  <2>1. calls # <<>> /\ period' = Head(calls).val /\ Head(calls).fn = "clock" /\ Return
    BY <1>2 DEF SwitchClock, Calling
  <2>2. period' \in Periods /\ calls' \in Seq(CallsMade)
    BY <1>b, <2>1 DEF Periods, Return
  <2>3. ReadWords'
    BY <1>c, <2>1 DEF Return, ReadWords
  <2> QED
    BY <2>2, <2>3 DEF MadeInv
<1>3. CASE Got \/ PrciResult
  <2>1. pc # "next" /\ Return /\ period' = period
    BY <1>3 DEF Got, PrciResult, At
  <2>2. calls' \in Seq(CallsMade)
    BY <1>b, <2>1 DEF Return, WInv, IInv, CallsOK
  <2>3. ReadWords'
    BY <1>c, <2>1 DEF Return, ReadWords
  <2> QED
    BY <2>1, <2>2, <2>3 DEF MadeInv
<1>4. CASE GetCpuFreq \/ Sample \/ Edge \/ StartCycle
  BY <1>4 DEF GetCpuFreq, Sample, Edge, StartCycle, At, Goto, Assign, Locals, ReadWords, MadeInv
<1>5. CASE Window \/ Result
  BY <1>5 DEF Window, Result, At, Goto, Assign, Locals, ReadWords, MadeInv
<1>6. CASE PrciBegin \/ PrciEdge \/ PrciStart \/ PrciWindow
  BY <1>6 DEF PrciBegin, PrciEdge, PrciStart, PrciWindow, At, Goto, Rdmcycle, Assign, Locals,
              ReadWords, MadeInv
<1>7. CASE ReadHi \/ ReadLo \/ ReadHi2
  BY <1>7 DEF ReadHi, ReadLo, ReadHi2, At, Goto, Assign, Locals, ReadWords, MadeInv
<1> QED
  BY <1>1, <1>2, <1>3, <1>4, <1>5, <1>6, <1>7 DEF Next, Step

\* The last read of measure_cpu_freq ends a window of whole ticks.
LEMMA WindowRead ==
  ASSUME WInv, pc = "window", slack \in 1 .. Poll
  PROVE  /\ Delta < loc.ticks => Elapsed < loc.ticks * period
         /\ Delta >= loc.ticks =>
              /\ Delta * period <= loc.ticks * period + 2 * Poll
              /\ Delta * period < Age + 2 * Poll
              /\ Age + 2 <= Delta * period + Poll
<1> DEFINE t == loc.ticks * period
           d == Delta * period
<1>1. /\ Elapsed = d + phase /\ Delta \in Nat /\ Age \in Nat /\ loc.ticks \in Nat
      /\ period \in Nat /\ phase \in 0 .. period - 1 /\ t \in Nat
  BY ClockTypes, FreqAssumption DEF WInv, Delta
<1>2. period > Poll /\ Poll \in Nat \ {0}
  BY PeriodFacts DEF WInv, MadeInv
<1>3. /\ Age < Elapsed /\ Elapsed < Age + 2 * Poll
      /\ Elapsed < t + slack \/ Age <= slack
  BY DEF WInv, InitcInv, InitcWindow
<1>4. d \in Nat /\ period <= t
  <2>1. loc.ticks >= 1
    BY <1>1 DEF WInv, IInv, CallsOK
  <2>2. 1 * period <= loc.ticks * period
    BY <1>1, <2>1, Times
  <2> QED
    BY <1>1, <2>2
<1>5. ASSUME Delta < loc.ticks PROVE Elapsed < t
  <2>1. (Delta + 1) * period <= loc.ticks * period
    BY <1>1, <1>5, Times
  <2>2. (Delta + 1) * period = d + period
    BY <1>1
  <2> QED
    BY <1>1, <1>4, <2>1, <2>2
<1>6. ASSUME Delta >= loc.ticks
      PROVE  d <= t + 2 * Poll /\ d < Age + 2 * Poll /\ Age + 2 <= d + Poll
  <2>1. t <= d
    BY <1>1, <1>6, Times
  <2> HIDE DEF t, d
  <2> QED
    BY <1>1, <1>2, <1>3, <1>4, <2>1
<1> QED
  BY <1>5, <1>6

\* The steps of measure_cpu_freq, and those of others, which do not enter it.
LEMMA InitcStep == WInv /\ Step => InitcInv'
<1> SUFFICES ASSUME WInv, Step PROVE InitcInv'
  OBVIOUS
<1>a. loc \in [Locals -> Nat] /\ RealTicks > 1 /\ Poll \in Nat
  BY FreqAssumption DEF WInv, IInv, TypeOK
<1>b. Elapsed \in Nat /\ Age \in Nat /\ Word \in Nat \ {0} /\ mcycle \in 0 .. Word - 1
  BY ClockTypes, FreqAssumption DEF WInv
<1>1. CASE GetCpuFreq
  BY <1>1, <1>a DEF GetCpuFreq, Goto, Assign, Locals, InitcInv
<1>2. CASE Sample
  BY <1>2, <1>a DEF Sample, At, time, Goto, Assign, Locals, InitcInv, WInv, EdgeOK
<1>3. CASE Edge
  <2>1. /\ pc = "edge" /\ slack \in 1 .. Poll /\ slack' = 0
        /\ UNCHANGED <<mtime, phase, mcycleh, mcycle, period>>
        /\ loc'.ticks = loc.ticks /\ loc'.tmp = loc.tmp /\ loc'.start_mtime = mtime
    BY <1>3, <1>a, AtClocks DEF Edge, Assign, Locals
  <2>2. EdgeOK /\ loc.ticks \in {1, RealTicks}
    BY <2>1 DEF WInv, InitcInv
  <2>3. CASE mtime = loc.tmp
    BY <1>3, <2>1, <2>2, <2>3 DEF Edge, Goto, InitcInv, EdgeOK
  <2>4. CASE mtime # loc.tmp
    <3>1. Elapsed' < Poll /\ Elapsed' \in Nat
      BY <2>1, <2>2, <2>4, EdgeSeen
    <3> QED
      BY <1>3, <1>a, <2>1, <2>2, <2>4, <3>1 DEF Edge, Goto, InitcInv
  <2> QED
    BY <2>3, <2>4
<1>4. CASE StartCycle
  <2>1. /\ pc = "start" /\ slack \in 1 .. Poll /\ slack' = 0
        /\ period' = period /\ mcycle' = mcycle
        /\ loc'.ticks = loc.ticks /\ loc'.start_mcycle = mcycle
        /\ loc'.start_mtime = loc.start_mtime /\ Elapsed' = Elapsed
    BY <1>4, <1>a, AtClocks DEF StartCycle, Assign, Locals
  <2>2. slack <= Elapsed /\ Elapsed < Poll + slack /\ loc.ticks \in {1, RealTicks}
    BY <2>1 DEF WInv, InitcInv
  <2>3. Age' = 0
    <3>1. (mcycle - mcycle) % Word = 0
      BY <1>b, WordDiff
    <3> QED
      BY <2>1, <3>1 DEF Age
  <2>4. InitcWindow'
    BY <1>a, <1>b, <2>1, <2>2, <2>3 DEF InitcWindow
  <2> QED
    BY <1>4, <2>1, <2>2, <2>4 DEF StartCycle, Goto, InitcInv
<1>5. CASE Window
  <2>1. /\ pc = "window" /\ slack \in 1 .. Poll /\ slack' = 0
        /\ period' = period /\ loc'.delta_mtime = Delta
        /\ loc'.ticks = loc.ticks /\ Elapsed' = Elapsed /\ Age' = Age
    BY <1>5, <1>a, AtClocks DEF Window, Assign, Locals
  <2>2. Delta \in Nat /\ loc.ticks \in {1, RealTicks} /\ loc.ticks \in Nat
    BY <1>a, <2>1, ClockTypes, FreqAssumption DEF WInv, InitcInv, Delta
  <2>3. CASE Delta < loc.ticks
    <3>1. Elapsed < loc.ticks * period /\ Age < Elapsed /\ Elapsed < Age + 2 * Poll
      BY <2>1, <2>3, WindowRead DEF WInv, InitcInv, InitcWindow
    <3>2. pc' = "window"
      BY <1>5, <2>3 DEF Window, Goto
    <3>3. loc'.ticks * period' + slack' = loc.ticks * period
      <4>1. loc.ticks * period \in Nat
        BY ClockTypes DEF WInv
      <4> QED
        BY <2>1, <4>1
    <3> QED
      BY <2>1, <2>2, <3>1, <3>2, <3>3 DEF InitcInv, InitcWindow
  <2>4. CASE Delta >= loc.ticks
    <3> DEFINE d == Delta * period
    <3>1. /\ d <= loc.ticks * period + 2 * Poll
          /\ d < Age + 2 * Poll /\ Age + 2 <= d + Poll
      BY <2>1, <2>4, WindowRead
    <3>2. pc' = "result"
      BY <1>5, <2>2, <2>4 DEF Window, Goto
    <3>3. d \in Nat /\ loc'.delta_mtime * period' = d
      <4>1. period \in Nat
        BY ClockTypes DEF WInv
      <4> QED
        BY <2>1, <2>2, <4>1
    <3> HIDE DEF d
    <3>4. d + slack' < Age' + 2 * Poll /\ Age' + 2 <= d + Poll + slack'
      BY <1>a, <1>b, <2>1, <3>1, <3>3
    <3> QED
      BY <2>1, <2>2, <3>1, <3>2, <3>3, <3>4 DEF InitcInv, InitcResult
  <2> QED
    BY <2>2, <2>3, <2>4
<1>6. CASE Result
  BY <1>6, <1>a DEF Result, Goto, Assign, Locals, InitcInv
<1>7. CASE SwitchClock \/ Got \/ PrciResult
  BY <1>7 DEF SwitchClock, Got, PrciResult, Return, InitcInv
<1>8. CASE PrciBegin \/ PrciEdge \/ PrciStart \/ PrciWindow
  BY <1>8 DEF PrciBegin, PrciEdge, PrciStart, PrciWindow, Goto, Rdmcycle, InitcInv
<1>9. CASE ReadHi \/ ReadLo \/ ReadHi2
  BY <1>9 DEF ReadHi, ReadLo, ReadHi2, Goto, InitcInv, WInv, IInv, TypeOK
<1> QED
  BY <1>1, <1>2, <1>3, <1>4, <1>5, <1>6, <1>7, <1>8, <1>9 DEF Step

\* Before the window ends mtime has not wrapped since its start.
LEMMA PrciRead ==
  ASSUME WInv, pc = "p_window", slack \in 1 .. Poll
  PROVE  /\ mtime < loc.end_mtime => Elapsed < loc.ticks * period
         /\ mtime >= loc.end_mtime =>
              /\ loc.ticks * period < Age + 6 * Poll
              /\ Age < loc.ticks * period + Poll - 1
<1> DEFINE t == loc.ticks * period
           d == (mtime - loc.start_mtime) % Word
<1>1. /\ Elapsed = d * period + phase /\ d \in 0 .. Word - 1 /\ Age \in Nat /\ loc.ticks \in Nat
      /\ period \in Nat /\ phase \in 0 .. period - 1 /\ t \in Nat /\ mtime \in 0 .. Word - 1
      /\ Word \in Nat \ {0}
  BY ClockTypes, FreqAssumption DEF WInv
<1>2. /\ period > Poll /\ Poll \in Nat \ {0} /\ 9 * Poll <= t + period /\ 9 * Poll <= 2 * t
  BY PeriodFacts, MeasureFacts DEF WInv, MadeInv, PrciInv, PrciPcs
<1>3. /\ Age < Elapsed /\ Elapsed < Age + 6 * Poll
      /\ Elapsed < t + slack \/ Age <= 2 * Poll + slack
      /\ loc.end_mtime = loc.start_mtime + loc.ticks /\ loc.end_mtime < Word
      /\ loc.start_mtime \in 0 .. Word - 1
  BY DEF WInv, PrciInv, PrciPcs, PrciWindowOK, ReadWords
<1>4. d * period \in Nat
  BY <1>1
<1>5. d <= loc.ticks
  <2>1. Elapsed < t + period
    <3> HIDE DEF t, d
    <3> QED
      BY <1>1, <1>2, <1>3
  <2>2. ASSUME d > loc.ticks PROVE FALSE
    <3>1. (loc.ticks + 1) * period <= d * period
      BY <1>1, <2>2, Times
    <3>2. (loc.ticks + 1) * period = t + period
      BY <1>1
    <3> QED
      BY <1>1, <1>4, <2>1, <3>1, <3>2
  <2> QED
    BY <1>1, <2>2
<1>6. mtime = loc.start_mtime + d
  <2>1. d = IF loc.start_mtime <= mtime THEN mtime - loc.start_mtime
                                        ELSE mtime - loc.start_mtime + Word
    BY <1>1, <1>3, WordDiff
  <2> HIDE DEF d
  <2> QED
    BY <1>1, <1>3, <1>5, <2>1
<1>7. ASSUME mtime < loc.end_mtime PROVE Elapsed < t
  <2>1. d + 1 <= loc.ticks
    BY <1>1, <1>3, <1>6, <1>7
  <2>2. (d + 1) * period <= t
    BY <1>1, <2>1, Times
  <2>3. (d + 1) * period = d * period + period
    BY <1>1
  <2> QED
    BY <1>1, <1>4, <2>2, <2>3
<1>8. ASSUME mtime >= loc.end_mtime PROVE t < Age + 6 * Poll /\ Age < t + Poll - 1
  <2>1. d = loc.ticks
    BY <1>1, <1>3, <1>5, <1>6, <1>8
  <2>2. t <= Elapsed
    BY <1>1, <2>1
  <2> HIDE DEF t, d
  <2> QED
    BY <1>1, <1>2, <1>3, <2>2
<1> QED
  BY <1>7, <1>8

\* The call of the driver starts where its end does not roll over.
LEMMA PrciStarts ==
  ASSUME WInv, PrciBegin, pc' = "p_edge"
  PROVE  /\ loc'.ticks \in Measures /\ loc'.end_mtime < Word
         /\ loc'.end_mtime = loc'.tmp + loc'.ticks + 1 /\ loc'.tmp = mtime
<1> DEFINE n == Head(calls).val
<1>1. loc'.ticks = n /\ loc'.tmp = mtime /\ loc'.end_mtime = End
  BY DEF PrciBegin, WInv, IInv, TypeOK, Locals
<1>2. n \in Measures
  <2>1. calls # <<>> /\ Head(calls).fn = "measure" /\ calls \in Seq(CallsMade)
    BY DEF PrciBegin, Calling, WInv, MadeInv
  <2>2. Head(calls) \in CallsMade
    BY <2>1, HeadTailProperties
  <2> QED
    BY <2>1, <2>2 DEF Measures
<1>3. ~(End < mtime)
  BY DEF PrciBegin, Goto
<1>4. mtime \in 0 .. Word - 1 /\ Word \in Nat \ {0} /\ period \in Periods
  BY ClockTypes, FreqAssumption DEF WInv, MadeInv
<1>5. n \in Nat \ {0} /\ n + 1 < Word
  <2>1. /\ n \in Nat \ {0} /\ n * period \in Nat /\ n * period + 9 * Poll <= Word
        /\ Poll \in Nat \ {0} /\ period \in Nat \ {0}
    BY <1>2, <1>4, MeasureFacts, PeriodFacts
  <2>2. 1 * n <= period * n /\ period * n = n * period
    BY <2>1, Times
  <2> QED
    BY <1>4, <2>1, <2>2
<1>6. End = IF mtime + n + 1 < Word THEN mtime + n + 1 ELSE mtime + n + 1 - Word
  <2> HIDE DEF n
  <2>1. ASSUME NEW x \in 0 .. Word - 1, NEW k \in 1 .. Word - 1
        PROVE  (x + k) % Word = IF x + k < Word THEN x + k ELSE x + k - Word
    BY <1>4, <2>1
  <2>2. n + 1 \in 1 .. Word - 1 /\ mtime + n + 1 = mtime + (n + 1)
    BY <1>4, <1>5
  <2>3. (mtime + (n + 1)) % Word
          = IF mtime + (n + 1) < Word THEN mtime + (n + 1) ELSE mtime + (n + 1) - Word
    BY <1>4, <2>1, <2>2
  <2>4. End = (mtime + n + 1) % Word
    BY DEF End, n
  <2>5. (mtime + n + 1) % Word = (mtime + (n + 1)) % Word
    BY <2>2, Zenon
  <2> QED
    BY <1>4, <1>5, <2>2, <2>3, <2>4, <2>5
<1> HIDE DEF n
<1> QED
  BY <1>1, <1>2, <1>3, <1>4, <1>5, <1>6

\* The steps of PRCI_measure_mcycle_freq, and those of others.
LEMMA PrciStep == WInv /\ Step => PrciInv'
<1> SUFFICES ASSUME WInv, Step PROVE PrciInv'
  OBVIOUS
<1> USE DEF Readings, PrciPcs
<1>a. loc \in [Locals -> Nat] /\ Poll \in Nat \ {0} /\ Word \in Nat \ {0}
  BY FreqAssumption DEF WInv, IInv, TypeOK
<1>b. /\ Elapsed \in Nat /\ Age \in Nat /\ LoAge \in Nat /\ loc.ticks * period \in Nat
      /\ mcycle \in 0 .. Word - 1 /\ mtime \in 0 .. Word - 1 /\ mcycleh \in Nat
  BY ClockTypes, <1>a DEF WInv
<1>c. Taken \in Nat /\ Bound \in Nat
  BY <1>a, <1>b DEF Taken, Bound
<1>1. CASE SwitchClock \/ Got \/ PrciResult
  BY <1>1 DEF SwitchClock, Got, PrciResult, Return, PrciInv
<1>2. CASE GetCpuFreq \/ Sample \/ Edge \/ StartCycle \/ Window \/ Result
  BY <1>2 DEF GetCpuFreq, Sample, Edge, StartCycle, Window, Result, Goto, PrciInv
<1>3. CASE PrciBegin
  <2>1. CASE pc' = "p_edge"
    BY <1>3, <2>1, PrciStarts DEF PrciInv, EdgeOK, PrciBegin, At, time
  <2>2. CASE pc' # "p_edge"
    BY <1>3, <2>2 DEF PrciBegin, Goto, PrciInv
  <2> QED
    BY <2>1, <2>2
<1>4. CASE PrciEdge
  <2>1. /\ pc = "p_edge" /\ slack \in 1 .. Poll /\ slack' = 0
        /\ UNCHANGED <<mtime, phase, mcycleh, mcycle, period>>
        /\ loc'.ticks = loc.ticks /\ loc'.tmp = loc.tmp /\ loc'.start_mtime = mtime
        /\ loc'.end_mtime = loc.end_mtime
    BY <1>4, <1>a, AtClocks DEF PrciEdge, Assign, Locals
  <2>2. /\ EdgeOK /\ loc.ticks \in Measures /\ loc.end_mtime < Word
        /\ loc.end_mtime = loc.tmp + loc.ticks + 1
    BY <2>1 DEF WInv, PrciInv
  <2>3. CASE mtime = loc.tmp
    <3>1. pc' = "p_edge"
      BY <1>4, <2>3 DEF PrciEdge, Goto
    <3> QED
      BY <2>1, <2>2, <2>3, <3>1 DEF PrciInv, EdgeOK
  <2>4. CASE mtime # loc.tmp
    <3>1. Elapsed' < Poll /\ Elapsed' \in Nat /\ mtime = (loc.tmp + 1) % Word
      BY <2>1, <2>2, <2>4, EdgeSeen
    <3>2. mtime + loc.ticks = loc.end_mtime
      <4>1. loc.tmp \in 0 .. Word - 1 /\ loc.ticks \in Nat
        BY ReadNat DEF WInv, IInv, ReadWords
      <4>2. (loc.tmp + 1) % Word = IF loc.tmp + 1 < Word THEN loc.tmp + 1 ELSE 0
        BY <1>a, <4>1, WordNext
      <4> QED
        BY <1>a, <2>2, <3>1, <4>1, <4>2
    <3>3. pc' = "hi" /\ ret' = "p_start"
      BY <1>4, <2>4 DEF PrciEdge, Rdmcycle, Goto
    <3>4. HiOK'
      BY <1>a, <2>1, <3>1, <3>3 DEF HiOK, Taken, Bound
    <3> QED
      BY <2>1, <2>2, <3>1, <3>2, <3>3, <3>4 DEF PrciInv
  <2> QED
    BY <2>3, <2>4
<1>5. CASE ReadHi
  <2>1. /\ pc = "hi" /\ slack \in 1 .. Poll /\ slack' = 0 /\ ret' = ret
        /\ UNCHANGED <<mcycleh, mcycle, period>> /\ loc'.hi = mcycleh
        /\ loc'.ticks = loc.ticks /\ loc'.start_mtime = loc.start_mtime
        /\ loc'.end_mtime = loc.end_mtime /\ loc'.start_mcycle = loc.start_mcycle
        /\ Elapsed' = Elapsed /\ Age' = Age /\ pc' = "lo"
    BY <1>5, <1>a, AtClocks DEF ReadHi, Assign, Goto, Locals
  <2>2. Taken' = Taken /\ Bound' = Bound
    BY <2>1 DEF Taken, Bound
  <2>3. LoOK'
    BY <1>a, <1>b, <1>c, <2>1, <2>2 DEF WInv, PrciInv, HiOK, LoOK
  <2> QED
    BY <1>b, <2>1, <2>3 DEF WInv, PrciInv
<1>6. CASE ReadLo
  <2>1. /\ pc = "lo" /\ slack \in 1 .. Poll /\ slack' = 0 /\ ret' = ret
        /\ UNCHANGED <<mcycleh, mcycle, period>> /\ loc'.lo = mcycle /\ loc'.hi = loc.hi
        /\ loc'.ticks = loc.ticks /\ loc'.start_mtime = loc.start_mtime
        /\ loc'.end_mtime = loc.end_mtime /\ loc'.start_mcycle = loc.start_mcycle
        /\ Elapsed' = Elapsed /\ Age' = Age /\ pc' = "hi2"
    BY <1>6, <1>a, AtClocks DEF ReadLo, Assign, Goto, Locals
  <2>2. Taken' = Taken /\ Bound' = Bound
    BY <2>1 DEF Taken, Bound
  <2>3. Hi2OK'
    BY <1>a, <1>b, <1>c, <2>1, <2>2 DEF WInv, PrciInv, LoOK, Hi2OK
  <2>4. LoAge' = 0
    <3>1. (mcycle - mcycle) % Word = 0
      BY <1>a, <1>b, WordDiff
    <3> QED
      BY <2>1, <3>1 DEF LoAge
  <2>5. Taken < Bound + 5 * Poll
    BY <1>a, <1>b, <1>c, <2>1 DEF WInv, PrciInv, LoOK
  <2>6. ret = "p_start" => LoStart'
    <3>1. ret = "p_start" => slack <= Elapsed /\ Elapsed < 6 * Poll
      BY <1>a, <1>b, <2>1, <2>5 DEF WInv, PrciInv, Taken, Bound
    <3> QED
      BY <1>a, <1>b, <2>1, <2>4, <3>1 DEF LoStart
  <2>7. ret = "p_result" => PrciFits((loc.lo - loc.start_mcycle) % Word)'
    <3>1. (loc'.lo - loc'.start_mcycle) % Word = Age
      BY <2>1 DEF Age
    <3>2. ret = "p_result" => /\ loc.ticks * period < Age + 6 * Poll
                              /\ Age < loc.ticks * period + Poll - 1 + 5 * Poll
      BY <2>1, <2>5 DEF WInv, PrciInv, Taken, Bound
    <3>3. loc'.ticks * period' = loc.ticks * period
      BY <2>1
    <3> QED
      BY <1>a, <1>b, <3>1, <3>2, <3>3 DEF PrciFits
  <2> QED
    BY <1>b, <2>1, <2>3, <2>4, <2>6, <2>7 DEF WInv, PrciInv
<1>7. CASE ReadHi2
  <2>1. /\ pc = "hi2" /\ slack \in 1 .. Poll /\ slack' = 0 /\ ret' = ret /\ loc' = loc
        /\ UNCHANGED <<mcycleh, mcycle, period>>
        /\ Elapsed' = Elapsed /\ Age' = Age /\ LoAge' = LoAge
        /\ ret \in {"p_start", "p_result"}
    BY <1>7, AtClocks DEF ReadHi2, WInv, IInv, TypeOK
  <2>2. Taken' = Taken /\ Bound' = Bound
    BY <2>1 DEF Taken, Bound
  <2>3. CASE loc.hi = mcycleh
    <3>1. pc' = ret
      BY <1>7, <2>3 DEF ReadHi2, Goto
    <3>2. LoStart' = LoStart /\ (ret = "p_start" => LoAge <= slack)
      BY <2>1 DEF LoStart, WInv, PrciInv
    <3>3. PrciFits((loc.lo - loc.start_mcycle) % Word)' = PrciFits((loc.lo - loc.start_mcycle) % Word)
      BY <2>1 DEF PrciFits
    <3>4. ret = "p_start" => LoAge' <= Poll + slack'
      BY <1>a, <1>b, <2>1, <3>2
    <3> QED
      BY <2>1, <3>1, <3>2, <3>3, <3>4 DEF WInv, PrciInv
  <2>4. CASE loc.hi # mcycleh
    <3>1. pc' = "hi"
      BY <1>7, <2>4 DEF ReadHi2, Goto
    <3>2. HiOK'
      BY <1>a, <1>b, <1>c, <2>1, <2>2, <2>4 DEF WInv, PrciInv, HiOK, Hi2OK
    <3> QED
      BY <1>b, <2>1, <3>1, <3>2 DEF WInv, PrciInv
  <2> QED
    BY <2>3, <2>4
<1>8. CASE PrciStart
  <2>1. /\ pc = "p_start" /\ slack \in 1 .. Poll /\ slack' = 0
        /\ UNCHANGED <<mcycleh, mcycle, period>> /\ loc'.start_mcycle = loc.lo
        /\ loc'.ticks = loc.ticks /\ loc'.start_mtime = loc.start_mtime
        /\ loc'.end_mtime = loc.end_mtime /\ Elapsed' = Elapsed /\ pc' = "p_window"
    BY <1>8, <1>a, AtClocks DEF PrciStart, Assign, Goto, Locals
  <2>2. Age' = LoAge
    BY <2>1 DEF Age, LoAge
  <2>3. PrciWindowOK'
    BY <1>a, <1>b, <2>1, <2>2 DEF WInv, PrciInv, LoStart, PrciWindowOK
  <2> QED
    BY <2>1, <2>3 DEF WInv, PrciInv
<1>9. CASE PrciWindow
  <2>1. /\ pc = "p_window" /\ slack \in 1 .. Poll /\ slack' = 0 /\ loc' = loc
        /\ UNCHANGED <<mcycleh, mcycle, period>> /\ Elapsed' = Elapsed /\ Age' = Age
    BY <1>9, AtClocks DEF PrciWindow
  <2>0. loc.end_mtime \in Nat
    BY <1>a DEF Locals
  <2>2. CASE mtime < loc.end_mtime
    <3>1. pc' = "p_window" /\ Elapsed < loc.ticks * period
      BY <1>9, <2>1, <2>2, PrciRead DEF PrciWindow, Goto
    <3>2. loc'.ticks * period' + slack' = loc.ticks * period
      BY <1>b, <2>1
    <3>3. PrciWindowOK'
      BY <2>1, <3>1, <3>2 DEF WInv, PrciInv, PrciWindowOK
    <3> QED
      BY <2>1, <3>1, <3>3 DEF WInv, PrciInv
  <2>3. CASE ~(mtime < loc.end_mtime)
    <3>1. pc' = "hi" /\ ret' = "p_result"
      BY <1>9, <2>3 DEF PrciWindow, Rdmcycle, Goto
    <3>2. loc.ticks * period < Age + 6 * Poll /\ Age < loc.ticks * period + Poll - 1
      BY <1>b, <2>0, <2>1, <2>3, PrciRead
    <3>3. HiOK'
      <4>1. Taken' = Age /\ Bound' = loc.ticks * period + Poll - 1
        BY <2>1, <3>1 DEF Taken, Bound
      <4> QED
        BY <1>a, <1>b, <2>1, <3>2, <4>1 DEF HiOK
    <3> QED
      BY <2>1, <3>1, <3>2, <3>3 DEF WInv, PrciInv
  <2> QED
    BY <2>2, <2>3
<1> QED
  BY <1>1, <1>2, <1>3, <1>4, <1>5, <1>6, <1>7, <1>8, <1>9 DEF Step

-----------------------------------------------------------------------------
(* The results *)

\* Fits, for the speed p.
FitsAt(f, n, reads, p) ==
  /\ f * n - p * RtcFreq * n < reads * Poll * RtcFreq + n
  /\ p * RtcFreq * n - f * n < reads * Poll * RtcFreq + n

\* A measurement was close when it was made; the cached frequency is that of
\* the long one; and the divider was computed from it.
OutInv ==
  /\ measured.ticks # 0 =>
       FitsAt(measured.freq, measured.ticks, measured.reads, measured.period)
  /\ pc \in {"sample", "edge", "start", "window", "result"} => cpu_freq = 0
  /\ pc = "got" => cpu_freq # 0
  /\ cpu_freq # 0 => Baud <= cpu_freq
  /\ cpu_freq # 0 /\ ~stale => FitsAt(cpu_freq, RealTicks, 2, period)
  /\ div # 0 => cpu_freq # 0 /\ (div + 1) * Baud <= cpu_freq /\ cpu_freq < (div + 2) * Baud

\* The result of init.c, before it is cut to a word.
LEMMA InitcFits ==
  ASSUME NEW p \in Periods, NEW dc \in Nat, NEW dm \in Nat \ {0}, NEW n \in 1 .. dm,
         dm * p < dc + 2 * Poll, dc < dm * p + 2 * Poll
  PROVE  /\ Freq(dc, dm) \in Nat
         /\ FitsAt(Freq(dc, dm), n, 2, p)
<1> DEFINE g == ((dc \div dm) * RtcFreq) + (((dc % dm) * RtcFreq) \div dm)
<1>1. /\ p \in Nat /\ Poll \in Nat \ {0} /\ Word \in Nat \ {0} /\ RtcFreq \in Nat \ {0}
      /\ (p + 2 * Poll) * RtcFreq <= Word
  BY PeriodFacts
<1>2. g \in Nat /\ g * dm <= dc * RtcFreq /\ dc * RtcFreq < g * dm + dm
  BY <1>1, SplitQuotient
<1>3. Freq(dc, dm) = g % Word
  BY DEF Freq
<1> HIDE DEF g
<1> DEFINE b == 2 * Poll
<1>4. b \in Nat /\ dm * p < dc + b /\ dc < dm * p + b /\ b * RtcFreq = 2 * Poll * RtcFreq /\ b # 0
  BY <1>1
<1> HIDE DEF b
<1>5. g < Word
  <2> SUFFICES ASSUME g >= Word PROVE FALSE
    BY <1>1, <1>2
  <2>1. Word * dm <= g * dm
    BY <1>1, <1>2, Times
  <2>2. ((p + b) * RtcFreq) * dm <= Word * dm
    <3>1. (p + b) * RtcFreq <= Word
      BY <1>1 DEF b
    <3>2. (p + b) * RtcFreq \in Nat
      BY <1>1, <1>4
    <3> QED
      BY <1>1, <3>1, <3>2, Times
  <2>3. dc < (p + b) * dm
    <3>1. (p + b) * dm = dm * p + b * dm
      BY <1>1, <1>4
    <3>2. 1 * b <= dm * b /\ dm * b = b * dm /\ 1 * b = b
      BY <1>4, Times
    <3>3. dm * p \in Nat /\ b * dm \in Nat
      BY <1>1, <1>4
    <3> QED
      BY <1>4, <3>1, <3>2, <3>3
  <2>4. dc * RtcFreq < ((p + b) * dm) * RtcFreq
    <3>1. (p + b) * dm \in Nat
      BY <1>1, <1>4
    <3> QED
      BY <1>1, <2>3, <3>1, Times
  <2>5. ((p + b) * dm) * RtcFreq = ((p + b) * RtcFreq) * dm
    BY <1>1, <1>4
  <2>6. ((p + b) * RtcFreq) * dm \in Nat /\ Word * dm \in Nat /\ g * dm \in Nat /\ dc * RtcFreq \in Nat
    BY <1>1, <1>2, <1>4
  <2> QED
    BY <1>2, <2>1, <2>2, <2>4, <2>5, <2>6
<1>6. Freq(dc, dm) = g
  BY <1>1, <1>2, <1>3, <1>5, WordNext
<1>7. /\ g * n - p * RtcFreq * n < b * RtcFreq + n
      /\ p * RtcFreq * n - g * n < b * RtcFreq + n
  BY <1>1, <1>2, <1>4, Closeness
<1> QED
  BY <1>2, <1>4, <1>6, <1>7 DEF FitsAt

\* The result of the driver.
LEMMA DriverFits ==
  ASSUME NEW p \in Periods, NEW n \in Measures, NEW d \in Nat,
         n * p < d + 6 * Poll, d + 2 <= n * p + 6 * Poll
  PROVE  FitsAt(((d * RtcFreq) \div n) % Word, n, 6, p)
<1> DEFINE g == (d * RtcFreq) \div n
           b == 6 * Poll
<1>1. /\ p \in Nat /\ Poll \in Nat \ {0} /\ Word \in Nat \ {0} /\ RtcFreq \in Nat \ {0}
      /\ n \in Nat \ {0} /\ n * p \in Nat /\ (n * p + 6 * Poll) * RtcFreq <= Word * n
  BY PeriodFacts, MeasureFacts
<1>2. d * RtcFreq \in Nat
  BY <1>1
<1>3. g \in Nat /\ g * n <= d * RtcFreq /\ d * RtcFreq < g * n + n
  BY <1>1, <1>2, Floor
<1>4. b \in Nat /\ n * p < d + b /\ d < n * p + b /\ b * RtcFreq = 6 * Poll * RtcFreq
  BY <1>1
<1> HIDE DEF g
<1>5. g < Word
  <2> SUFFICES ASSUME g >= Word PROVE FALSE
    BY <1>1, <1>3
  <2>1. Word * n <= g * n
    BY <1>1, <1>3, Times
  <2>2. d * RtcFreq < (n * p + b) * RtcFreq
    <3>1. n * p + b \in Nat
      BY <1>1, <1>4
    <3> QED
      BY <1>1, <1>4, <3>1, Times
  <2>3. Word * n \in Nat /\ g * n \in Nat /\ (n * p + b) * RtcFreq \in Nat
    BY <1>1, <1>3, <1>4
  <2> QED
    BY <1>1, <1>2, <1>3, <2>1, <2>2, <2>3
<1>6. g % Word = g
  BY <1>1, <1>3, <1>5
<1> HIDE DEF b
<1>7. n \in 1 .. n
  BY <1>1
<1>8. /\ g * n - p * RtcFreq * n < b * RtcFreq + n
      /\ p * RtcFreq * n - g * n < b * RtcFreq + n
  BY <1>1, <1>3, <1>4, <1>7, Closeness
<1> QED
  BY <1>4, <1>6, <1>8 DEF FitsAt, g

\* A frequency of the long measurement is no less than the baud rate.
LEMMA BaudBelow ==
  ASSUME NEW p \in Periods, NEW f \in Nat, FitsAt(f, RealTicks, 2, p)
  PROVE  Baud <= f
<1>1. /\ p \in Nat /\ Poll \in Nat \ {0} /\ RtcFreq \in Nat \ {0} /\ Baud \in Nat \ {0}
      /\ RealTicks \in Nat \ {0}
      /\ 2 * Poll * RtcFreq + (Baud + 1) * RealTicks <= p * RtcFreq * RealTicks
  BY PeriodFacts
<1> DEFINE a == 2 * Poll * RtcFreq
           q == p * RtcFreq * RealTicks
<1>2. a \in Nat /\ q \in Nat
  BY <1>1
<1>3. q - f * RealTicks < a + RealTicks
  BY DEF FitsAt
<1>4. (Baud + 1) * RealTicks = Baud * RealTicks + RealTicks
  BY <1>1
<1>5. a + (Baud * RealTicks + RealTicks) <= q
  BY <1>1, <1>4
<1> HIDE DEF a, q
<1>6. Baud * RealTicks \in Nat /\ f * RealTicks \in Nat
  BY <1>1
<1>7. Baud * RealTicks < f * RealTicks
  BY <1>1, <1>2, <1>3, <1>5, <1>6
<1>8. ASSUME f < Baud PROVE FALSE
  <2>1. f * RealTicks <= Baud * RealTicks
    BY <1>1, <1>8, Times
  <2> QED
    BY <1>6, <1>7, <2>1
<1> QED
  BY <1>1, <1>8

\* The end of a measurement of init.c, and the caching of the long one.
LEMMA ResultOut == WInv /\ OutInv /\ Result => OutInv'
<1> SUFFICES ASSUME WInv, OutInv, Result PROVE OutInv'
  OBVIOUS
<1> DEFINE dm == loc.delta_mtime
           f == Freq(Age, dm)
<1>1. /\ pc = "result" /\ slack \in 1 .. Poll /\ period' = period
      /\ Poll \in Nat
  BY AtClocks, FreqAssumption DEF Result
<1>2. /\ measured' = [freq |-> f, ticks |-> loc.ticks, period |-> period, reads |-> 2]
      /\ div' = div
      /\ \/ loc.ticks = 1 /\ pc' = "sample" /\ UNCHANGED <<cpu_freq, stale>>
         \/ loc.ticks # 1 /\ pc' = "got" /\ cpu_freq' = f /\ stale' = FALSE
  BY DEF Result, Measure, Goto, Age
<1>3. /\ loc.ticks \in {1, RealTicks} /\ loc.ticks \in 1 .. dm /\ dm \in Nat \ {0}
      /\ cpu_freq = 0 /\ div = 0
  <2>1. dm \in Nat /\ loc.ticks \in Nat /\ loc.ticks > 0 /\ dm >= loc.ticks
    BY <1>1, ReadNat DEF WInv, IInv, CallsOK
  <2> QED
    BY <1>1, <2>1 DEF WInv, InitcInv, OutInv
<1>4. period \in Periods /\ Age \in Nat /\ dm * period \in Nat
  <2>1. period \in Nat /\ Age \in Nat
    BY ClockTypes, FreqAssumption DEF WInv
  <2> QED
    BY <1>3, <2>1 DEF WInv, MadeInv
<1>5. dm * period < Age + 2 * Poll /\ Age < dm * period + 2 * Poll
  <2>1. dm * period + slack < Age + 2 * Poll /\ Age + 2 <= dm * period + Poll + slack
    BY <1>1 DEF WInv, InitcInv, InitcResult
  <2> QED
    BY <1>1, <1>4, <2>1
<1>6. f \in Nat /\ FitsAt(f, loc.ticks, 2, period)
  BY <1>3, <1>4, <1>5, InitcFits
<1>7. loc.ticks # 1 => loc.ticks = RealTicks /\ Baud <= f /\ f # 0
  <2>1. loc.ticks # 1 => loc.ticks = RealTicks
    BY <1>3
  <2>2. loc.ticks = RealTicks => Baud <= f
    BY <1>4, <1>6, BaudBelow
  <2> QED
    BY <1>6, <2>1, <2>2, FreqAssumption
<1> HIDE DEF f
<1> QED
  BY <1>1, <1>2, <1>3, <1>6, <1>7 DEF OutInv

\* uart_init rounds the divider down.
LEMMA GotOut == WInv /\ OutInv /\ Got => OutInv'
<1> SUFFICES ASSUME WInv, OutInv, Got PROVE OutInv'
  OBVIOUS
<1>1. /\ pc = "got" /\ pc' = "next" /\ UNCHANGED <<period, cpu_freq, measured, stale>>
      /\ cpu_freq # 0
  BY DEF Got, At, Return, OutInv
<1>2. cpu_freq \in 0 .. Word - 1 /\ Word \in Nat \ {0} /\ Baud \in Nat \ {0}
  BY FreqAssumption DEF WInv, IInv, TypeOK
<1>3. CASE div' = div
  BY <1>1, <1>3 DEF OutInv
<1>4. CASE div' = (cpu_freq \div Baud - 1) % Word
  <2> DEFINE q == cpu_freq \div Baud
  <2>1. q \in Nat /\ q * Baud <= cpu_freq /\ cpu_freq < q * Baud + Baud
    BY <1>2, Floor
  <2>2. Baud <= cpu_freq
    BY <1>1 DEF OutInv
  <2> HIDE DEF q
  <2>3. q >= 1
    <3>1. q = 0 => q * Baud = 0
      BY <1>2
    <3> QED
      BY <1>2, <2>1, <2>2, <3>1
  <2>4. q <= cpu_freq
    <3>1. 1 * q <= Baud * q /\ Baud * q = q * Baud /\ 1 * q = q
      BY <1>2, <2>1, Times
    <3> QED
      BY <1>2, <2>1, <3>1
  <2>5. q - 1 \in 0 .. Word - 1
    BY <1>2, <2>1, <2>3, <2>4
  <2>6. (q - 1) % Word = q - 1
    BY <1>2, <2>5
  <2>7. div' = q - 1
    BY <1>4, <2>6 DEF q
  <2>8. (div' + 1) * Baud = q * Baud /\ (div' + 2) * Baud = q * Baud + Baud
    BY <1>2, <2>1, <2>7
  <2> QED
    BY <1>1, <2>1, <2>8 DEF OutInv
<1> QED
  BY <1>3, <1>4 DEF Got

\* The results change only where a measurement or uart_init ends.
LEMMA OutStep == WInv /\ OutInv /\ [Next]_vars => OutInv'
<1> SUFFICES ASSUME WInv, OutInv, [Next]_vars PROVE OutInv'
  OBVIOUS
<1>1. CASE UNCHANGED vars
  BY <1>1 DEF vars, out, OutInv
<1>2. CASE Cycle
  BY <1>2 DEF Cycle, out, OutInv
<1>3. CASE SwitchClock
  BY <1>3 DEF SwitchClock, Return, OutInv
<1>4. CASE GetCpuFreq
  BY <1>4 DEF GetCpuFreq, At, Goto, out, OutInv
<1>5. CASE Sample \/ Edge \/ StartCycle \/ Window
  BY <1>5 DEF Sample, Edge, StartCycle, Window, At, Goto, out, OutInv
<1>6. CASE PrciBegin \/ PrciEdge \/ PrciStart \/ PrciWindow
  BY <1>6 DEF PrciBegin, PrciEdge, PrciStart, PrciWindow, At, Goto, Rdmcycle, out, OutInv
<1>7. CASE ReadHi \/ ReadLo \/ ReadHi2
  BY <1>7 DEF ReadHi, ReadLo, ReadHi2, At, Goto, out, OutInv, WInv, IInv, TypeOK
<1>8. CASE PrciResult
  <2> DEFINE d == (loc.lo - loc.start_mcycle) % Word
             f == ((d * RtcFreq) \div loc.ticks) % Word
  <2>1. /\ pc = "p_result" /\ pc' = "next" /\ UNCHANGED <<period, cpu_freq, div, stale>>
        /\ measured' = [freq |-> f, ticks |-> loc.ticks, period |-> period, reads |-> 6]
    BY <1>8 DEF PrciResult, At, Measure, Return
  <2>2. loc.ticks \in Measures /\ period \in Periods /\ PrciFits(d)
    BY <2>1 DEF WInv, MadeInv, PrciInv, PrciPcs
  <2>3. d \in Nat
    BY ReadNat, WordRange DEF WInv, IInv
  <2> HIDE DEF d
  <2>4. FitsAt(f, loc.ticks, 6, period)
    BY <2>2, <2>3, DriverFits DEF PrciFits
  <2> HIDE DEF f
  <2> QED
    BY <2>1, <2>4 DEF OutInv
<1> QED
  BY <1>1, <1>2, <1>3, <1>4, <1>5, <1>6, <1>7, <1>8, ResultOut, GotOut DEF Next, Step

\* At reset nothing has been measured.
LEMMA InitWindow == Init => MadeInv /\ ReadWords /\ InitcInv /\ PrciInv /\ OutInv
<1> SUFFICES ASSUME Init PROVE MadeInv /\ ReadWords /\ InitcInv /\ PrciInv /\ OutInv
  OBVIOUS
<1>1. MadeInv
  <2>1. calls \in Programs /\ calls \in Seq(CallRecords)
    BY FreqAssumption DEF Init
  <2>2. \A i \in 1 .. Len(calls) : calls[i] \in CallsMade
    BY <2>1 DEF CallsMade
  <2>3. Len(calls) \in Nat /\ DOMAIN calls = 1 .. Len(calls)
        /\ calls \in [1 .. Len(calls) -> CallRecords]
    BY <2>1, LenProperties
  <2>4. calls \in [1 .. Len(calls) -> CallsMade]
    BY <2>2, <2>3
  <2>5. calls \in Seq(CallsMade)
    BY <2>3, <2>4, SeqDef
  <2> QED
    BY <2>5 DEF Init, MadeInv, Periods
<1>2. ReadWords
  BY FreqAssumption DEF Init, NoLocals, Locals, ReadWords
<1> QED
  BY <1>1, <1>2 DEF Init, InitcInv, PrciInv, PrciPcs, Readings, OutInv

-----------------------------------------------------------------------------
(* Theorems *)

\* The inductive invariant: types, what every label of the code may rely on,
\* and where the two words of a read stand.
THEOREM Inductive == Spec => []IInv
<1>1. Init => IInv
  BY InitInv
<1>2. IInv /\ [Next]_vars => IInv'
  BY TypeStep, CallsStep, ReadStep DEF IInv
<1> QED
  BY <1>1, <1>2, PTL DEF Spec

\* The measurements keep their types: no division by zero, no index out of
\* range, for words of any size and any sequence of calls.
THEOREM TypeCorrect == Spec => []TypeOK
<1>1. IInv => TypeOK
  BY DEF IInv
<1> QED
  BY <1>1, Inductive, PTL

\* rdmcycle returns a value the 64-bit counter held while it ran, wherever the
\* carry falls.
THEOREM ReadIsExact == Spec => []ReadExact
<1>1. IInv => ReadExact
  <2> SUFFICES ASSUME IInv, pc \in {"p_start", "p_result"} PROVE <<loc.hi, loc.lo>> = snap
    BY DEF ReadExact
  <2>1. loc.hi = snap[1] /\ loc.lo = snap[2]
    BY DEF IInv, ReadInv
  <2>2. snap = <<snap[1], snap[2]>>
    BY DEF IInv, TypeOK
  <2> QED
    BY <2>1, <2>2
<1> QED
  BY <1>1, Inductive, PTL

\* The inductive invariant of the windows and of the results.
THEOREM WindowsInductive == Spec => [](WInv /\ OutInv)
<1>1. Init => WInv /\ OutInv
  BY InitInv, InitWindow DEF WInv
<1>2. WInv /\ OutInv /\ [Next]_vars => (WInv /\ OutInv)'
  <2> SUFFICES ASSUME WInv, OutInv, [Next]_vars PROVE WInv' /\ OutInv'
    OBVIOUS
  <2>1. IInv'
    BY TypeStep, CallsStep, ReadStep DEF WInv, IInv
  <2>2. ReadWords' /\ MadeInv' /\ OutInv'
    BY WordsMade, OutStep
  <2>3. CASE UNCHANGED vars
    <3>1. InitcInv'
      BY <2>3 DEF vars, time, WInv, InitcInv, EdgeOK, InitcWindow, InitcResult, Elapsed, Age
    <3>2. HiOK' = HiOK /\ LoOK' = LoOK /\ Hi2OK' = Hi2OK
      BY <2>3 DEF vars, time, HiOK, LoOK, Hi2OK, Taken, Bound, Elapsed, Age
    <3>3. EdgeOK' = EdgeOK /\ LoStart' = LoStart /\ PrciWindowOK' = PrciWindowOK
      BY <2>3 DEF vars, time, EdgeOK, LoStart, PrciWindowOK, Elapsed, Age, LoAge
    <3>4. LoAge' = LoAge /\ Age' = Age /\ Elapsed' = Elapsed
      BY <2>3 DEF vars, time, Elapsed, Age, LoAge
    <3>5. PrciFits((loc.lo - loc.start_mcycle) % Word)' = PrciFits((loc.lo - loc.start_mcycle) % Word)
      BY <2>3 DEF vars, time, PrciFits
    <3>6. PrciInv'
      BY <2>3, <3>2, <3>3, <3>4, <3>5 DEF vars, time, WInv, PrciInv
    <3> QED
      BY <2>1, <2>2, <3>1, <3>6 DEF WInv
  <2>4. CASE Cycle
    <3>1. pc \notin PrciPcs => PrciInv'
      BY <2>4 DEF Cycle, PrciInv, PrciPcs, Readings
    <3> QED
      BY <2>1, <2>2, <2>4, <3>1, InitcCycle, PrciCycle DEF WInv
  <2>5. CASE Step
    BY <2>1, <2>2, <2>5, InitcStep, PrciStep DEF WInv
  <2> QED
    BY <2>3, <2>4, <2>5 DEF Next
<1> QED
  BY <1>1, <1>2, PTL DEF Spec

\* Every measurement, of init.c and of the driver, is the frequency the CPU ran
\* at but for the reads at the ends of its window, wherever mtime and mcycle
\* wrap and wherever the carry into mcycleh falls: for words of any size that
\* hold a measurement, any speed of the reads and any calls.
THEOREM MeasurementsClose == Spec => []MeasuredClose
<1>1. OutInv => MeasuredClose
  BY DEF OutInv, MeasuredClose, Fits, FitsAt
<1> QED
  BY <1>1, WindowsInductive, PTL

\* Until the clock is switched the cached frequency is that of the long
\* measurement, whatever was measured and switched before, and the divider of
\* the UART is the one for it.
THEOREM BaudIsRight == Spec => []BaudFits
<1>1. OutInv => BaudFits
  BY DEF OutInv, BaudFits, Fits, FitsAt
<1> QED
  BY <1>1, WindowsInductive, PTL
=============================================================================
