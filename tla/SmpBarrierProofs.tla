-------------------------- MODULE SmpBarrierProofs --------------------------
(***************************************************************************)
(* Proofs about SmpBarrier for every number of harts, registers and        *)
(* rounds.                                                                 *)
(***************************************************************************)
EXTENDS SmpBarrier, TLAPS

\* Hart 0 exists and every hart has an msip register below MAX_HARTS.
LEMMA HartFacts ==
  /\ 0 \in Harts
  /\ \A h \in Harts : h \in Msips /\ h \in Nat /\ h < MAX_HARTS
  /\ MAX_HARTS \in Nat \ {0}
  /\ MaxRounds \in Nat
  /\ Msips \subseteq Nat
BY HartsAssumption DEF Harts

\* Before the first use no msip bit is set.
LEMMA InitIInv == Init => IInv
BY HartFacts DEF Init, IInv, TypeOK, Labels, ControlOK, NoLostWakeup, ScannedArrived,
                 Barrier, Arrived, Released

\* Types: the index of a scan stays among the registers.
LEMMA TypeStep == TypeOK /\ ControlOK /\ [Next]_vars => TypeOK'
<1> SUFFICES ASSUME TypeOK, ControlOK, [Next]_vars PROVE TypeOK'
  OBVIOUS
<1> USE HartFacts DEF TypeOK, Labels
<1>1. CASE UNCHANGED vars
  BY <1>1 DEF vars
<1>2. ASSUME NEW h \in Harts, Pause(h) PROVE TypeOK'
  BY <1>2 DEF Pause
<1>3. ASSUME NEW h \in Harts, EnterResume(h) PROVE TypeOK'
  BY <1>3 DEF EnterResume
<1>4. ASSUME NEW h \in Harts, SetMsip(h) PROVE TypeOK'
  BY <1>4 DEF SetMsip, MsipWrite, ControlOK
<1>5. ASSUME NEW h \in Harts, Wake(h) PROVE TypeOK'
  BY <1>5 DEF Wake
<1>6. ASSUME NEW h \in Harts, ClearMsip(h) PROVE TypeOK'
  BY <1>6 DEF ClearMsip, MsipWrite
<1>7. ASSUME NEW h \in Harts, ScanMsip(h) PROVE TypeOK'
  BY <1>7 DEF ScanMsip, ControlOK
<1>8. QED
  BY <1>1, <1>2, <1>3, <1>4, <1>5, <1>6, <1>7 DEF Next, Step

\* Where a hart is in its macro agrees with its counters.
LEMMA ControlStep == IInv /\ [Next]_vars => ControlOK'
<1> SUFFICES ASSUME IInv, [Next]_vars PROVE ControlOK'
  OBVIOUS
<1> USE HartFacts DEF IInv, TypeOK, Labels, ControlOK
<1>1. CASE UNCHANGED vars
  BY <1>1 DEF vars
<1>2. ASSUME NEW h \in Harts, Pause(h) PROVE ControlOK'
  BY <1>2 DEF Pause
<1>3. ASSUME NEW h \in Harts, EnterResume(h) PROVE ControlOK'
  BY <1>3 DEF EnterResume
<1>4. ASSUME NEW h \in Harts, SetMsip(h) PROVE ControlOK'
  BY <1>4 DEF SetMsip, MsipWrite
<1>5. ASSUME NEW h \in Harts, Wake(h) PROVE ControlOK'
  BY <1>5 DEF Wake, Msip
<1>6. ASSUME NEW h \in Harts, ClearMsip(h) PROVE ControlOK'
  BY <1>6 DEF ClearMsip, MsipWrite
<1>7. ASSUME NEW h \in Harts, ScanMsip(h) PROVE ControlOK'
  BY <1>7 DEF ScanMsip
<1>8. QED
  BY <1>1, <1>2, <1>3, <1>4, <1>5, <1>6, <1>7 DEF Next, Step

\* What each action does to the two counters of a hart.
LEMMA CountersStep ==
  ASSUME IInv, NEW h \in Harts, Step(h), NEW k \in Harts
  PROVE  /\ Arrived(k)' = IF k = h /\ pc[h] = "clear" THEN Arrived(k) + 1 ELSE Arrived(k)
         /\ Released(k)' = IF pc[h] = "set" /\ reg1[h] = k THEN Released(k) + 1 ELSE Released(k)
         /\ Arrived(k) \in Nat /\ Released(k) \in Nat
<1> USE HartFacts DEF IInv, TypeOK, Labels, ControlOK, Arrived, Released
<1>1. CASE Pause(h)
  BY <1>1 DEF Pause
<1>2. CASE EnterResume(h)
  BY <1>2 DEF EnterResume
<1>3. CASE SetMsip(h)
  BY <1>3 DEF SetMsip
<1>4. CASE Wake(h)
  BY <1>4 DEF Wake
<1>5. CASE ClearMsip(h)
  BY <1>5 DEF ClearMsip
<1>6. CASE ScanMsip(h)
  BY <1>6 DEF ScanMsip
<1>7. QED
  BY <1>1, <1>2, <1>3, <1>4, <1>5, <1>6 DEF Step

\* An msip bit is set once per round and cleared by its owner only.
LEMMA NoLostWakeupStep == IInv /\ [Next]_vars => NoLostWakeup'
<1> SUFFICES ASSUME IInv, [Next]_vars PROVE NoLostWakeup'
  OBVIOUS
<1>1. CASE UNCHANGED vars
  BY <1>1 DEF vars, IInv, NoLostWakeup, Arrived, Released
<1>2. ASSUME NEW h \in Harts, Step(h) PROVE NoLostWakeup'
  <2> SUFFICES ASSUME NEW k \in Harts PROVE Released(k)' = Arrived(k)' + msip'[k]
    BY DEF NoLostWakeup
  <2> USE HartFacts DEF IInv, TypeOK, Labels, ControlOK, NoLostWakeup
  <2>1. CASE pc[h] = "set"
    \* Hart 0 sets msip[k] only when hart k has acknowledged every release.
    <3>1. h = 0 /\ SetMsip(h)
      BY <2>1, <1>2 DEF Step, Pause, EnterResume, SetMsip, Wake, ClearMsip, ScanMsip
    <3>2. reg1[0] = k => msip[k] = 0
      <4>1. Arrived(k) >= round[0]
        BY <3>1 DEF Barrier
      <4>2. reg1[0] = k => Released(k) = round[0]
        BY <2>1, <3>1 DEF Released
      <4> QED
        BY <4>1, <4>2, <1>2, CountersStep
    <3> QED
      BY <3>1, <3>2, <2>1, <1>2, CountersStep DEF SetMsip, MsipWrite
  <2>2. CASE pc[h] = "clear"
    <3>1. ClearMsip(h)
      BY <2>2, <1>2 DEF Step, Pause, EnterResume, SetMsip, Wake, ClearMsip, ScanMsip
    <3> QED
      BY <3>1, <2>2, <1>2, CountersStep DEF ClearMsip, MsipWrite
  <2>3. CASE pc[h] \notin {"set", "clear"}
    <3>1. msip' = msip
      BY <2>3, <1>2 DEF Step, Pause, EnterResume, SetMsip, Wake, ClearMsip, ScanMsip
    <3> QED
      BY <3>1, <2>3, <1>2, CountersStep
  <2> QED
    BY <2>1, <2>2, <2>3
<1> QED
  BY <1>1, <1>2 DEF Next

\* The heart of the argument: a hart that scans register k and reads 0 there
\* knows that hart k has acknowledged the scanning hart's round.
LEMMA ScanReadsArrived ==
  ASSUME IInv, NEW g \in Harts, pc[g] = "scan", NEW k \in Harts, reg1[g] = k, msip[k] = 0
  PROVE  Arrived(k) >= round[g] + 1
<1> USE HartFacts DEF IInv, TypeOK, Labels, ControlOK
<1>1. Released(g) >= round[g] + 1
  BY DEF NoLostWakeup, Arrived
<1>2. Released(k) = Arrived(k)
  BY DEF NoLostWakeup, Arrived
<1>3. CASE k = 0
  \* Hart 0 clears its own bit only after it has set all of them.
  BY <1>1, <1>2, <1>3 DEF Released, Arrived
<1>4. CASE k # 0
  \* Register 0 was read before, so hart 0 had set all bits by then.
  <2>1. Arrived(0) >= round[g] + 1
    BY <1>4 DEF ScannedArrived
  <2> QED
    BY <1>2, <2>1 DEF Released, Arrived
<1> QED
  BY <1>3, <1>4

\* What a scan has passed stays acknowledged.
LEMMA ScannedArrivedStep == IInv /\ [Next]_vars => ScannedArrived'
<1> SUFFICES ASSUME IInv, [Next]_vars PROVE ScannedArrived'
  OBVIOUS
<1>1. CASE UNCHANGED vars
  BY <1>1 DEF vars, IInv, ScannedArrived, Arrived
<1>2. ASSUME NEW h \in Harts, Step(h) PROVE ScannedArrived'
  <2> SUFFICES ASSUME NEW g \in Harts, NEW k \in Harts, pc'[g] = "scan", k < reg1'[g]
               PROVE  Arrived(k)' >= round'[g] + 1
    BY DEF ScannedArrived
  <2> USE HartFacts DEF IInv, TypeOK, Labels, ControlOK
  <2>1. Arrived(k)' >= Arrived(k) /\ Arrived(k) \in Nat
    BY <1>2, CountersStep
  <2>2. CASE g # h
    <3>1. pc'[g] = pc[g] /\ reg1'[g] = reg1[g] /\ round'[g] = round[g]
      BY <2>2, <1>2 DEF Step, Pause, EnterResume, SetMsip, Wake, ClearMsip, ScanMsip
    <3>2. Arrived(k) >= round[g] + 1
      BY <3>1 DEF ScannedArrived
    <3> QED
      BY <2>1, <3>1, <3>2, <1>2, CountersStep
  <2>3. CASE g = h /\ ScanMsip(h)
    <3>1. /\ pc[g] = "scan" /\ Msip(reg1[g]) = 0
          /\ reg1'[g] = reg1[g] + 1 /\ round'[g] = round[g]
      BY <2>3 DEF ScanMsip
    <3>2. CASE k = reg1[g]
      <4>1. Arrived(k) >= round[g] + 1
        BY <3>1, <3>2, ScanReadsArrived DEF Msip
      <4> QED
        BY <4>1, <2>1, <3>1, <1>2, CountersStep
    <3>3. CASE k < reg1[g]
      <4>1. Arrived(k) >= round[g] + 1
        BY <3>1, <3>3 DEF ScannedArrived
      <4> QED
        BY <4>1, <2>1, <3>1, <1>2, CountersStep
    <3> QED
      BY <3>1, <3>2, <3>3
  <2>4. CASE g = h /\ ~ScanMsip(h)
    \* The hart has just entered the loop: it has read nothing yet.
    <3>1. reg1'[g] = 0
      BY <2>4, <1>2 DEF Step, Pause, EnterResume, SetMsip, Wake, ClearMsip
    <3> QED
      BY <3>1
  <2> QED
    BY <2>2, <2>3, <2>4
<1> QED
  BY <1>1, <1>2 DEF Next

\* A hart leaves only with a whole scan behind it.
LEMMA BarrierStep == IInv /\ [Next]_vars => Barrier'
<1> SUFFICES ASSUME IInv, [Next]_vars PROVE Barrier'
  OBVIOUS
<1>1. CASE UNCHANGED vars
  BY <1>1 DEF vars, IInv, Barrier, Arrived
<1>2. ASSUME NEW h \in Harts, Step(h) PROVE Barrier'
  <2> SUFFICES ASSUME NEW g \in Harts, NEW k \in Harts
               PROVE  Arrived(k)' >= round'[g]
    BY DEF Barrier
  <2> USE HartFacts DEF IInv, TypeOK, Labels, ControlOK
  <2>1. Arrived(k)' >= Arrived(k) /\ Arrived(k) \in Nat /\ Arrived(k) >= round[g]
    BY <1>2, CountersStep DEF Barrier
  <2>2. CASE round'[g] = round[g]
    BY <2>1, <2>2, <1>2, CountersStep
  <2>3. CASE round'[g] # round[g]
    \* The scan ends: all registers but the last were read before, the last is now.
    <3>1. /\ g = h /\ pc[g] = "scan" /\ Msip(reg1[g]) = 0
          /\ round'[g] = round[g] + 1 /\ ~(reg1[g] + 1 < MAX_HARTS)
      BY <2>3, <1>2 DEF Step, Pause, EnterResume, SetMsip, Wake, ClearMsip, ScanMsip
    <3>2. Arrived(k) >= round[g] + 1
      <4>1. CASE k = reg1[g]
        BY <3>1, <4>1, ScanReadsArrived DEF Msip
      <4>2. CASE k < reg1[g]
        BY <3>1, <4>2 DEF ScannedArrived
      <4> QED
        BY <3>1, <4>1, <4>2
    <3> QED
      BY <2>1, <3>1, <3>2, <1>2, CountersStep
  <2> QED
    BY <2>2, <2>3
<1> QED
  BY <1>1, <1>2 DEF Next

\* The inductive invariant of the macros.
THEOREM Inductive == Spec => []IInv
<1>1. IInv /\ [Next]_vars => IInv'
  <2> SUFFICES ASSUME IInv, [Next]_vars PROVE IInv'
    OBVIOUS
  <2>1. TypeOK'
    BY TypeStep DEF IInv
  <2> QED
    BY <2>1, ControlStep, NoLostWakeupStep, ScannedArrivedStep, BarrierStep DEF IInv
<1> QED
  BY <1>1, InitIInv, PTL DEF Spec

\* Bits, labels, indices and rounds stay in their types.
THEOREM TypeCorrect == Spec => []TypeOK
<1>1. IInv => TypeOK
  BY DEF IInv
<1>2. QED
  BY <1>1, Inductive, PTL

\* What a hart has scanned it may rely on: every hart below its index has
\* acknowledged the round, for every number of harts.
THEOREM ScansAreSound == Spec => []ScannedArrived
<1>1. IInv => ScannedArrived
  BY DEF IInv
<1>2. QED
  BY <1>1, Inductive, PTL

\* No hart returns from a smp_resume that some hart has not acknowledged,
\* for every number of harts and every number of uses of the macros.
THEOREM BarrierHolds == Spec => []Barrier
<1>1. IInv => Barrier
  BY DEF IInv
<1> QED
  BY <1>1, Inductive, PTL

\* The msip bit of a hart is always the release it still has to acknowledge.
THEOREM NoLostWakeupHolds == Spec => []NoLostWakeup
<1>1. IInv => NoLostWakeup
  BY DEF IInv
<1> QED
  BY <1>1, Inductive, PTL

\* While hart 0 is in the single-threaded work of a round, no other hart gets
\* past its wait loop of that round.
THEOREM SingleSectionHolds == Spec => []SingleSectionHeld
<1>1. IInv => SingleSectionHeld
  <2> SUFFICES ASSUME IInv, pc[0] = "single", NEW h \in Harts
               PROVE  Arrived(h) = round[0] /\ pc[h] # "clear"
    BY DEF SingleSectionHeld
  <2> USE HartFacts DEF IInv, TypeOK, Labels, ControlOK
  <2>1. Released(h) = round[0]
    BY DEF Released
  <2>2. Arrived(h) >= round[0] /\ Arrived(h) \in Nat
    BY DEF Barrier, Arrived
  <2>3. msip[h] \in {0, 1} /\ Released(h) = Arrived(h) + msip[h]
    BY DEF NoLostWakeup
  <2> QED
    BY <2>1, <2>2, <2>3
<1> QED
  BY <1>1, Inductive, PTL

\* The macros implement the abstract barrier of SmpBarrierSpec: clearing the
\* own msip is the arrival, the end of the scan the departure.
THEOREM RefinementHolds == Spec => Refines
<1>1. Init => Abstract!Init
  BY HartFacts DEF Init, Abstract!Init, Arrived
<1>2. IInv /\ IInv' /\ [Next]_vars => [Abstract!Next]_Abstract!vars
  <2> SUFFICES ASSUME IInv, IInv', [Next]_vars PROVE [Abstract!Next]_Abstract!vars
    OBVIOUS
  <2> DEFINE arr == [h \in Harts |-> Arrived(h)]
  <2>1. CASE UNCHANGED vars
    BY <2>1 DEF vars, Abstract!vars, Arrived
  <2>2. ASSUME NEW h \in Harts, Step(h), pc[h] = "clear" PROVE Abstract!Arrive(h)
    <3> USE HartFacts DEF IInv, TypeOK, Labels, ControlOK
    <3>1. UNCHANGED round
      BY <2>2 DEF Step, Pause, EnterResume, SetMsip, Wake, ClearMsip, ScanMsip
    <3>2. arr[h] = round[h]
      BY <2>2 DEF Arrived
    <3>3. arr' = [arr EXCEPT ![h] = @ + 1]
      BY <2>2, CountersStep
    <3> QED
      BY <3>1, <3>2, <3>3 DEF Abstract!Arrive
  <2>3. ASSUME NEW h \in Harts, Step(h), pc[h] # "clear"
        PROVE  Abstract!Leave(h) \/ UNCHANGED Abstract!vars
    <3> USE HartFacts DEF IInv, TypeOK, Labels, ControlOK
    <3>1. arr' = arr
      BY <2>3, CountersStep
    <3>2. CASE UNCHANGED round
      BY <3>1, <3>2 DEF Abstract!vars
    <3>3. CASE ~UNCHANGED round
      <4>1. pc[h] = "scan" /\ round' = [round EXCEPT ![h] = @ + 1]
        BY <2>3, <3>3 DEF Step, Pause, EnterResume, SetMsip, Wake, ClearMsip, ScanMsip
      <4>2. arr[h] = round[h] + 1 /\ round'[h] = round[h] + 1 /\ round[h] \in Nat
        BY <4>1 DEF Arrived
      <4>3. \A g \in Harts : arr[g] >= arr[h]
        <5> SUFFICES ASSUME NEW g \in Harts PROVE arr[g] >= arr[h]
          OBVIOUS
        <5>1. Arrived(g)' >= round'[h]
          BY DEF Barrier
        <5> QED
          BY <5>1, <4>2, <3>1, <2>3, CountersStep
      <4> QED
        BY <3>1, <4>1, <4>2, <4>3 DEF Abstract!Leave
    <3> QED
      BY <3>2, <3>3
  <2> QED
    BY <2>1, <2>2, <2>3 DEF Next, Abstract!Next
<1> QED
  BY <1>1, <1>2, Inductive, PTL DEF Spec, Refines, Abstract!Spec
=============================================================================
