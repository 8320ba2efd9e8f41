----------------------------- MODULE SmpBarrier -----------------------------
(***************************************************************************)
(* smp_pause and smp_resume of fw/bsp/include/platform/smp.h: harts that   *)
(* run                                                                     *)
(*                                                                         *)
(*     multi-threaded work                                                 *)
(*     smp_pause                                                           *)
(*     single-threaded work            (hart 0 only)                       *)
(*     smp_resume                                                          *)
(*                                                                         *)
(* over and over.  smp_pause parks every hart but hart 0; in smp_resume    *)
(* hart 0 writes 1 to every msip register of the CLINT, in index order,    *)
(* then each hart waits for its own msip, clears it, and waits until it    *)
(* has read 0 from every msip, again in index order.  One action is one    *)
(* access to the CLINT, which is where the harts interleave.               *)
(***************************************************************************)
EXTENDS Integers

CONSTANTS
  NHarts,      \* harts of the platform, numbered from 0
  MAX_HARTS,   \* msip registers the macros write and poll
  Msips,       \* those that exist in the CLINT; the others read as 0
  MaxRounds    \* bound: how often each hart runs the macro pair

Harts == 0 .. NHarts - 1

ASSUME HartsAssumption ==
  /\ NHarts \in Nat \ {0}
  /\ MAX_HARTS \in Nat
  /\ Msips \subseteq 0 .. MAX_HARTS - 1
  /\ Harts \subseteq Msips
  /\ MaxRounds \in Nat

VARIABLES
  msip,    \* CLINT: the software-interrupt bits
  pc,      \* where each hart is in the macros
  reg1,    \* each hart's loop register, as an index into the msip array
  round    \* completed smp_resume of each hart

vars == <<msip, pc, reg1, round>>

Labels == {"multi", "single", "set", "wfi", "clear", "scan"}

Init ==
  /\ msip  = [r \in Msips |-> 0]
  /\ pc    = [h \in Harts |-> "multi"]
  /\ reg1  = [h \in Harts |-> 0]
  /\ round = [h \in Harts |-> 0]

\* The CLINT: what a load of register r returns, and the msip array after
\* v is stored to it.
Msip(r)         == IF r \in Msips THEN msip[r] ELSE 0
MsipWrite(r, v) == IF r \in Msips THEN [msip EXCEPT ![r] = v] ELSE msip

\* smp_pause: hart 0 falls through to the single-threaded work, the others
\* branch to the wait loop of smp_resume.
Pause(h) ==
  /\ pc[h] = "multi"
  /\ round[h] < MaxRounds
  /\ pc' = [pc EXCEPT ![h] = IF h = 0 THEN "single" ELSE "wfi"]
  /\ UNCHANGED <<msip, reg1, round>>

\* Hart 0 ends the single-threaded work and enters smp_resume.
EnterResume(h) ==
  /\ pc[h] = "single"
  /\ pc'   = [pc EXCEPT ![h] = "set"]
  /\ reg1' = [reg1 EXCEPT ![h] = 0]
  /\ UNCHANGED <<msip, round>>

\* The first loop 41: sw 1, 0(reg1); addi; blt reg1, CLINT_END_HART_IPI.
SetMsip(h) ==
  /\ pc[h] = "set"
  /\ msip' = MsipWrite(reg1[h], 1)
  /\ reg1' = [reg1 EXCEPT ![h] = @ + 1]
  /\ pc'   = [pc EXCEPT ![h] = IF reg1[h] + 1 < MAX_HARTS THEN "set" ELSE "wfi"]
  /\ UNCHANGED round

\* Mutant: the beqz behind the wfi is dropped, any wake-up will do.
Wake_NoCheck(h) ==
  /\ pc[h] = "wfi"
  /\ pc' = [pc EXCEPT ![h] = "clear"]
  /\ UNCHANGED <<msip, reg1, round>>

\* Loop 42: wfi until mip.MSIP, the hart's own msip, reads 1.
Wake(h) ==
  /\ pc[h] = "wfi"
  /\ Msip(h) = 1
  /\ pc' = [pc EXCEPT ![h] = "clear"]
  /\ UNCHANGED <<msip, reg1, round>>

\* Mutant: the offset of the own register is not added, msip[0] is cleared.
ClearMsip_FirstReg(h) ==
  /\ pc[h] = "clear"
  /\ msip' = MsipWrite(0, 0)
  /\ pc'   = [pc EXCEPT ![h] = "scan"]
  /\ reg1' = [reg1 EXCEPT ![h] = 0]
  /\ UNCHANGED round

\* Mutant: reg1 is not reset to the start of the array.
ClearMsip_KeepsIndex(h) ==
  /\ pc[h] = "clear"
  /\ msip' = MsipWrite(h, 0)
  /\ pc'   = [pc EXCEPT ![h] = "scan"]
  /\ UNCHANGED <<reg1, round>>

\* Mutant: the scan starts at the hart's own register.
ClearMsip_FromOwn(h) ==
  /\ pc[h] = "clear"
  /\ msip' = MsipWrite(h, 0)
  /\ pc'   = [pc EXCEPT ![h] = "scan"]
  /\ reg1' = [reg1 EXCEPT ![h] = h]
  /\ UNCHANGED round

\* sw zero, 0(reg2): the hart clears its own msip; reg1 is already at msip[0].
ClearMsip(h) ==
  /\ pc[h] = "clear"
  /\ msip' = MsipWrite(h, 0)
  /\ pc'   = [pc EXCEPT ![h] = "scan"]
  /\ reg1' = [reg1 EXCEPT ![h] = 0]
  /\ UNCHANGED round

\* Mutant: the scan includes the register behind the last one.
ScanMsip_PastEnd(h) ==
  /\ pc[h] = "scan"
  /\ Msip(reg1[h]) = 0
  /\ reg1' = [reg1 EXCEPT ![h] = @ + 1]
  /\ IF reg1[h] + 1 <= MAX_HARTS
       THEN UNCHANGED <<pc, round>>
       ELSE /\ pc'    = [pc EXCEPT ![h] = "multi"]
            /\ round' = [round EXCEPT ![h] = @ + 1]
  /\ UNCHANGED msip

\* Mutant: the bnez of the scan is dropped.
ScanMsip_NoWait(h) ==
  /\ pc[h] = "scan"
  /\ reg1' = [reg1 EXCEPT ![h] = @ + 1]
  /\ IF reg1[h] + 1 < MAX_HARTS
       THEN UNCHANGED <<pc, round>>
       ELSE /\ pc'    = [pc EXCEPT ![h] = "multi"]
            /\ round' = [round EXCEPT ![h] = @ + 1]
  /\ UNCHANGED msip

\* The second loop 41: bnez spins on a register that reads 1 (the stutter),
\* and the macro ends behind the last register.
ScanMsip(h) ==
  /\ pc[h] = "scan"
  /\ Msip(reg1[h]) = 0
  /\ reg1' = [reg1 EXCEPT ![h] = @ + 1]
  /\ IF reg1[h] + 1 < MAX_HARTS
       THEN UNCHANGED <<pc, round>>
       ELSE /\ pc'    = [pc EXCEPT ![h] = "multi"]
            /\ round' = [round EXCEPT ![h] = @ + 1]
  /\ UNCHANGED msip

Step(h) ==
  \/ Pause(h)
  \/ EnterResume(h)
  \/ SetMsip(h)
  \/ Wake(h)
  \/ ClearMsip(h)
  \/ ScanMsip(h)

Next == \E h \in Harts : Step(h)

Spec == Init /\ [][Next]_vars

\* Every hart that can execute its next access eventually does.
FairSpec == Spec /\ \A h \in Harts : WF_vars(Step(h))

-----------------------------------------------------------------------------
(***************************************************************************)
(* Properties                                                              *)
(***************************************************************************)

TypeOK ==
  /\ msip  \in [Msips -> {0, 1}]
  /\ pc    \in [Harts -> Labels]
  /\ reg1  \in [Harts -> 0 .. MAX_HARTS]
  /\ round \in [Harts -> 0 .. MaxRounds]

\* How many smp_resume hart h has acknowledged by clearing its msip.
Arrived(h) == IF pc[h] = "scan" THEN round[h] + 1 ELSE round[h]

\* How often hart 0 has set the msip of hart h.
Released(h) ==
  IF \/ pc[0] \in {"wfi", "clear", "scan"}
     \/ pc[0] = "set" /\ reg1[0] > h
    THEN round[0] + 1
    ELSE round[0]

\* No hart is out of an smp_resume before all harts have acknowledged it,
\* however the CLINT accesses of the harts interleave and however often the
\* macros are used.
Barrier == \A g, h \in Harts : Arrived(h) >= round[g]

\* No hart gets past its wait loop while hart 0 is still in the
\* single-threaded work of that round.
SingleSectionHeld ==
  pc[0] = "single" =>
    \A h \in Harts : Arrived(h) = round[0] /\ pc[h] # "clear"

\* No wake-up is lost: the msip bit of a hart is exactly the release it has
\* not acknowledged yet, so hart 0 never sets a bit that is still set.
NoLostWakeup ==
  \A h \in Harts : Released(h) = Arrived(h) + msip[h]

\* The macros implement the abstract barrier.
Abstract == INSTANCE SmpBarrierSpec
              WITH arrived <- [h \in Harts |-> Arrived(h)],
                   left    <- round
Refines == Abstract!Spec

\* smp.h:27-33: the macro pair may be used more than once, and every hart
\* gets out of every smp_resume it enters.
AllResume == <>(\A h \in Harts : round[h] = MaxRounds)

\* Hart 0 has released hart h a second time while h still scans.
Lapped(h) == pc[h] = "scan" /\ Released(h) > Arrived(h)

\* The harts all get out of every smp_resume, unless hart 0 laps one of them:
\* nothing else can block a hart, not a late one, not a register without one.
ResumeUnlessLapped ==
  <>(\/ \A h \in Harts : round[h] = MaxRounds
     \/ \E h \in Harts : Lapped(h))

\* The strengthening that is inductive: a hart scanning the registers knows
\* that every hart below its index has acknowledged the round.
ScannedArrived ==
  \A g, h \in Harts :
    pc[g] = "scan" /\ h < reg1[g] => Arrived(h) >= round[g] + 1

\* A hart other than hart 0 never runs the single-threaded work or the
\* releasing loop, and loop indices stay inside the array.
ControlOK ==
  /\ \A h \in Harts \ {0} : pc[h] \notin {"single", "set"}
  /\ \A h \in Harts : pc[h] \in {"set", "scan"} => reg1[h] < MAX_HARTS
  /\ \A h \in Harts : pc[h] # "multi" => round[h] < MaxRounds
  /\ \A h \in Harts : pc[h] = "clear" => msip[h] = 1

IInv ==
  /\ TypeOK
  /\ ControlOK
  /\ NoLostWakeup
  /\ ScannedArrived
  /\ Barrier
=============================================================================
