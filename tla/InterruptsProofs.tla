-------------------------- MODULE InterruptsProofs --------------------------
(***************************************************************************)
(* Proofs about Interrupts, for any number of sources and any driver calls *)
(* of the program and its handlers that satisfy the assumptions: types,    *)
(* SettingsStick and NothingLeftClaimed.                                   *)
(***************************************************************************)
EXTENDS Interrupts, SequenceTheorems, TLAPS

\* The calls left are the end of the program, respectively calls of the
\* handler of the source that is served.
CallsOK ==
  /\ Len(calls["main"]) <= Len(MainCalls)
  /\ \A i \in 1 .. Len(calls["main"]) :
       calls["main"][i] = MainCalls[i + Len(MainCalls) - Len(calls["main"])]
  /\ \A i \in 1 .. Len(calls["trap"]) :
       /\ served \in Sources
       /\ \E j \in 1 .. Len(HandlerCalls[served]) :
            calls["trap"][i] = HandlerCalls[served][j]

\* Where each context can be in a driver call.
PcOK ==
  /\ \A c \in Contexts : pc[c] = "store" =>
       calls[c] # <<>> /\ Head(calls[c]).fn \in {"enable", "disable"}
  /\ pc["main"] \in {"prios", "threshold"} => Initialising
  /\ pc["trap"] \in {"next", "store"}
  /\ stage # "handler" => pc["trap"] = "next"
  /\ stage \in {"main", "claim", "return"} => calls["trap"] = <<>>
  /\ stage = "serve" => served \in Sources /\ calls["trap"] = <<>>
  /\ stage # "main" => ~mie

\* Interrupts come in only after the last PLIC_init.
InitFirst ==
  mie \/ stage # "main" =>
    \A i \in 1 .. Len(calls["main"]) : calls["main"][i].fn # "init"

\* What PLIC_init has cleared so far.
InitProgress ==
  /\ ~Initialising => idx = 0
  /\ Initialising /\ pc["main"] = "next" =>
       idx < InitBytes /\ \A s \in enable : Byte(s) >= idx
  /\ pc["main"] \in {"prios", "threshold"} => enable = {}
  /\ pc["main"] = "prios" => \A s \in Sources : s < idx => prio[s] = 0
  /\ pc["main"] = "threshold" => \A s \in Sources : prio[s] = 0
  /\ pc["main"] = "threshold" => idx = 0

\* The register of the program's read-modify-write, wherever it is kept.
MainReg(r, f, st) == IF st = "main" THEN r ELSE f

\* Between load and store the program's register agrees with what has been
\* asked for, and the handler's with the byte itself.
RmwOK ==
  /\ pc["main"] = "store" =>
       \A s \in Sources \ Contested : Byte(s) = Byte(Op("main").src) =>
         (s \in MainReg(reg, frame, stage) <=> s \in asked.enable)
  /\ pc["main"] = "store" =>
       \A s \in MainReg(reg, frame, stage) : Byte(s) = Byte(Op("main").src)
  /\ pc["trap"] = "store" =>
       reg = { s \in enable : Byte(s) = Byte(Op("trap").src) }

ClaimOK ==
  /\ stage \in {"main", "claim", "return"} => claimed = {}
  /\ stage \in {"serve", "handler"} => claimed = {served} /\ served \in enable

IInv ==
  /\ TypeOK
  /\ CallsOK
  /\ PcOK
  /\ InitFirst
  /\ InitProgress
  /\ RmwOK
  /\ SettingsStick
  /\ ClaimOK

-----------------------------------------------------------------------------
(* Lemmas *)

\* Bytes are numbered from 0, and PLIC_init clears every byte with a source.
LEMMA ByteRange ==
  /\ InitBytes \in Nat /\ 0 < InitBytes /\ InitBytes <= NumSources + 1
  /\ \A s \in Sources : Byte(s) \in Nat /\ Byte(s) < InitBytes
<1>a. InitBytes \in Nat /\ 0 < InitBytes /\ InitBytes <= NumSources + 1
  BY PlicAssumption, SMT DEF InitBytes
<1> SUFFICES ASSUME NEW s \in Sources PROVE Byte(s) \in Nat /\ Byte(s) < InitBytes
  BY <1>a
<1>1. s \in Nat /\ NumSources \in Nat /\ ByteBits \in Nat \ {0} /\ s <= NumSources
  BY PlicAssumption DEF Sources
<1>2. s \div ByteBits \in Nat
  BY <1>1, SMT
<1>3. s \div ByteBits < (NumSources + ByteBits) \div ByteBits
  BY <1>1, SMT
<1> QED
  BY <1>a, <1>2, <1>3 DEF Byte, InitBytes

\* A context with calls left: the running call, and what a return leaves.
LEMMA CallFacts ==
  ASSUME TypeOK, NEW c \in Contexts, calls[c] # <<>>
  PROVE  /\ Op(c) \in CallRecords
         /\ Op(c) = calls[c][1]
         /\ Tail(calls[c]) \in Seq(CallRecords)
         /\ Len(calls[c]) \in Nat \ {0}
         /\ Len(Tail(calls[c])) = Len(calls[c]) - 1
         /\ \A i \in 1 .. Len(calls[c]) - 1 : Tail(calls[c])[i] = calls[c][i + 1]
<1>1. calls[c] \in Seq(CallRecords)
  BY DEF TypeOK
<1> QED
  BY <1>1, HeadTailProperties, EmptySeq DEF Op

\* The program's running call is one of MainCalls.
LEMMA MainOp ==
  ASSUME TypeOK, CallsOK, calls["main"] # <<>>
  PROVE  \E j \in 1 .. Len(MainCalls) :
           /\ Op("main") = MainCalls[j]
           /\ j = 1 + Len(MainCalls) - Len(calls["main"])
<1>1. /\ Op("main") = calls["main"][1]
      /\ Len(calls["main"]) \in Nat \ {0}
  BY CallFacts DEF Contexts
<1>2. Len(MainCalls) \in Nat /\ Len(calls["main"]) <= Len(MainCalls)
  BY PlicAssumption DEF CallsOK
<1> DEFINE j == 1 + Len(MainCalls) - Len(calls["main"])
<1>3. j \in 1 .. Len(MainCalls)
  BY <1>1, <1>2
<1>4. calls["main"][1] = MainCalls[j]
  BY <1>1, <1>2, 1 \in 1 .. Len(calls["main"]) DEF CallsOK
<1> QED
  BY <1>1, <1>3, <1>4

\* The handler's is a call it makes for the source it serves.
LEMMA TrapOp ==
  ASSUME TypeOK, CallsOK, calls["trap"] # <<>>
  PROVE  /\ served \in Sources
         /\ \E j \in 1 .. Len(HandlerCalls[served]) : Op("trap") = HandlerCalls[served][j]
         /\ Op("trap").fn \notin {"init", "unmask"}
         /\ Op("trap").fn = "disable" => Op("trap").src # served
<1>1. /\ Op("trap") = calls["trap"][1]
      /\ Len(calls["trap"]) \in Nat \ {0}
  BY CallFacts DEF Contexts
<1>2. /\ served \in Sources
      /\ \E j \in 1 .. Len(HandlerCalls[served]) : Op("trap") = HandlerCalls[served][j]
  BY <1>1 DEF CallsOK
<1> QED
  BY <1>2, UsageAssumption

\* What a return does to the calls and the control of both contexts.
LEMMA ReturnFacts ==
  ASSUME TypeOK, NEW c \in Contexts, calls[c] # <<>>, NEW a, Return(c, a)
  PROVE  /\ calls' \in [Contexts -> Seq(CallRecords)]
         /\ pc' \in [Contexts -> {"next", "prios", "threshold", "store"}]
         /\ calls'[c] = Tail(calls[c])
         /\ pc'[c] = "next"
         /\ \A d \in Contexts \ {c} : calls'[d] = calls[d] /\ pc'[d] = pc[d]
<1>1. Tail(calls[c]) \in Seq(CallRecords)
  BY CallFacts
<1> QED
  BY <1>1 DEF TypeOK, Return

-----------------------------------------------------------------------------
(* Every step preserves each part of the invariant *)

\* Types
LEMMA TypeStep == ASSUME IInv, [Next]_vars PROVE TypeOK'
<1> USE DEF plic, gate, cpu
<1>1. ASSUME NEW s \in Sources, Raise(s) PROVE TypeOK'
  BY <1>1, PlicAssumption DEF IInv, TypeOK, Raise
<1>2. ASSUME NEW s \in Sources, Gateway(s) PROVE TypeOK'
  BY <1>2, PlicAssumption DEF IInv, TypeOK, Gateway
<1>3. ASSUME NEW c \in Contexts, ClearEnables(c) PROVE TypeOK'
  <2>1. idx' \in 0 .. NumSources
    BY <1>3, PlicAssumption, ByteRange DEF IInv, TypeOK, ClearEnables
  <2>2. pc' \in [Contexts -> {"next", "prios", "threshold", "store"}]
    BY <1>3 DEF IInv, TypeOK, ClearEnables
  <2> QED
    BY <1>3, <2>1, <2>2 DEF IInv, TypeOK, ClearEnables
<1>4. ASSUME NEW c \in Contexts, ClearPriorities(c) PROVE TypeOK'
  <2>1. idx' \in 0 .. NumSources
    BY <1>4, PlicAssumption DEF IInv, TypeOK, ClearPriorities
  <2>2. pc' \in [Contexts -> {"next", "prios", "threshold", "store"}]
    BY <1>4 DEF IInv, TypeOK, ClearPriorities
  <2>3. prio' \in [Sources -> Priorities]
    BY <1>4, PlicAssumption DEF IInv, TypeOK, ClearPriorities, Priorities
  <2> QED
    BY <1>4, <2>1, <2>2, <2>3 DEF IInv, TypeOK, ClearPriorities
<1>5. ASSUME NEW c \in Contexts, ClearThreshold(c) PROVE TypeOK'
  <2>1. calls[c] # <<>>
    BY <1>5 DEF ClearThreshold, Calling
  <2>2. calls' \in [Contexts -> Seq(CallRecords)] /\ pc' \in [Contexts -> {"next", "prios", "threshold", "store"}]
    BY <1>5, <2>1, ReturnFacts DEF ClearThreshold, IInv
  <2> QED
    BY <1>5, <2>2, PlicAssumption DEF IInv, TypeOK, ClearThreshold, Priorities, Return
<1>6. ASSUME NEW c \in Contexts, SetThreshold(c) PROVE TypeOK'
  <2>1. calls[c] # <<>>
    BY <1>6 DEF SetThreshold, Calling
  <2>2. calls' \in [Contexts -> Seq(CallRecords)] /\ pc' \in [Contexts -> {"next", "prios", "threshold", "store"}]
    BY <1>6, <2>1, ReturnFacts DEF SetThreshold, IInv
  <2> QED
    BY <1>6, <2>1, <2>2, CallFacts DEF IInv, TypeOK, SetThreshold, Op, CallRecords, Return
<1>7. ASSUME NEW c \in Contexts, SetPriority(c) PROVE TypeOK'
  <2>1. calls[c] # <<>>
    BY <1>7 DEF SetPriority, Calling
  <2>2. calls' \in [Contexts -> Seq(CallRecords)] /\ pc' \in [Contexts -> {"next", "prios", "threshold", "store"}]
    BY <1>7, <2>1, ReturnFacts DEF SetPriority, IInv
  <2> QED
    BY <1>7, <2>1, <2>2, CallFacts DEF IInv, TypeOK, SetPriority, Op, CallRecords, Return
<1>8. ASSUME NEW c \in Contexts, LoadEnable(c) PROVE TypeOK'
  BY <1>8, PlicAssumption DEF IInv, TypeOK, LoadEnable
<1>9. ASSUME NEW c \in Contexts, StoreEnable(c) PROVE TypeOK'
  <2>1. calls[c] # <<>>
    BY <1>9 DEF StoreEnable, Calling
  <2>2. calls' \in [Contexts -> Seq(CallRecords)] /\ pc' \in [Contexts -> {"next", "prios", "threshold", "store"}]
    BY <1>9, <2>1, ReturnFacts DEF StoreEnable, IInv
  <2>3. Op(c).src \in Sources
    BY <2>1, CallFacts DEF IInv, CallRecords
  <2>4. enable' \subseteq Sources
    BY <1>9, <2>3 DEF IInv, TypeOK, StoreEnable, Updated
  <2>5. asked' \in [enable : SUBSET Sources, prio : [Sources -> Priorities], threshold : Priorities]
    BY <1>9, <2>3 DEF IInv, TypeOK, StoreEnable, Return
  <2> QED
    BY <1>9, <2>2, <2>4, <2>5 DEF IInv, TypeOK, StoreEnable
<1>10. ASSUME NEW c \in Contexts, Unmask(c) PROVE TypeOK'
  <2>1. calls[c] # <<>>
    BY <1>10 DEF Unmask, Calling
  <2>2. calls' \in [Contexts -> Seq(CallRecords)] /\ pc' \in [Contexts -> {"next", "prios", "threshold", "store"}]
    BY <1>10, <2>1, ReturnFacts DEF Unmask, IInv
  <2> QED
    BY <1>10, <2>1, <2>2, CallFacts DEF IInv, TypeOK, Unmask, Op, CallRecords, Return
<1>11. ASSUME TrapEntry PROVE TypeOK'
  BY <1>11, PlicAssumption DEF IInv, TypeOK, TrapEntry
<1>12. ASSUME NEW s \in Sources, Claim(s) PROVE TypeOK'
  BY <1>12, PlicAssumption DEF IInv, TypeOK, Claim, Sources
<1>13. ASSUME Serve PROVE TypeOK'
  <2>1. HandlerCalls[served] \in Seq(CallRecords)
    BY <1>13, PlicAssumption DEF IInv, PcOK, Serve
  <2>2. calls' \in [Contexts -> Seq(CallRecords)]
    BY <1>13, <2>1 DEF IInv, TypeOK, Serve
  <2> QED
    BY <1>13, <2>2 DEF IInv, TypeOK, Serve
<1>14. ASSUME Complete PROVE TypeOK'
  BY <1>14, PlicAssumption DEF IInv, TypeOK, Complete
<1>15. ASSUME TrapReturn PROVE TypeOK'
  BY <1>15, PlicAssumption DEF IInv, TypeOK, TrapReturn
<1>16. ASSUME UNCHANGED vars PROVE TypeOK'
  BY <1>16, PlicAssumption DEF IInv, TypeOK, vars
<1> QED
  BY <1>1, <1>2, <1>3, <1>4, <1>5, <1>6, <1>7, <1>8,
     <1>9, <1>10, <1>11, <1>12, <1>13, <1>14, <1>15, <1>16 DEF Next, DriverStep, TrapStep

\* While interrupts may come in, PLIC_init is not running.
LEMMA InitMasked ==
  ASSUME IInv, Initialising
  PROVE  stage = "main" /\ ~mie /\ calls["main"] # <<>> /\ Op("main").fn = "init"
<1>1. calls["main"] # <<>> /\ Op("main").fn = "init"
  BY DEF Initialising, Op
<1>2. calls["main"][1].fn = "init" /\ 1 \in 1 .. Len(calls["main"])
  BY <1>1, CallFacts DEF IInv, Contexts
<1> QED
  BY <1>1, <1>2 DEF IInv, InitFirst

\* PLIC_init is only called by the program.
LEMMA InitInMain ==
  ASSUME IInv, NEW c \in Contexts, Calling(c, "init")
  PROVE  c = "main" /\ Initialising
<1>1. c # "trap"
  BY TrapOp DEF IInv, Calling, Op
<1> QED
  BY <1>1 DEF Contexts, Calling, Initialising

\* A call that returns leaves the rest of its context's calls.
LEMMA ReturnCalls ==
  ASSUME IInv, NEW c \in Contexts, calls[c] # <<>>, NEW a, Return(c, a), served' = served
  PROVE  CallsOK'
<1>1. /\ calls'[c] = Tail(calls[c])
      /\ \A d \in Contexts \ {c} : calls'[d] = calls[d]
  BY ReturnFacts DEF IInv
<1>2. /\ Len(calls[c]) \in Nat \ {0}
      /\ Len(calls'[c]) = Len(calls[c]) - 1
      /\ \A i \in 1 .. Len(calls[c]) - 1 : calls'[c][i] = calls[c][i + 1]
  BY <1>1, CallFacts DEF IInv
<1>3. Len(MainCalls) \in Nat
  BY PlicAssumption
<1>4. CASE c = "main"
  <2>1. Len(calls'["main"]) <= Len(MainCalls)
    BY <1>2, <1>3, <1>4 DEF IInv, CallsOK
  <2>2. ASSUME NEW i \in 1 .. Len(calls'["main"])
        PROVE  calls'["main"][i] = MainCalls[i + Len(MainCalls) - Len(calls'["main"])]
    <3>1. i + 1 \in 1 .. Len(calls["main"]) /\ calls'["main"][i] = calls["main"][i + 1]
      BY <1>2, <1>4
    <3>2. calls["main"][i + 1] = MainCalls[(i + 1) + Len(MainCalls) - Len(calls["main"])]
      BY <3>1 DEF IInv, CallsOK
    <3>3. Len(calls'["main"]) = Len(calls["main"]) - 1 /\ Len(calls["main"]) \in Nat /\ i \in Nat
      BY <1>2, <1>4
    <3>4. (i + 1) + Len(MainCalls) - Len(calls["main"]) = i + Len(MainCalls) - Len(calls'["main"])
      BY <1>3, <3>3
    <3> QED
      BY <3>1, <3>2, <3>4
  <2> QED
    BY <1>1, <1>4, <2>1, <2>2 DEF IInv, CallsOK, Contexts
<1>5. CASE c = "trap"
  <2>1. \A i \in 1 .. Len(calls'["trap"]) :
          i + 1 \in 1 .. Len(calls["trap"]) /\ calls'["trap"][i] = calls["trap"][i + 1]
    BY <1>2, <1>5
  <2>2. calls'["main"] = calls["main"]
    BY <1>1, <1>5 DEF Contexts
  <2> QED
    BY <2>1, <2>2 DEF IInv, CallsOK
<1> QED
  BY <1>4, <1>5 DEF Contexts

\* ... and its context between two calls.
LEMMA ReturnPc ==
  ASSUME IInv, NEW c \in Contexts, NEW fn, Calling(c, fn), NEW a, Return(c, a),
         UNCHANGED <<stage, served>>, mie' = mie \/ stage = "main"
  PROVE  PcOK'
<1>1. /\ pc'[c] = "next"
      /\ \A d \in Contexts \ {c} : calls'[d] = calls[d] /\ pc'[d] = pc[d]
  BY ReturnFacts DEF IInv, Calling
<1>2. CASE c = "main"
  BY <1>1, <1>2 DEF IInv, PcOK, Contexts, Initialising, Calling
<1>3. CASE c = "trap"
  BY <1>1, <1>3 DEF IInv, PcOK, Contexts, Initialising, Calling
<1> QED
  BY <1>2, <1>3 DEF Contexts

\* The calls left
LEMMA CallsStep == ASSUME IInv, [Next]_vars PROVE CallsOK'
<1> USE DEF plic, gate, cpu
<1>1. ASSUME NEW s \in Sources, Raise(s) PROVE CallsOK'
  BY <1>1 DEF IInv, CallsOK, Raise
<1>2. ASSUME NEW s \in Sources, Gateway(s) PROVE CallsOK'
  BY <1>2 DEF IInv, CallsOK, Gateway
<1>3. ASSUME NEW c \in Contexts, ClearEnables(c) PROVE CallsOK'
  BY <1>3 DEF IInv, CallsOK, ClearEnables
<1>4. ASSUME NEW c \in Contexts, ClearPriorities(c) PROVE CallsOK'
  BY <1>4 DEF IInv, CallsOK, ClearPriorities
<1>5. ASSUME NEW c \in Contexts, ClearThreshold(c) PROVE CallsOK'
  <2>1. calls[c] # <<>>
    BY <1>5 DEF ClearThreshold, Calling
  <2> QED
    BY <1>5, <2>1, ReturnCalls DEF ClearThreshold
<1>6. ASSUME NEW c \in Contexts, SetThreshold(c) PROVE CallsOK'
  <2>1. calls[c] # <<>>
    BY <1>6 DEF SetThreshold, Calling
  <2> QED
    BY <1>6, <2>1, ReturnCalls DEF SetThreshold
<1>7. ASSUME NEW c \in Contexts, SetPriority(c) PROVE CallsOK'
  <2>1. calls[c] # <<>>
    BY <1>7 DEF SetPriority, Calling
  <2> QED
    BY <1>7, <2>1, ReturnCalls DEF SetPriority
<1>8. ASSUME NEW c \in Contexts, LoadEnable(c) PROVE CallsOK'
  BY <1>8 DEF IInv, CallsOK, LoadEnable
<1>9. ASSUME NEW c \in Contexts, StoreEnable(c) PROVE CallsOK'
  <2>1. calls[c] # <<>>
    BY <1>9 DEF StoreEnable, Calling
  <2> QED
    BY <1>9, <2>1, ReturnCalls DEF StoreEnable
<1>10. ASSUME NEW c \in Contexts, Unmask(c) PROVE CallsOK'
  <2>1. calls[c] # <<>>
    BY <1>10 DEF Unmask, Calling
  <2> QED
    BY <1>10, <2>1, ReturnCalls DEF Unmask
<1>11. ASSUME TrapEntry PROVE CallsOK'
  BY <1>11 DEF IInv, CallsOK, TrapEntry
<1>12. ASSUME NEW s \in Sources, Claim(s) PROVE CallsOK'
  <2>1. calls' = calls /\ Len(calls'["trap"]) = 0
    BY <1>12, EmptySeq DEF IInv, PcOK, Claim
  <2>2. 1 .. Len(calls'["trap"]) = {}
    BY <2>1
  <2> QED
    BY <2>1, <2>2 DEF IInv, CallsOK
<1>13. ASSUME Serve PROVE CallsOK'
  <2>1. served \in Sources /\ HandlerCalls[served] \in Seq(CallRecords)
    BY <1>13, PlicAssumption DEF IInv, PcOK, Serve
  <2>2. calls'["trap"] = HandlerCalls[served] /\ calls'["main"] = calls["main"]
    BY <1>13 DEF IInv, TypeOK, Serve, Contexts
  <2> QED
    BY <1>13, <2>1, <2>2 DEF IInv, CallsOK, Serve
<1>14. ASSUME Complete PROVE CallsOK'
  BY <1>14 DEF IInv, CallsOK, Complete
<1>15. ASSUME TrapReturn PROVE CallsOK'
  BY <1>15 DEF IInv, CallsOK, TrapReturn
<1>16. ASSUME UNCHANGED vars PROVE CallsOK'
  BY <1>16 DEF IInv, CallsOK, vars
<1> QED
  BY <1>1, <1>2, <1>3, <1>4, <1>5, <1>6, <1>7, <1>8,
     <1>9, <1>10, <1>11, <1>12, <1>13, <1>14, <1>15, <1>16 DEF Next, DriverStep, TrapStep

\* Control
LEMMA PcStep == ASSUME IInv, [Next]_vars PROVE PcOK'
<1> USE DEF plic, gate, cpu
<1>1. ASSUME NEW s \in Sources, Raise(s) PROVE PcOK'
  BY <1>1 DEF IInv, PcOK, Raise, Initialising, Contexts
<1>2. ASSUME NEW s \in Sources, Gateway(s) PROVE PcOK'
  BY <1>2 DEF IInv, PcOK, Gateway, Initialising, Contexts
<1>3. ASSUME NEW c \in Contexts, ClearEnables(c) PROVE PcOK'
  <2>1. c = "main" /\ Initialising
    BY <1>3, InitInMain DEF ClearEnables
  <2> QED
    BY <1>3, <2>1 DEF IInv, TypeOK, PcOK, ClearEnables, Contexts, Initialising
<1>4. ASSUME NEW c \in Contexts, ClearPriorities(c) PROVE PcOK'
  <2>1. c = "main" /\ Initialising
    BY <1>4, InitInMain DEF ClearPriorities
  <2> QED
    BY <1>4, <2>1 DEF IInv, TypeOK, PcOK, ClearPriorities, Contexts, Initialising
<1>5. ASSUME NEW c \in Contexts, ClearThreshold(c) PROVE PcOK'
  BY <1>5, ReturnPc DEF ClearThreshold
<1>6. ASSUME NEW c \in Contexts, SetThreshold(c) PROVE PcOK'
  BY <1>6, ReturnPc DEF SetThreshold
<1>7. ASSUME NEW c \in Contexts, SetPriority(c) PROVE PcOK'
  BY <1>7, ReturnPc DEF SetPriority
<1>8. ASSUME NEW c \in Contexts, LoadEnable(c) PROVE PcOK'
  BY <1>8 DEF IInv, TypeOK, PcOK, LoadEnable, Contexts, Initialising, Calling
<1>9. ASSUME NEW c \in Contexts, StoreEnable(c) PROVE PcOK'
  <2>1. CASE Calling(c, "enable")
    BY <1>9, <2>1, ReturnPc DEF StoreEnable
  <2>2. CASE Calling(c, "disable")
    BY <1>9, <2>2, ReturnPc DEF StoreEnable
  <2> QED
    BY <1>9, <2>1, <2>2 DEF StoreEnable
<1>10. ASSUME NEW c \in Contexts, Unmask(c) PROVE PcOK'
  <2>1. stage = "main"
    BY <1>10, TrapOp DEF IInv, Unmask, Calling, Contexts, Op
  <2> QED
    BY <1>10, <2>1, ReturnPc DEF Unmask
<1>11. ASSUME TrapEntry PROVE PcOK'
  BY <1>11 DEF IInv, PcOK, TrapEntry, Initialising, Contexts
<1>12. ASSUME NEW s \in Sources, Claim(s) PROVE PcOK'
  BY <1>12 DEF IInv, PcOK, Claim, Initialising, Contexts
<1>13. ASSUME Serve PROVE PcOK'
  BY <1>13 DEF IInv, TypeOK, PcOK, Serve, Contexts, Initialising
<1>14. ASSUME Complete PROVE PcOK'
  BY <1>14 DEF IInv, PcOK, Complete, Initialising, Contexts
<1>15. ASSUME TrapReturn PROVE PcOK'
  BY <1>15 DEF IInv, PcOK, TrapReturn, Initialising, Contexts
<1>16. ASSUME UNCHANGED vars PROVE PcOK'
  BY <1>16 DEF IInv, PcOK, vars, Initialising, Contexts
<1> QED
  BY <1>1, <1>2, <1>3, <1>4, <1>5, <1>6, <1>7, <1>8,
     <1>9, <1>10, <1>11, <1>12, <1>13, <1>14, <1>15, <1>16 DEF Next, DriverStep, TrapStep

\* A return leaves only calls that were there before.
LEMMA ReturnNoInit ==
  ASSUME IInv, NEW c \in Contexts, calls[c] # <<>>, NEW a, Return(c, a),
         \A i \in 1 .. Len(calls["main"]) : calls["main"][i].fn # "init"
  PROVE  \A i \in 1 .. Len(calls'["main"]) : calls'["main"][i].fn # "init"
<1>1. CASE c = "main"
  <2>1. /\ Len(calls["main"]) \in Nat
        /\ Len(calls'["main"]) = Len(calls["main"]) - 1
        /\ \A i \in 1 .. Len(calls["main"]) - 1 : calls'["main"][i] = calls["main"][i + 1]
    <3>1. calls'["main"] = Tail(calls["main"])
      BY <1>1, ReturnFacts DEF IInv
    <3> QED
      BY <1>1, <3>1, CallFacts DEF IInv
  <2>2. ASSUME NEW i \in 1 .. Len(calls'["main"])
        PROVE  i + 1 \in 1 .. Len(calls["main"]) /\ calls'["main"][i] = calls["main"][i + 1]
    BY <2>1
  <2> QED
    BY <2>2
<1>2. CASE c = "trap"
  BY <1>2, ReturnFacts DEF IInv, Contexts
<1> QED
  BY <1>1, <1>2 DEF Contexts

\* The program unmasks interrupts behind the last PLIC_init.
LEMMA UnmaskLast ==
  ASSUME IInv, CallsOK', Unmask("main")
  PROVE  \A i \in 1 .. Len(calls'["main"]) : calls'["main"][i].fn # "init"
<1>1. calls["main"] # <<>> /\ Op("main").fn = "unmask"
  BY DEF Unmask, Calling, Op
<1>2. PICK j \in 1 .. Len(MainCalls) :
        MainCalls[j].fn = "unmask" /\ j = 1 + Len(MainCalls) - Len(calls["main"])
  BY <1>1, MainOp DEF IInv
<1>3. Len(calls["main"]) \in Nat \ {0} /\ Len(calls'["main"]) = Len(calls["main"]) - 1
  BY <1>1, CallFacts, ReturnFacts DEF IInv, Unmask, Contexts
<1>4. Len(MainCalls) \in Nat
  BY PlicAssumption
<1> SUFFICES ASSUME NEW i \in 1 .. Len(calls'["main"])
             PROVE  calls'["main"][i].fn # "init"
  OBVIOUS
<1>5. calls'["main"][i] = MainCalls[i + Len(MainCalls) - Len(calls'["main"])]
  BY DEF CallsOK
<1>6. i \in Nat \ {0} /\ i <= Len(calls["main"]) - 1
  BY <1>3
<1>7. i + Len(MainCalls) - Len(calls'["main"]) = i + j
  BY <1>2, <1>3, <1>4, <1>6
<1>8. i + j \in 1 .. Len(MainCalls) /\ ~(i + j < j)
  <2>1. j \in Nat /\ i + j <= Len(MainCalls)
    BY <1>2, <1>3, <1>4, <1>6
  <2> QED
    BY <1>4, <1>6, <2>1
<1> QED
  BY <1>2, <1>5, <1>7, <1>8, UsageAssumption

\* Interrupts come in after PLIC_init
LEMMA InitFirstStep == ASSUME IInv, [Next]_vars PROVE InitFirst'
<1> USE DEF plic, gate, cpu
<1>1. ASSUME NEW s \in Sources, Raise(s) PROVE InitFirst'
  BY <1>1 DEF IInv, InitFirst, Raise
<1>2. ASSUME NEW s \in Sources, Gateway(s) PROVE InitFirst'
  BY <1>2 DEF IInv, InitFirst, Gateway
<1>3. ASSUME NEW c \in Contexts, ClearEnables(c) PROVE InitFirst'
  BY <1>3 DEF IInv, InitFirst, ClearEnables
<1>4. ASSUME NEW c \in Contexts, ClearPriorities(c) PROVE InitFirst'
  BY <1>4 DEF IInv, InitFirst, ClearPriorities
<1>5. ASSUME NEW c \in Contexts, ClearThreshold(c) PROVE InitFirst'
  <2>1. calls[c] # <<>>
    BY <1>5 DEF ClearThreshold, Calling
  <2> QED
    BY <1>5, <2>1, ReturnNoInit DEF IInv, InitFirst, ClearThreshold
<1>6. ASSUME NEW c \in Contexts, SetThreshold(c) PROVE InitFirst'
  <2>1. calls[c] # <<>>
    BY <1>6 DEF SetThreshold, Calling
  <2> QED
    BY <1>6, <2>1, ReturnNoInit DEF IInv, InitFirst, SetThreshold
<1>7. ASSUME NEW c \in Contexts, SetPriority(c) PROVE InitFirst'
  <2>1. calls[c] # <<>>
    BY <1>7 DEF SetPriority, Calling
  <2> QED
    BY <1>7, <2>1, ReturnNoInit DEF IInv, InitFirst, SetPriority
<1>8. ASSUME NEW c \in Contexts, LoadEnable(c) PROVE InitFirst'
  BY <1>8 DEF IInv, InitFirst, LoadEnable
<1>9. ASSUME NEW c \in Contexts, StoreEnable(c) PROVE InitFirst'
  <2>1. calls[c] # <<>>
    BY <1>9 DEF StoreEnable, Calling
  <2> QED
    BY <1>9, <2>1, ReturnNoInit DEF IInv, InitFirst, StoreEnable
<1>10. ASSUME NEW c \in Contexts, Unmask(c) PROVE InitFirst'
  <2>1. c = "main" /\ CallsOK'
    BY <1>10, CallsStep, TrapOp DEF IInv, Next, DriverStep, Unmask, Calling, Contexts, Op
  <2> QED
    BY <1>10, <2>1, UnmaskLast DEF InitFirst
<1>11. ASSUME TrapEntry PROVE InitFirst'
  BY <1>11 DEF IInv, InitFirst, TrapEntry
<1>12. ASSUME NEW s \in Sources, Claim(s) PROVE InitFirst'
  BY <1>12 DEF IInv, InitFirst, Claim
<1>13. ASSUME Serve PROVE InitFirst'
  BY <1>13 DEF IInv, InitFirst, Serve
<1>14. ASSUME Complete PROVE InitFirst'
  BY <1>14 DEF IInv, InitFirst, Complete
<1>15. ASSUME TrapReturn PROVE InitFirst'
  BY <1>15 DEF IInv, InitFirst, TrapReturn
<1>16. ASSUME UNCHANGED vars PROVE InitFirst'
  BY <1>16 DEF IInv, InitFirst, vars
<1> QED
  BY <1>1, <1>2, <1>3, <1>4, <1>5, <1>6, <1>7, <1>8,
     <1>9, <1>10, <1>11, <1>12, <1>13, <1>14, <1>15, <1>16 DEF Next, DriverStep, TrapStep

\* PLIC_init does not run while a trap is handled, whatever that does.
LEMMA TrapKeepsInit ==
  ASSUME IInv, stage # "main", idx' = idx,
         \/ UNCHANGED <<calls, pc>>
         \/ calls["trap"] # <<>> /\ \E a : Return("trap", a)
         \/ calls' = calls /\ pc'["main"] = pc["main"]
  PROVE  InitProgress'
<1>1. ~Initialising /\ pc["main"] \notin {"prios", "threshold"}
  BY InitMasked DEF IInv, PcOK
<1>2. calls'["main"] = calls["main"] /\ pc'["main"] = pc["main"]
  BY ReturnFacts DEF IInv, Contexts
<1> QED
  BY <1>1, <1>2 DEF IInv, InitProgress, Initialising

\* PLIC_init
LEMMA InitProgressStep == ASSUME IInv, [Next]_vars PROVE InitProgress'
<1> USE DEF plic, gate, cpu
<1>1. ASSUME NEW s \in Sources, Raise(s) PROVE InitProgress'
  BY <1>1 DEF IInv, InitProgress, Raise, Initialising
<1>2. ASSUME NEW s \in Sources, Gateway(s) PROVE InitProgress'
  BY <1>2 DEF IInv, InitProgress, Gateway, Initialising
<1>3. ASSUME NEW c \in Contexts, ClearEnables(c) PROVE InitProgress'
  <2>1. c = "main" /\ Initialising /\ Initialising'
    BY <1>3, InitInMain DEF ClearEnables, Initialising
  <2>2. CASE idx + 1 < InitBytes
    <3>1. pc'["main"] = "next" /\ idx' = idx + 1 /\ \A s \in enable' : s \in enable /\ Byte(s) # idx
      BY <1>3, <2>1, <2>2 DEF ClearEnables
    <3>2. \A s \in enable' : Byte(s) \in Nat /\ Byte(s) >= idx
      BY <1>3, <2>1, <3>1, ByteRange DEF IInv, TypeOK, InitProgress, ClearEnables
    <3>3. idx \in Nat
      BY PlicAssumption DEF IInv, TypeOK
    <3>4. \A s \in enable' : Byte(s) >= idx + 1
      BY <3>1, <3>2, <3>3
    <3> QED
      BY <2>1, <2>2, <3>1, <3>4 DEF InitProgress
  <2>3. CASE ~(idx + 1 < InitBytes)
    <3>1. pc'["main"] = "prios" /\ idx' = 0 /\ \A s \in enable' : s \in enable /\ Byte(s) # idx
      BY <1>3, <2>1, <2>3 DEF IInv, TypeOK, ClearEnables, Contexts
    <3>2. \A s \in enable : Byte(s) \in Nat /\ Byte(s) >= idx /\ Byte(s) < InitBytes
      BY <1>3, <2>1, ByteRange DEF IInv, TypeOK, InitProgress, ClearEnables
    <3>3. idx \in Nat /\ InitBytes \in Nat
      BY PlicAssumption, ByteRange DEF IInv, TypeOK
    <3>4. \A s \in enable : Byte(s) = idx
      BY <2>3, <3>2, <3>3
    <3>5. enable' = {}
      BY <3>1, <3>4
    <3> QED
      BY <2>1, <3>1, <3>5, PlicAssumption DEF InitProgress, Sources
  <2> QED
    BY <2>2, <2>3
<1>4. ASSUME NEW c \in Contexts, ClearPriorities(c) PROVE InitProgress'
  <2>1. c = "main" /\ Initialising /\ Initialising'
    BY <1>4, InitInMain DEF ClearPriorities, Initialising
  <2>2. enable' = {} /\ \A s \in Sources : s < idx => prio[s] = 0
    BY <1>4, <2>1 DEF IInv, InitProgress, ClearPriorities
  <2>3. idx \in 0 .. NumSources /\ NumSources \in Nat
    BY PlicAssumption DEF IInv, TypeOK
  <2>4. \A s \in Sources : s < idx + 1 => prio'[s] = 0
    BY <1>4, <2>2, <2>3 DEF ClearPriorities, Sources
  <2>5. CASE idx < NumSources
    BY <1>4, <2>1, <2>2, <2>4, <2>5 DEF InitProgress, ClearPriorities
  <2>6. CASE ~(idx < NumSources)
    <3>1. pc'["main"] = "threshold" /\ idx' = 0
      BY <1>4, <2>1, <2>6 DEF IInv, TypeOK, ClearPriorities, Contexts
    <3>2. \A s \in Sources : prio'[s] = 0
      BY <2>3, <2>4, <2>6 DEF Sources
    <3> QED
      BY <2>1, <2>2, <3>1, <3>2 DEF InitProgress
  <2> QED
    BY <2>5, <2>6
<1>5. ASSUME NEW c \in Contexts, ClearThreshold(c) PROVE InitProgress'
  <2>1. c = "main"
    BY <1>5, InitInMain DEF ClearThreshold
  <2>2. pc'["main"] = "next" /\ idx' = 0 /\ enable' = {}
    BY <1>5, <2>1, ReturnFacts DEF IInv, InitProgress, ClearThreshold, Calling
  <2> QED
    BY <2>2, ByteRange DEF InitProgress
<1>6. ASSUME NEW c \in Contexts, SetThreshold(c) PROVE InitProgress'
  <2>1. CASE c = "main"
    <3>1. ~Initialising /\ pc["main"] \notin {"prios", "threshold"}
      BY <1>6, <2>1 DEF IInv, PcOK, Initialising, SetThreshold, Calling
    <3>2. pc'["main"] = "next" /\ idx' = 0 /\ enable' = enable
      BY <1>6, <2>1, <3>1, ReturnFacts DEF IInv, InitProgress, SetThreshold, Calling
    <3> QED
      BY <3>2, ByteRange DEF IInv, TypeOK, InitProgress
  <2>2. CASE c = "trap"
    <3>1. stage # "main"
      BY <1>6, <2>2 DEF SetThreshold, Calling
    <3> QED
      BY <1>6, <2>2, <3>1, TrapKeepsInit DEF SetThreshold, Calling
  <2> QED
    BY <2>1, <2>2 DEF Contexts
<1>7. ASSUME NEW c \in Contexts, SetPriority(c) PROVE InitProgress'
  <2>1. CASE c = "main"
    <3>1. ~Initialising /\ pc["main"] \notin {"prios", "threshold"}
      BY <1>7, <2>1 DEF IInv, PcOK, Initialising, SetPriority, Calling
    <3>2. pc'["main"] = "next" /\ idx' = 0 /\ enable' = enable
      BY <1>7, <2>1, <3>1, ReturnFacts DEF IInv, InitProgress, SetPriority, Calling
    <3> QED
      BY <3>2, ByteRange DEF IInv, TypeOK, InitProgress
  <2>2. CASE c = "trap"
    <3>1. stage # "main"
      BY <1>7, <2>2 DEF SetPriority, Calling
    <3> QED
      BY <1>7, <2>2, <3>1, TrapKeepsInit DEF SetPriority, Calling
  <2> QED
    BY <2>1, <2>2 DEF Contexts
<1>8. ASSUME NEW c \in Contexts, LoadEnable(c) PROVE InitProgress'
  <2>1. ~Initialising \/ c = "trap"
    BY <1>8 DEF LoadEnable, Calling, Initialising, Contexts
  <2>2. CASE c = "main"
    BY <1>8, <2>1, <2>2 DEF IInv, TypeOK, PcOK, InitProgress, LoadEnable, Initialising, Contexts
  <2>3. CASE c = "trap"
    BY <1>8, <2>3, TrapKeepsInit DEF IInv, TypeOK, LoadEnable, Calling, Contexts
  <2> QED
    BY <2>2, <2>3 DEF Contexts
<1>9. ASSUME NEW c \in Contexts, StoreEnable(c) PROVE InitProgress'
  <2>1. CASE c = "main"
    <3>1. ~Initialising /\ pc["main"] \notin {"prios", "threshold"}
      BY <1>9, <2>1 DEF IInv, PcOK, Initialising, StoreEnable, Calling
    <3>2. pc'["main"] = "next" /\ idx' = 0
      BY <1>9, <2>1, <3>1, ReturnFacts DEF IInv, InitProgress, StoreEnable, Calling
    <3>3. enable' \subseteq Sources
      BY <1>9, TypeStep DEF TypeOK, Next, DriverStep
    <3> QED
      BY <3>2, <3>3, ByteRange DEF InitProgress
  <2>2. CASE c = "trap"
    BY <1>9, <2>2, TrapKeepsInit DEF StoreEnable, Calling
  <2> QED
    BY <2>1, <2>2 DEF Contexts
<1>10. ASSUME NEW c \in Contexts, Unmask(c) PROVE InitProgress'
  <2>1. CASE c = "main"
    <3>1. ~Initialising /\ pc["main"] \notin {"prios", "threshold"}
      BY <1>10, <2>1 DEF IInv, PcOK, Initialising, Unmask, Calling
    <3>2. pc'["main"] = "next" /\ idx' = 0 /\ enable' = enable
      BY <1>10, <2>1, <3>1, ReturnFacts DEF IInv, InitProgress, Unmask, Calling
    <3> QED
      BY <3>2, ByteRange DEF IInv, TypeOK, InitProgress
  <2>2. CASE c = "trap"
    <3>1. stage # "main"
      BY <1>10, <2>2 DEF Unmask, Calling
    <3> QED
      BY <1>10, <2>2, <3>1, TrapKeepsInit DEF Unmask, Calling
  <2> QED
    BY <2>1, <2>2 DEF Contexts
<1>11. ASSUME TrapEntry PROVE InitProgress'
  BY <1>11 DEF IInv, InitProgress, TrapEntry, Initialising
<1>12. ASSUME NEW s \in Sources, Claim(s) PROVE InitProgress'
  BY <1>12 DEF IInv, InitProgress, Claim, Initialising
<1>13. ASSUME Serve PROVE InitProgress'
  BY <1>13 DEF IInv, InitProgress, Serve, Initialising
<1>14. ASSUME Complete PROVE InitProgress'
  BY <1>14 DEF IInv, InitProgress, Complete, Initialising
<1>15. ASSUME TrapReturn PROVE InitProgress'
  BY <1>15 DEF IInv, InitProgress, TrapReturn, Initialising
<1>16. ASSUME UNCHANGED vars PROVE InitProgress'
  BY <1>16 DEF IInv, InitProgress, vars, Initialising
<1> QED
  BY <1>1, <1>2, <1>3, <1>4, <1>5, <1>6, <1>7, <1>8,
     <1>9, <1>10, <1>11, <1>12, <1>13, <1>14, <1>15, <1>16 DEF Next, DriverStep, TrapStep

\* A source the handler and the program edit in one byte is contested.
LEMMA ContestedByte ==
  ASSUME IInv, calls["main"] # <<>>, Op("main").fn \in {"enable", "disable"},
         calls["trap"] # <<>>, Op("trap").fn \in {"enable", "disable"},
         Byte(Op("trap").src) = Byte(Op("main").src)
  PROVE  Op("trap").src \in Contested
<1>1. Op("main").src \in Sources /\ Op("trap").src \in Sources
  BY CallFacts DEF IInv, Contexts, CallRecords
<1>2. Edits(MainCalls, Op("main").src)
  BY MainOp DEF IInv, Edits
<1>3. served \in Sources /\ Edits(HandlerCalls[served], Op("trap").src)
  BY TrapOp DEF IInv, Edits
<1> QED
  BY <1>1, <1>2, <1>3 DEF Contested

\* The read-modify-write of an enable byte
LEMMA RmwStep == ASSUME IInv, [Next]_vars PROVE RmwOK'
<1> USE DEF plic, gate, cpu
<1>1. ASSUME NEW s \in Sources, Raise(s) PROVE RmwOK'
  BY <1>1 DEF IInv, RmwOK, Raise, MainReg, Op
<1>2. ASSUME NEW s \in Sources, Gateway(s) PROVE RmwOK'
  BY <1>2 DEF IInv, RmwOK, Gateway, MainReg, Op
<1>3. ASSUME NEW c \in Contexts, ClearEnables(c) PROVE RmwOK'
  <2>1. c = "main" /\ stage = "main"
    BY <1>3, InitInMain DEF ClearEnables, Calling
  <2>2. pc'["main"] # "store" /\ pc'["trap"] # "store"
    BY <1>3, <2>1 DEF IInv, TypeOK, PcOK, ClearEnables, Contexts
  <2> QED
    BY <2>2 DEF RmwOK
<1>4. ASSUME NEW c \in Contexts, ClearPriorities(c) PROVE RmwOK'
  <2>1. c = "main" /\ stage = "main"
    BY <1>4, InitInMain DEF ClearPriorities, Calling
  <2>2. pc'["main"] # "store" /\ pc'["trap"] # "store"
    BY <1>4, <2>1 DEF IInv, TypeOK, PcOK, ClearPriorities, Contexts
  <2> QED
    BY <2>2 DEF RmwOK
<1>5. ASSUME NEW c \in Contexts, ClearThreshold(c) PROVE RmwOK'
  <2>1. CASE c = "main"
    <3>1. pc'["main"] = "next" /\ pc'["trap"] = "next"
      BY <1>5, <2>1, ReturnFacts DEF IInv, PcOK, ClearThreshold, Calling, Contexts
    <3> QED
      BY <3>1 DEF RmwOK
  <2>2. CASE c = "trap"
    <3>1. pc'["trap"] = "next" /\ pc'["main"] = pc["main"] /\ calls'["main"] = calls["main"]
      BY <1>5, <2>2, ReturnFacts DEF IInv, ClearThreshold, Calling, Contexts
    <3>2. asked'.enable = asked.enable
      BY <1>5, <2>2, InitInMain DEF IInv, TypeOK, ClearThreshold, Return
    <3> QED
      BY <1>5, <3>1, <3>2 DEF IInv, RmwOK, ClearThreshold, Op
  <2> QED
    BY <2>1, <2>2 DEF Contexts
<1>6. ASSUME NEW c \in Contexts, SetThreshold(c) PROVE RmwOK'
  <2>1. CASE c = "main"
    <3>1. pc'["main"] = "next" /\ pc'["trap"] = "next"
      BY <1>6, <2>1, ReturnFacts DEF IInv, PcOK, SetThreshold, Calling, Contexts
    <3> QED
      BY <3>1 DEF RmwOK
  <2>2. CASE c = "trap"
    <3>1. pc'["trap"] = "next" /\ pc'["main"] = pc["main"] /\ calls'["main"] = calls["main"]
      BY <1>6, <2>2, ReturnFacts DEF IInv, SetThreshold, Calling, Contexts
    <3>2. asked'.enable = asked.enable
      BY <1>6, <2>2, InitInMain DEF IInv, TypeOK, SetThreshold, Return
    <3> QED
      BY <1>6, <3>1, <3>2 DEF IInv, RmwOK, SetThreshold, Op
  <2> QED
    BY <2>1, <2>2 DEF Contexts
<1>7. ASSUME NEW c \in Contexts, SetPriority(c) PROVE RmwOK'
  <2>1. CASE c = "main"
    <3>1. pc'["main"] = "next" /\ pc'["trap"] = "next"
      BY <1>7, <2>1, ReturnFacts DEF IInv, PcOK, SetPriority, Calling, Contexts
    <3> QED
      BY <3>1 DEF RmwOK
  <2>2. CASE c = "trap"
    <3>1. pc'["trap"] = "next" /\ pc'["main"] = pc["main"] /\ calls'["main"] = calls["main"]
      BY <1>7, <2>2, ReturnFacts DEF IInv, SetPriority, Calling, Contexts
    <3>2. asked'.enable = asked.enable
      BY <1>7, <2>2, InitInMain DEF IInv, TypeOK, SetPriority, Return
    <3> QED
      BY <1>7, <3>1, <3>2 DEF IInv, RmwOK, SetPriority, Op
  <2> QED
    BY <2>1, <2>2 DEF Contexts
<1>8. ASSUME NEW c \in Contexts, LoadEnable(c) PROVE RmwOK'
  <2>1. CASE c = "main"
    <3>1. ~Initialising /\ stage = "main" /\ pc["trap"] = "next"
      BY <1>8, <2>1 DEF IInv, PcOK, LoadEnable, Calling, Initialising
    <3>2. pc'["trap"] = "next" /\ Op("main")' = Op("main") /\ stage' = "main"
      BY <1>8, <2>1, <3>1 DEF IInv, TypeOK, LoadEnable, Op
    <3> QED
      BY <1>8, <2>1, <3>1, <3>2 DEF IInv, RmwOK, SettingsStick, LoadEnable, MainReg
  <2>2. CASE c = "trap"
    <3>1. stage # "main" /\ stage' = stage /\ frame' = frame /\ pc'["main"] = pc["main"]
      BY <1>8, <2>2 DEF IInv, TypeOK, LoadEnable, Calling, Contexts
    <3> QED
      BY <1>8, <2>2, <3>1 DEF IInv, RmwOK, LoadEnable, MainReg, Op
  <2> QED
    BY <2>1, <2>2 DEF Contexts
<1>9. ASSUME NEW c \in Contexts, StoreEnable(c) PROVE RmwOK'
  <2>1. CASE c = "main"
    <3>1. pc'["main"] = "next" /\ pc'["trap"] = "next"
      BY <1>9, <2>1, ReturnFacts DEF IInv, PcOK, StoreEnable, Calling, Contexts
    <3> QED
      BY <3>1 DEF RmwOK
  <2>2. CASE c = "trap"
    <3>1. calls["trap"] # <<>> /\ Op("trap").fn \in {"enable", "disable"}
      BY <1>9, <2>2 DEF StoreEnable, Calling, Op
    <3>2. pc'["trap"] = "next" /\ pc'["main"] = pc["main"] /\ Op("main")' = Op("main")
      BY <1>9, <2>2, <3>1, ReturnFacts DEF IInv, StoreEnable, Contexts, Op
    <3>3. \A s \in Sources : s # Op("trap").src => (s \in asked'.enable <=> s \in asked.enable)
      BY <1>9, <2>2 DEF IInv, TypeOK, StoreEnable, Return
    <3>4. pc["main"] = "store" /\ Byte(Op("trap").src) = Byte(Op("main").src)
            => Op("trap").src \in Contested
      BY <3>1, ContestedByte DEF IInv, PcOK, Contexts, Op
    <3> QED
      BY <1>9, <3>2, <3>3, <3>4 DEF IInv, RmwOK, StoreEnable
  <2> QED
    BY <2>1, <2>2 DEF Contexts
<1>10. ASSUME NEW c \in Contexts, Unmask(c) PROVE RmwOK'
  <2>1. CASE c = "main"
    <3>1. pc'["main"] = "next" /\ pc'["trap"] = "next"
      BY <1>10, <2>1, ReturnFacts DEF IInv, PcOK, Unmask, Calling, Contexts
    <3> QED
      BY <3>1 DEF RmwOK
  <2>2. CASE c = "trap"
    <3>1. pc'["trap"] = "next" /\ pc'["main"] = pc["main"] /\ calls'["main"] = calls["main"]
      BY <1>10, <2>2, ReturnFacts DEF IInv, Unmask, Calling, Contexts
    <3>2. asked'.enable = asked.enable
      BY <1>10, <2>2, InitInMain DEF IInv, TypeOK, Unmask, Return
    <3> QED
      BY <1>10, <3>1, <3>2 DEF IInv, RmwOK, Unmask, Op
  <2> QED
    BY <2>1, <2>2 DEF Contexts
<1>11. ASSUME TrapEntry PROVE RmwOK'
  BY <1>11 DEF IInv, PcOK, RmwOK, TrapEntry, MainReg, Op
<1>12. ASSUME NEW s \in Sources, Claim(s) PROVE RmwOK'
  BY <1>12 DEF IInv, RmwOK, Claim, MainReg, Op
<1>13. ASSUME Serve PROVE RmwOK'
  <2>1. pc'["trap"] = "next" /\ calls'["main"] = calls["main"]
    BY <1>13 DEF IInv, TypeOK, PcOK, Serve
  <2> QED
    BY <1>13, <2>1 DEF IInv, RmwOK, Serve, MainReg, Op
<1>14. ASSUME Complete PROVE RmwOK'
  BY <1>14 DEF IInv, RmwOK, Complete, MainReg, Op
<1>15. ASSUME TrapReturn PROVE RmwOK'
  BY <1>15 DEF IInv, PcOK, RmwOK, TrapReturn, MainReg, Op
<1>16. ASSUME UNCHANGED vars PROVE RmwOK'
  BY <1>16 DEF IInv, RmwOK, vars, MainReg, Op
<1> QED
  BY <1>1, <1>2, <1>3, <1>4, <1>5, <1>6, <1>7, <1>8,
     <1>9, <1>10, <1>11, <1>12, <1>13, <1>14, <1>15, <1>16 DEF Next, DriverStep, TrapStep

\* The settings
LEMMA SettingsStep == ASSUME IInv, [Next]_vars PROVE SettingsStick'
<1> USE DEF plic, gate, cpu
<1>1. ASSUME NEW s \in Sources, Raise(s) PROVE SettingsStick'
  BY <1>1 DEF IInv, SettingsStick, Raise, Initialising
<1>2. ASSUME NEW s \in Sources, Gateway(s) PROVE SettingsStick'
  BY <1>2 DEF IInv, SettingsStick, Gateway, Initialising
<1>3. ASSUME NEW c \in Contexts, ClearEnables(c) PROVE SettingsStick'
  BY <1>3, InitInMain DEF ClearEnables, SettingsStick, Initialising
<1>4. ASSUME NEW c \in Contexts, ClearPriorities(c) PROVE SettingsStick'
  BY <1>4, InitInMain DEF ClearPriorities, SettingsStick, Initialising
<1>5. ASSUME NEW c \in Contexts, ClearThreshold(c) PROVE SettingsStick'
  <2>1. c = "main" /\ pc["main"] = "threshold"
    BY <1>5, InitInMain DEF ClearThreshold
  <2>2. enable' = {} /\ threshold' = 0 /\ prio' = [s \in Sources |-> 0]
    BY <1>5, <2>1 DEF IInv, TypeOK, InitProgress, ClearThreshold
  <2>3. asked' = [enable |-> {}, prio |-> [s \in Sources |-> 0], threshold |-> 0]
    BY <1>5 DEF ClearThreshold, Return
  <2> QED
    BY <2>2, <2>3 DEF SettingsStick
<1>6. ASSUME NEW c \in Contexts, SetThreshold(c) PROVE SettingsStick'
  <2>1. ~Initialising
    BY <1>6, InitMasked DEF SetThreshold, Calling, Contexts, Initialising
  <2>2. asked' = [asked EXCEPT !.threshold = Op(c).val]
    BY <1>6 DEF SetThreshold, Return
  <2> QED
    BY <1>6, <2>1, <2>2 DEF IInv, TypeOK, SettingsStick, SetThreshold
<1>7. ASSUME NEW c \in Contexts, SetPriority(c) PROVE SettingsStick'
  <2>1. ~Initialising
    BY <1>7, InitMasked DEF SetPriority, Calling, Contexts, Initialising
  <2>2. asked' = [asked EXCEPT !.prio = [asked.prio EXCEPT ![Op(c).src] = Op(c).val]]
    BY <1>7 DEF SetPriority, Return
  <2>3. Op(c).src \in Sources /\ Op(c).val \in Priorities
    BY <1>7, CallFacts DEF IInv, SetPriority, Calling, CallRecords
  <2>4. prio' = [prio EXCEPT ![Op(c).src] = Op(c).val]
    <3>1. CASE NumPriorities > 0
      BY <1>7, <3>1 DEF SetPriority
    <3>2. CASE ~(NumPriorities > 0)
      <4>1. Priorities = {0}
        BY <3>2, PlicAssumption DEF Priorities
      <4>2. prio \in [Sources -> {0}] /\ Op(c).val = 0
        BY <4>1, <2>3 DEF IInv, TypeOK
      <4>3. [prio EXCEPT ![Op(c).src] = Op(c).val] = prio
        BY <4>2, <2>3
      <4> QED
        BY <1>7, <3>2, <4>3 DEF SetPriority
    <3> QED
      BY <3>1, <3>2
  <2>5. asked'.enable = asked.enable /\ asked'.threshold = asked.threshold /\ asked'.prio = prio'
    BY <2>1, <2>2, <2>4 DEF IInv, TypeOK, SettingsStick
  <2> QED
    BY <1>7, <2>1, <2>5 DEF IInv, SettingsStick, SetPriority
<1>8. ASSUME NEW c \in Contexts, LoadEnable(c) PROVE SettingsStick'
  BY <1>8 DEF IInv, SettingsStick, LoadEnable, Initialising
<1>9. ASSUME NEW c \in Contexts, StoreEnable(c) PROVE SettingsStick'
  <2>1. ~Initialising
    BY <1>9, InitMasked DEF StoreEnable, Calling, Contexts, Initialising
  <2> DEFINE t == Op(c).src
  <2>2. calls[c] # <<>> /\ pc[c] = "store" /\ t \in Sources
    BY <1>9, CallFacts DEF IInv, StoreEnable, Calling, CallRecords
  <2>3. \A s \in Sources \ Contested : Byte(s) = Byte(t) => (s \in reg <=> s \in asked.enable)
    BY <1>9, <2>1, <2>2 DEF IInv, RmwOK, SettingsStick, MainReg, Contexts, StoreEnable, Calling
  <2>4. \A s \in reg : Byte(s) = Byte(t)
    BY <1>9, <2>2 DEF IInv, RmwOK, MainReg, Contexts, StoreEnable, Calling
  <2>5. \A s \in Sources \ Contested : s \in enable <=> s \in asked.enable
    BY <2>1 DEF IInv, SettingsStick
  <2>6. asked'.prio = asked.prio /\ asked'.threshold = asked.threshold
    BY <1>9 DEF IInv, TypeOK, StoreEnable, Return
  <2>7. CASE Op(c).fn = "enable"
    <3>1. asked'.enable = asked.enable \cup {t} /\ Updated(c) = reg \cup {t}
      BY <1>9, <2>7 DEF IInv, TypeOK, StoreEnable, Return, Updated
    <3>2. \A s \in Sources \ Contested : s \in enable' <=> s \in asked'.enable
      BY <1>9, <2>3, <2>4, <2>5, <3>1 DEF StoreEnable
    <3> QED
      BY <1>9, <2>1, <2>6, <3>2 DEF IInv, SettingsStick, StoreEnable
  <2>8. CASE Op(c).fn # "enable"
    <3>1. asked'.enable = asked.enable \ {t} /\ Updated(c) = reg \ {t}
      BY <1>9, <2>8 DEF IInv, TypeOK, StoreEnable, Return, Updated
    <3>2. \A s \in Sources \ Contested : s \in enable' <=> s \in asked'.enable
      BY <1>9, <2>3, <2>4, <2>5, <3>1 DEF StoreEnable
    <3> QED
      BY <1>9, <2>1, <2>6, <3>2 DEF IInv, SettingsStick, StoreEnable
  <2> QED
    BY <2>7, <2>8
<1>10. ASSUME NEW c \in Contexts, Unmask(c) PROVE SettingsStick'
  <2>1. ~Initialising
    BY <1>10, InitMasked DEF Unmask, Calling, Contexts, Initialising
  <2> QED
    BY <1>10, <2>1 DEF IInv, SettingsStick, Unmask, Return
<1>11. ASSUME TrapEntry PROVE SettingsStick'
  BY <1>11 DEF IInv, SettingsStick, TrapEntry, Initialising
<1>12. ASSUME NEW s \in Sources, Claim(s) PROVE SettingsStick'
  BY <1>12 DEF IInv, SettingsStick, Claim, Initialising
<1>13. ASSUME Serve PROVE SettingsStick'
  BY <1>13 DEF IInv, SettingsStick, Serve, Initialising
<1>14. ASSUME Complete PROVE SettingsStick'
  BY <1>14 DEF IInv, SettingsStick, Complete, Initialising
<1>15. ASSUME TrapReturn PROVE SettingsStick'
  BY <1>15 DEF IInv, SettingsStick, TrapReturn, Initialising
<1>16. ASSUME UNCHANGED vars PROVE SettingsStick'
  BY <1>16 DEF IInv, SettingsStick, vars, Initialising
<1> QED
  BY <1>1, <1>2, <1>3, <1>4, <1>5, <1>6, <1>7, <1>8,
     <1>9, <1>10, <1>11, <1>12, <1>13, <1>14, <1>15, <1>16 DEF Next, DriverStep, TrapStep

\* Claim and complete
LEMMA ClaimStep == ASSUME IInv, [Next]_vars PROVE ClaimOK'
<1> USE DEF plic, gate, cpu
<1>1. ASSUME NEW s \in Sources, Raise(s) PROVE ClaimOK'
  BY <1>1 DEF IInv, ClaimOK, Raise, Calling
<1>2. ASSUME NEW s \in Sources, Gateway(s) PROVE ClaimOK'
  BY <1>2 DEF IInv, ClaimOK, Gateway, Calling
<1>3. ASSUME NEW c \in Contexts, ClearEnables(c) PROVE ClaimOK'
  BY <1>3, InitInMain DEF IInv, ClaimOK, ClearEnables, Calling
<1>4. ASSUME NEW c \in Contexts, ClearPriorities(c) PROVE ClaimOK'
  BY <1>4, InitInMain DEF IInv, ClaimOK, ClearPriorities, Calling
<1>5. ASSUME NEW c \in Contexts, ClearThreshold(c) PROVE ClaimOK'
  BY <1>5, InitInMain DEF IInv, ClaimOK, ClearThreshold, Calling
<1>6. ASSUME NEW c \in Contexts, SetThreshold(c) PROVE ClaimOK'
  BY <1>6 DEF IInv, ClaimOK, SetThreshold, Calling
<1>7. ASSUME NEW c \in Contexts, SetPriority(c) PROVE ClaimOK'
  BY <1>7 DEF IInv, ClaimOK, SetPriority, Calling
<1>8. ASSUME NEW c \in Contexts, LoadEnable(c) PROVE ClaimOK'
  BY <1>8 DEF IInv, ClaimOK, LoadEnable, Calling
<1>9. ASSUME NEW c \in Contexts, StoreEnable(c) PROVE ClaimOK'
  <2>1. CASE c = "main"
    BY <1>9, <2>1 DEF IInv, ClaimOK, StoreEnable, Calling
  <2>2. CASE c = "trap"
    <3>1. /\ claimed = {served} /\ served \in enable /\ stage = "handler"
          /\ reg = { s \in enable : Byte(s) = Byte(Op("trap").src) }
          /\ Op("trap").fn = "disable" => Op("trap").src # served
          /\ Op("trap").fn \in {"enable", "disable"}
      BY <1>9, <2>2, TrapOp DEF IInv, ClaimOK, RmwOK, StoreEnable, Calling, Op
    <3>2. served \in enable'
      BY <1>9, <2>2, <3>1 DEF StoreEnable, Updated
    <3> QED
      BY <1>9, <3>1, <3>2 DEF ClaimOK, StoreEnable
  <2> QED
    BY <2>1, <2>2 DEF Contexts
<1>10. ASSUME NEW c \in Contexts, Unmask(c) PROVE ClaimOK'
  BY <1>10 DEF IInv, ClaimOK, Unmask, Calling
<1>11. ASSUME TrapEntry PROVE ClaimOK'
  BY <1>11 DEF IInv, ClaimOK, TrapEntry, Calling
<1>12. ASSUME NEW s \in Sources, Claim(s) PROVE ClaimOK'
  BY <1>12 DEF IInv, ClaimOK, Claim, Deliverable
<1>13. ASSUME Serve PROVE ClaimOK'
  BY <1>13 DEF IInv, ClaimOK, Serve, Calling
<1>14. ASSUME Complete PROVE ClaimOK'
  BY <1>14 DEF IInv, ClaimOK, Complete, Calling
<1>15. ASSUME TrapReturn PROVE ClaimOK'
  BY <1>15 DEF IInv, ClaimOK, TrapReturn, Calling
<1>16. ASSUME UNCHANGED vars PROVE ClaimOK'
  BY <1>16 DEF IInv, ClaimOK, vars, Calling
<1> QED
  BY <1>1, <1>2, <1>3, <1>4, <1>5, <1>6, <1>7, <1>8,
     <1>9, <1>10, <1>11, <1>12, <1>13, <1>14, <1>15, <1>16 DEF Next, DriverStep, TrapStep

-----------------------------------------------------------------------------
(* Theorems *)

\* At reset nothing runs, whatever the PLIC holds.
LEMMA InitInv == Init => IInv
<1> SUFFICES ASSUME Init PROVE IInv
  OBVIOUS
<1>1. TypeOK
  <2>1. enable \subseteq Sources /\ prio \in [Sources -> Priorities] /\ threshold \in Priorities
    BY PlicAssumption DEF Init
  <2>2. line \subseteq Sources /\ pending \subseteq Sources /\ claimed \subseteq Sources
    BY DEF Init
  <2>3. /\ mie \in BOOLEAN /\ reg \subseteq Sources /\ frame \subseteq Sources
        /\ stage \in {"main", "claim", "serve", "handler", "return"}
        /\ pc \in [Contexts -> {"next", "prios", "threshold", "store"}]
    BY DEF Init
  <2>4. calls \in [Contexts -> Seq(CallRecords)]
    <3>1. <<>> \in Seq(CallRecords)
      BY EmptySeq
    <3>2. MainCalls \in Seq(CallRecords)
      BY PlicAssumption
    <3> QED
      BY <3>1, <3>2 DEF Init
  <2>5. idx \in 0 .. NumSources /\ served \in 0 .. NumSources /\ raises \in 0 .. MaxRaises
    BY PlicAssumption DEF Init
  <2>6. asked \in [enable : SUBSET Sources, prio : [Sources -> Priorities],
                   threshold : Priorities]
    BY <2>1 DEF Init
  <2> QED
    BY <2>1, <2>2, <2>3, <2>4, <2>5, <2>6 DEF TypeOK
<1>2. CallsOK
  <2>1. calls["main"] = MainCalls /\ Len(calls["trap"]) = 0 /\ Len(MainCalls) \in Nat
    BY PlicAssumption, EmptySeq DEF Init, Contexts
  <2>2. \A i \in 1 .. Len(MainCalls) : i + Len(MainCalls) - Len(MainCalls) = i
    BY <2>1
  <2> QED
    BY <2>1, <2>2 DEF CallsOK
<1>3. PcOK
  BY DEF Init, PcOK, Contexts
<1>4. InitFirst
  BY DEF Init, InitFirst
<1>5. InitProgress
  BY <1>1, ByteRange DEF Init, InitProgress, TypeOK, Contexts
<1>6. RmwOK
  BY DEF Init, RmwOK, Contexts
<1>7. SettingsStick
  BY DEF Init, SettingsStick
<1>8. ClaimOK
  BY DEF Init, ClaimOK
<1> QED
  BY <1>1, <1>2, <1>3, <1>4, <1>5, <1>6, <1>7, <1>8 DEF IInv

\* The strengthened invariant holds in every reachable state.
THEOREM Inductive == Spec => []IInv
<1>1. Init => IInv
  BY InitInv
<1>2. IInv /\ [Next]_vars => IInv'
  BY TypeStep, CallsStep, PcStep, InitFirstStep, InitProgressStep, RmwStep, SettingsStep,
     ClaimStep DEF IInv
<1> QED
  BY <1>1, <1>2, PTL DEF Spec

\* The model keeps its types, for any number of sources and any calls.
THEOREM TypeCorrect == Spec => []TypeOK
<1>1. IInv => TypeOK
  BY DEF IInv
<1> QED
  BY <1>1, Inductive, PTL

\* Whatever the PLIC held at reset and wherever the handler interrupts the
\* driver, no setting is lost but those handler and program fight over.
THEOREM SettingsHold == Spec => []SettingsStick
<1>1. IInv => SettingsStick
  BY DEF IInv
<1> QED
  BY <1>1, Inductive, PTL

\* The program never runs with a source claimed and not completed.
THEOREM NothingClaimed == Spec => []NothingLeftClaimed
<1>1. IInv => NothingLeftClaimed
  BY DEF IInv, ClaimOK, NothingLeftClaimed
<1> QED
  BY <1>1, Inductive, PTL
=============================================================================
