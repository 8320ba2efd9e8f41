----------------------------- MODULE Interrupts -----------------------------
(***************************************************************************)
(* External interrupts of the firmware: the PLIC driver of                 *)
(* fw/bsp/drivers/plic/plic_driver.c, trap_entry of fw/bsp/env/entry.S and *)
(* the branch of handle_trap (fw/bsp/env/tgfs-vp/init.c) that calls the    *)
(* application's handle_m_ext_interrupt.  The program calls the driver     *)
(* while interrupts are on; the handler claims a source, serves its        *)
(* device, may call the driver too, and completes the source.  Every       *)
(* access to the PLIC is a step of its own, and the handler may run        *)
(* between any two of the program's.  There is one hart.                   *)
(***************************************************************************)
EXTENDS Integers, Sequences

CONSTANTS
  NumSources,     \* this_plic->num_sources
  NumPriorities,  \* this_plic->num_priorities, also the largest priority
  ByteBits,       \* enable bits in one byte of the PLIC, 8 in the code
  MainCalls,      \* the driver calls of the program, in order
  HandlerCalls,   \* for each source, those of the application's handler
  ResetPrios,     \* what the priority registers may hold at reset
  MaxRaises       \* bound: requests of the devices

Sources    == 1 .. NumSources
Priorities == 0 .. NumPriorities

\* "unmask" is the program's write of mstatus.MIE, not a driver call.
CallRecords ==
  [ fn  : {"init", "set_threshold", "enable", "disable", "set_priority", "unmask"},
    src : Sources,
    val : Priorities ]

Edits(cs, s) ==
  \E i \in 1 .. Len(cs) : cs[i].fn \in {"enable", "disable"} /\ cs[i].src = s

ASSUME PlicAssumption ==
  /\ NumSources \in Nat \ {0}
  /\ NumPriorities \in Nat
  /\ ByteBits \in Nat \ {0}
  /\ MainCalls \in Seq(CallRecords)
  /\ HandlerCalls \in [Sources -> Seq(CallRecords)]
  /\ ResetPrios \subseteq [Sources -> Priorities]
  /\ MaxRaises \in Nat

\* The application sets the PLIC up before it lets interrupts in, and its
\* handler neither does that nor switches off the source it is serving, whose
\* completion the PLIC would then ignore.
ASSUME UsageAssumption ==
  /\ \A i, j \in 1 .. Len(MainCalls) :
       MainCalls[i].fn = "init" /\ MainCalls[j].fn = "unmask" => i < j
  /\ \A s \in Sources : \A i \in 1 .. Len(HandlerCalls[s]) :
       /\ HandlerCalls[s][i].fn \notin {"init", "unmask"}
       /\ HandlerCalls[s][i].fn = "disable" => HandlerCalls[s][i].src # s

VARIABLES
  enable,     \* PLIC: sources whose enable bit is set
  prio,       \* PLIC: priority of each source
  threshold,  \* PLIC: priority threshold of the hart
  line,       \* sources whose device requests an interrupt
  pending,    \* PLIC: requests not claimed yet
  claimed,    \* PLIC: sources claimed and not completed
  mie,        \* mstatus.MIE
  reg,        \* the CPU register that holds `current' of the driver
  frame,      \* that register's copy in the frame of trap_entry
  stage,      \* "main", or how far the trap has got
  pc,         \* per context: next access of the running driver call
  calls,      \* per context: the running driver call and those to come
  idx,        \* the pointer of volatile_memzero
  served,     \* the source handle_m_ext_interrupt has claimed
  raises,     \* requests so far
  asked       \* history: the settings the completed calls asked for

plic == <<enable, prio, threshold>>
gate == <<line, pending, claimed, raises>>
cpu  == <<mie, frame, stage, served>>
vars == <<enable, prio, threshold, line, pending, claimed, mie, reg, frame,
          stage, pc, calls, idx, served, raises, asked>>

Contexts == {"main", "trap"}

Init ==
  /\ enable    \in SUBSET Sources
  /\ prio      \in ResetPrios
  /\ threshold \in Priorities
  /\ line      = {}
  /\ pending   = {}
  /\ claimed   = {}
  /\ mie       = FALSE
  /\ reg       = {}
  /\ frame     = {}
  /\ stage     = "main"
  /\ pc        = [c \in Contexts |-> "next"]
  /\ calls     = [c \in Contexts |-> IF c = "main" THEN MainCalls ELSE <<>>]
  /\ idx       = 0
  /\ served    = 0
  /\ raises    = 0
  /\ asked     = [enable |-> enable, prio |-> prio, threshold |-> threshold]

-----------------------------------------------------------------------------
(* The devices and the PLIC *)

\* A device requests service and keeps its line up until it is served.
Raise(s) ==
  /\ raises < MaxRaises
  /\ s \notin line
  /\ line'   = line \cup {s}
  /\ raises' = raises + 1
  /\ UNCHANGED <<plic, pending, claimed, cpu, reg, pc, calls, idx, asked>>

\* The gateway passes a request on, once until it is completed.
Gateway(s) ==
  /\ s \in line \ (pending \cup claimed)
  /\ pending' = pending \cup {s}
  /\ UNCHANGED <<plic, line, claimed, raises, cpu, reg, pc, calls, idx, asked>>

Deliverable == { s \in pending \cap enable : prio[s] > threshold }

\* s comes before t when both are pending.
Before(s, t) == prio[s] > prio[t] \/ (prio[s] = prio[t] /\ s <= t)

-----------------------------------------------------------------------------
(* The PLIC driver, called by the program or by its handler *)

\* Context c executes a driver call of function fn.
Calling(c, fn) ==
  /\ stage = IF c = "main" THEN "main" ELSE "handler"
  /\ calls[c] # <<>>
  /\ Head(calls[c]).fn = fn

Op(c) == Head(calls[c])

\* The call returns, having asked for the settings a.
Return(c, a) ==
  /\ calls' = [calls EXCEPT ![c] = Tail(@)]
  /\ pc'    = [pc EXCEPT ![c] = "next"]
  /\ asked' = a

\* Source s has its enable bit in this byte: source >> 3
Byte(s) == s \div ByteBits

\* Mutant: the last, partly used byte is forgotten.
InitBytes_Floor == NumSources \div ByteBits

\* The bytes PLIC_init clears: (num_sources + 8) / 8
InitBytes == (NumSources + ByteBits) \div ByteBits

\* PLIC_init: volatile_memzero of the enables, one byte
ClearEnables(c) ==
  /\ Calling(c, "init")
  /\ pc[c] = "next"
  /\ enable' = { s \in enable : Byte(s) # idx }
  /\ IF idx + 1 < InitBytes
       THEN idx' = idx + 1 /\ UNCHANGED pc
       ELSE idx' = 0 /\ pc' = [pc EXCEPT ![c] = "prios"]
  /\ UNCHANGED <<prio, threshold, gate, cpu, reg, calls, asked>>

\* Mutant: one word too many.
ClearPriorities_PastEnd(c) ==
  /\ Calling(c, "init")
  /\ pc[c] = "prios"
  /\ prio' = [s \in Sources |-> IF s = idx THEN 0 ELSE prio[s]]
  /\ IF idx <= NumSources
       THEN idx' = idx + 1 /\ UNCHANGED pc
       ELSE idx' = 0 /\ pc' = [pc EXCEPT ![c] = "threshold"]
  /\ UNCHANGED <<enable, threshold, gate, cpu, reg, calls, asked>>

\* ... and of the priorities, one word; the word of source 0 is unused
ClearPriorities(c) ==
  /\ Calling(c, "init")
  /\ pc[c] = "prios"
  /\ prio' = [s \in Sources |-> IF s = idx THEN 0 ELSE prio[s]]
  /\ IF idx < NumSources
       THEN idx' = idx + 1 /\ UNCHANGED pc
       ELSE idx' = 0 /\ pc' = [pc EXCEPT ![c] = "threshold"]
  /\ UNCHANGED <<enable, threshold, gate, cpu, reg, calls, asked>>

ClearThreshold(c) ==
  /\ Calling(c, "init")
  /\ pc[c] = "threshold"
  /\ threshold' = 0
  /\ Return(c, [enable |-> {}, prio |-> [s \in Sources |-> 0], threshold |-> 0])
  /\ UNCHANGED <<enable, prio, gate, cpu, reg, idx>>

SetThreshold(c) ==
  /\ Calling(c, "set_threshold")
  /\ threshold' = Op(c).val
  /\ Return(c, [asked EXCEPT !.threshold = Op(c).val])
  /\ UNCHANGED <<enable, prio, gate, cpu, reg, idx>>

SetPriority(c) ==
  /\ Calling(c, "set_priority")
  /\ prio' = IF NumPriorities > 0 THEN [prio EXCEPT ![Op(c).src] = Op(c).val] ELSE prio
  /\ Return(c, [asked EXCEPT !.prio[Op(c).src] = Op(c).val])
  /\ UNCHANGED <<enable, threshold, gate, cpu, reg, idx>>

\* PLIC_enable_interrupt and PLIC_disable_interrupt: current = *current_ptr
LoadEnable(c) ==
  /\ Calling(c, "enable") \/ Calling(c, "disable")
  /\ pc[c] = "next"
  /\ reg' = { s \in enable : Byte(s) = Byte(Op(c).src) }
  /\ pc'  = [pc EXCEPT ![c] = "store"]
  /\ UNCHANGED <<plic, gate, cpu, calls, idx, asked>>

\* What the register holds after the bit is set or cleared.
Updated(c) == IF Op(c).fn = "enable" THEN reg \cup {Op(c).src} ELSE reg \ {Op(c).src}

\* Mutant: the store overwrites the other bytes as well.
StoreEnable_Word(c) ==
  /\ Calling(c, "enable") \/ Calling(c, "disable")
  /\ pc[c] = "store"
  /\ enable' = Updated(c)
  /\ Return(c, [asked EXCEPT !.enable = IF Op(c).fn = "enable" THEN @ \cup {Op(c).src}
                                                              ELSE @ \ {Op(c).src}])
  /\ UNCHANGED <<prio, threshold, gate, cpu, reg, idx>>

\* *current_ptr = current
StoreEnable(c) ==
  /\ Calling(c, "enable") \/ Calling(c, "disable")
  /\ pc[c] = "store"
  /\ enable' = { s \in enable : Byte(s) # Byte(Op(c).src) } \cup Updated(c)
  /\ Return(c, [asked EXCEPT !.enable = IF Op(c).fn = "enable" THEN @ \cup {Op(c).src}
                                                              ELSE @ \ {Op(c).src}])
  /\ UNCHANGED <<prio, threshold, gate, cpu, reg, idx>>

\* The program sets mstatus.MIE.
Unmask(c) ==
  /\ Calling(c, "unmask")
  /\ mie' = TRUE
  /\ Return(c, asked)
  /\ UNCHANGED <<plic, gate, frame, stage, served, reg, idx>>

DriverStep(c) ==
  \/ ClearEnables(c)
  \/ ClearPriorities(c)
  \/ ClearThreshold(c)
  \/ SetThreshold(c)
  \/ SetPriority(c)
  \/ LoadEnable(c)
  \/ StoreEnable(c)
  \/ Unmask(c)

-----------------------------------------------------------------------------
(* The trap *)

\* The hart takes the interrupt; trap_entry saves the registers.
TrapEntry ==
  /\ stage = "main"
  /\ mie
  /\ Deliverable # {}
  /\ mie'   = FALSE
  /\ frame' = reg
  /\ stage' = "claim"
  /\ UNCHANGED <<plic, gate, served, reg, pc, calls, idx, asked>>

\* handle_m_ext_interrupt: PLIC_claim_interrupt reads the best source.
Claim(s) ==
  /\ stage = "claim"
  /\ s \in Deliverable
  /\ \A t \in Deliverable : Before(s, t)
  /\ served'  = s
  /\ pending' = pending \ {s}
  /\ claimed' = claimed \cup {s}
  /\ stage'   = "serve"
  /\ UNCHANGED <<plic, line, raises, mie, frame, reg, pc, calls, idx, asked>>

\* The application's handler of the claimed source: the device takes its
\* request back, the register is used for something else.
Serve ==
  /\ stage = "serve"
  /\ line'  = line \ {served}
  /\ reg'   \in SUBSET Sources
  /\ calls' = [calls EXCEPT !["trap"] = HandlerCalls[served]]
  /\ stage' = "handler"
  /\ UNCHANGED <<plic, pending, claimed, raises, mie, frame, served, pc, idx, asked>>

\* Mutant: the handler returns without completing the source.
Complete_Dropped ==
  /\ stage = "handler"
  /\ calls["trap"] = <<>>
  /\ stage' = "return"
  /\ UNCHANGED <<plic, gate, mie, frame, served, reg, pc, calls, idx, asked>>

\* Mutant: source 1 is completed, whichever was claimed.
Complete_Source1 ==
  /\ stage = "handler"
  /\ calls["trap"] = <<>>
  /\ claimed' = IF 1 \in enable THEN claimed \ {1} ELSE claimed
  /\ stage'   = "return"
  /\ UNCHANGED <<plic, line, pending, raises, mie, frame, served, reg, pc, calls, idx, asked>>

\* PLIC_complete_interrupt: the PLIC ignores a source that is not enabled.
Complete ==
  /\ stage = "handler"
  /\ calls["trap"] = <<>>
  /\ claimed' = IF served \in enable THEN claimed \ {served} ELSE claimed
  /\ stage'   = "return"
  /\ UNCHANGED <<plic, line, pending, raises, mie, frame, served, reg, pc, calls, idx, asked>>

\* Mutant: the LOAD of the register is dropped.
TrapReturn_NoRestore ==
  /\ stage = "return"
  /\ mie'   = TRUE
  /\ stage' = "main"
  /\ UNCHANGED <<plic, gate, frame, served, reg, pc, calls, idx, asked>>

\* trap_entry restores the registers; mret
TrapReturn ==
  /\ stage = "return"
  /\ reg'   = frame
  /\ mie'   = TRUE
  /\ stage' = "main"
  /\ UNCHANGED <<plic, gate, frame, served, pc, calls, idx, asked>>

TrapStep ==
  \/ TrapEntry
  \/ \E s \in Sources : Claim(s)
  \/ Serve
  \/ Complete
  \/ TrapReturn

Next ==
  \/ \E s \in Sources : Raise(s) \/ Gateway(s)
  \/ \E c \in Contexts : DriverStep(c)
  \/ TrapStep

Spec == Init /\ [][Next]_vars

\* The PLIC forwards, and the hart executes.
FairSpec ==
  /\ Spec
  /\ \A s \in Sources : WF_vars(Gateway(s))
  /\ \A c \in Contexts : WF_vars(DriverStep(c))
  /\ WF_vars(TrapStep)

-----------------------------------------------------------------------------
(***************************************************************************)
(* Properties                                                              *)
(***************************************************************************)

TypeOK ==
  /\ enable    \subseteq Sources
  /\ prio      \in [Sources -> Priorities]
  /\ threshold \in Priorities
  /\ line      \subseteq Sources
  /\ pending   \subseteq Sources
  /\ claimed   \subseteq Sources
  /\ mie       \in BOOLEAN
  /\ reg       \subseteq Sources
  /\ frame     \subseteq Sources
  /\ stage     \in {"main", "claim", "serve", "handler", "return"}
  /\ pc        \in [Contexts -> {"next", "prios", "threshold", "store"}]
  /\ calls     \in [Contexts -> Seq(CallRecords)]
  /\ idx       \in 0 .. NumSources
  /\ served    \in 0 .. NumSources
  /\ raises    \in 0 .. MaxRaises
  /\ asked     \in [enable : SUBSET Sources, prio : [Sources -> Priorities],
                    threshold : Priorities]

\* The sources whose enable bit both the handler and, through another source
\* of the same byte or this one, the program edit.
Contested ==
  { s \in Sources : /\ \E t \in Sources : Edits(HandlerCalls[t], s)
                    /\ \E u \in Sources : Byte(u) = Byte(s) /\ Edits(MainCalls, u) }

Initialising == calls["main"] # <<>> /\ Head(calls["main"]).fn = "init"

\* The program's read-modify-write of an enable byte can undo what a handler
\* did in between to that byte, but nothing else is ever lost: outside
\* PLIC_init, the PLIC holds what the completed calls asked for, whatever it
\* held at reset and wherever the handler ran.
SettingsStick ==
  ~Initialising =>
    /\ \A s \in Sources \ Contested : s \in enable <=> s \in asked.enable
    /\ prio = asked.prio
    /\ threshold = asked.threshold

\* The program never runs with a source claimed: it would be dead for good.
NothingLeftClaimed == stage = "main" => claimed = {}

\* A request of a source that has been enabled with a priority above the
\* threshold, and that no handler fights over, is served.
Wanted(s) ==
  /\ s \in asked.enable \ Contested
  /\ asked.prio[s] > asked.threshold

RequestsServed ==
  \A s \in Sources :
    (s \in line /\ Wanted(s) /\ mie) ~> (s \notin line \/ ~Wanted(s))
=============================================================================
