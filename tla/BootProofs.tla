----------------------------- MODULE BootProofs ------------------------------
(***************************************************************************)
(* Theorems about Startup for every image, section size and nesting: main  *)
(* finds its image, and a trap is transparent.  Theorems about Boot: the   *)
(* command line decides, firmware and platform agree, and the firmware on  *)
(* the platform behaves as the firmware alone.                             *)
(***************************************************************************)
EXTENDS Boot, SequenceTheorems, TLAPS

BasePcs == {"reset", "data", "bss", "_init", "constructors", "main"}
TrapPcs == {"trap_entry", "handle_trap", "handler", "restore", "setmpp", "load", "mret"}
EndPcs  == {"exited", "lost"}
Pcs     == BasePcs \cup TrapPcs \cup EndPcs

Contents == Values \cup {Garbage}
Files    == [Regs -> Contents]
Frames   == [regs : [SavedRegs -> Contents], sp : Nat, mcause : Nat, epc : Pcs]
Context  == [regs : Files, sp : Nat, pc : Pcs, mie : BOOLEAN]
Csr      == [mtvec : {"unset", "trap_entry"}, mepc : Pcs, mcause : Nat, mie : BOOLEAN,
             mpie : BOOLEAN, mpp : {"M", "U"}, fs : BOOLEAN]

TypeOK ==
  /\ pc \in Pcs
  /\ ram \in [Ram -> Nat \cup {Garbage}]
  /\ from \in Nat /\ to \in Nat
  /\ regs \in Files
  /\ sp \in Nat
  /\ stack \in [1 .. MaxTraps + 1 -> Frames]
  /\ csr \in Csr
  /\ mode \in {"M", "U"} /\ (pc # "lost" => mode = "M")
  /\ trapped \in Seq(Context)
  /\ stale \in BOOLEAN

\* Context c runs in the trap that interrupted context t.
InTrap(c, t, st) ==
  /\ c.pc \in {"handle_trap", "handler", "restore", "setmpp", "load"} =>
       /\ c.sp = t.sp + 1
       /\ st[c.sp].regs = Saved(t.regs)
       /\ st[c.sp].sp = c.sp
       /\ st[c.sp].epc = t.pc
       /\ st[c.sp].mcause \in Handled => t.mie
  /\ c.pc \in {"handler", "restore", "setmpp", "load", "mret"} => t.mie
  /\ c.pc \in {"trap_entry", "mret"} => c.sp = t.sp /\ Saved(c.regs) = Saved(t.regs)
  /\ c.mie => c.pc \in {"handler", "restore", "setmpp", "load", "mret", "lost"}

Now == [regs |-> regs, sp |-> sp, pc |-> pc, mie |-> csr.mie]

\* The csr of the context that runs now belong to its own trap, mepc and mpp
\* at its end only if no trap has returned since they were written.
OwnCsr(p, c, t, st) ==
  /\ p = "trap_entry" => c.mepc = t.pc /\ (c.mcause \in Handled => t.mie)
  /\ p \in {"trap_entry", "handle_trap"} => c.mpie = t.mie
  /\ p \in {"handler", "restore", "setmpp", "load", "mret"} => c.mpie
  /\ p \in {"setmpp", "load", "mret"} /\ ~st => c.mepc = t.pc
  /\ p \in {"load", "mret"} /\ ~st => c.mpp = "M"

\* Where the stack pointers of the open contexts are.
Depths ==
  /\ \A k \in 1 .. Len(trapped) : trapped[k].sp <= k
  /\ \A j, k \in 1 .. Len(trapped) : j <= k => trapped[j].sp <= trapped[k].sp
  /\ trapped = << >> => sp <= 1
  /\ trapped # << >> => trapped[Len(trapped)].sp <= sp /\ sp <= Len(trapped) + 1

\* Only traps run in traps.
Levels ==
  /\ Len(trapped) <= MaxTraps
  /\ trapped = << >> => pc \in BasePcs \cup EndPcs
  /\ trapped # << >> => pc \in TrapPcs \cup EndPcs
  /\ \A k \in 1 .. Len(trapped) :
       trapped[k].pc \in IF k = 1 THEN BasePcs \ {"reset"} ELSE TrapPcs

Nested ==
  /\ \A k \in 1 .. Len(trapped) - 1 : InTrap(trapped[k + 1], trapped[k], stack)
  /\ trapped # << >> => /\ InTrap(Now, trapped[Len(trapped)], stack)
                        /\ OwnCsr(pc, csr, trapped[Len(trapped)], stale)

\* What the program outside of traps is doing.
Base == IF trapped = << >> THEN pc ELSE trapped[1].pc

BaseSp == IF trapped = << >> THEN sp ELSE trapped[1].sp

Wanted(a) == IF a < edata THEN Image[a + 1] ELSE IF a < end THEN 0 ELSE Garbage

\* The words below n are as wanted, the others not touched.
LoadedTo(r, n) ==
  /\ \A a \in Ram : a < n => r[a] = Wanted(a)
  /\ \A a \in Ram : n <= a => r[a] = Garbage

\* _init has measured the frequency of the CPU.
Measured(r) ==
  /\ \A a \in Ram \ {CpuFreqAt} : r[a] = Wanted(a)
  /\ r[CpuFreqAt] \in Frequencies

Loading ==
  /\ Base = "reset" => LoadedTo(ram, 0)
  /\ Base = "data" => from = to + 1 /\ to <= edata /\ LoadedTo(ram, to)
  /\ Base = "bss" => to = end /\ edata <= from /\ from <= end /\ LoadedTo(ram, from)
  /\ Base = "_init" => LoadedTo(ram, end)
  /\ Base = "constructors" => Measured(ram)
  /\ Base # "reset" => csr.mtvec = "trap_entry"
  /\ Base \in {"constructors", "main"} => csr.fs = HasFpu
  /\ Base \in {"reset", "data", "bss", "_init"} => csr.fs = FALSE
  /\ Base \in {"data", "bss", "_init", "constructors"} => BaseSp = 0

IInv == TypeOK /\ Depths /\ Levels /\ Nested /\ Loading

-----------------------------------------------------------------------------
(* Dropping the last element of a sequence keeps the others. *)
LEMMA FrontContexts ==
  ASSUME NEW S, NEW s \in Seq(S), s # << >>
  PROVE  LET f == SubSeq(s, 1, Len(s) - 1)
         IN  /\ f \in Seq(S)
             /\ Len(f) = Len(s) - 1
             /\ \A k \in 1 .. Len(s) - 1 : f[k] = s[k]
             /\ f = << >> <=> Len(s) = 1
<1> DEFINE f == SubSeq(s, 1, Len(s) - 1)
<1>1. Len(s) \in Nat /\ Len(s) # 0 /\ Len(s) - 1 \in Int
  BY EmptySeq
<1>2. \A i \in 1 .. Len(s) - 1 : s[i] \in S
  BY <1>1, ElementOfSeq
<1>3. \A m, n \in Int : (\A i \in m .. n : s[i] \in S) =>
        /\ SubSeq(s, m, n) \in Seq(S)
        /\ Len(SubSeq(s, m, n)) = IF m <= n THEN n - m + 1 ELSE 0
        /\ \A i \in 1 .. n - m + 1 : SubSeq(s, m, n)[i] = s[m + i - 1]
  BY SubSeqProperties
<1>7. /\ f \in Seq(S)
      /\ Len(f) = Len(s) - 1
      /\ \A k \in 1 .. Len(s) - 1 : f[k] = s[k]
  <2> DEFINE n == Len(s) - 1
  <2>1. n \in Nat /\ \A i \in 1 .. n : s[i] \in S
    BY <1>1, <1>2
  <2>2. f = SubSeq(s, 1, n)
    OBVIOUS
  <2> HIDE DEF n, f
  <2>3. n \in Int
    BY <2>1
  <2>4. /\ SubSeq(s, 1, n) \in Seq(S)
        /\ Len(SubSeq(s, 1, n)) = IF 1 <= n THEN n - 1 + 1 ELSE 0
        /\ \A i \in 1 .. n - 1 + 1 : SubSeq(s, 1, n)[i] = s[1 + i - 1]
    BY <2>1, <2>3, <1>3
  <2>5. f \in Seq(S) /\ Len(f) = IF 1 <= n THEN n - 1 + 1 ELSE 0
    BY <2>2, <2>4
  <2>6. \A i \in 1 .. n - 1 + 1 : f[i] = s[1 + i - 1]
    BY <2>2, <2>4
  <2>7. Len(f) = n
    BY <2>1, <2>5
  <2>8. \A k \in 1 .. n : f[k] = s[k]
    <3> TAKE k \in 1 .. n
    <3>1. k \in 1 .. n - 1 + 1 /\ 1 + k - 1 = k
      BY <2>1
    <3>2. f[k] = s[1 + k - 1]
      BY <3>1, <2>6
    <3> QED
      BY <3>1, <3>2
  <2> QED
    BY <2>5, <2>7, <2>8 DEF n
<1> HIDE DEF f
<1>6. f = << >> <=> Len(s) = 1
  BY <1>1, <1>7, EmptySeq
<1> QED
  BY <1>7, <1>6 DEF f

(* The invariant holds at reset. *)
LEMMA InitInv == StartupInit => IInv
<1> SUFFICES ASSUME StartupInit PROVE IInv
  OBVIOUS
<1> USE StartupAssumption DEF StartupInit
<1>1. Len(trapped) = 0 /\ 1 .. Len(trapped) = {} /\ 1 .. Len(trapped) - 1 = {}
  OBVIOUS
<1>2. NoFrame \in Frames
  BY DEF NoFrame, Frames, Contents, Pcs, BasePcs
<1>6. mode \in {"M", "U"} /\ (pc # "lost" => mode = "M") /\ stale \in BOOLEAN
  OBVIOUS
<1>7. pc \in Pcs /\ csr \in Csr
  BY DEF Pcs, BasePcs, Csr
<1>3. TypeOK
  <2>1. /\ ram \in [Ram -> Nat \cup {Garbage}] /\ regs \in Files
        /\ from \in Nat /\ to \in Nat /\ sp \in Nat /\ trapped \in Seq(Context)
    BY DEF Files, Contents
  <2>2. stack \in [1 .. MaxTraps + 1 -> Frames]
    BY <1>2
  <2> QED
    BY <2>1, <2>2, <1>6, <1>7 DEF TypeOK
<1>4. Depths /\ Levels /\ Nested
  BY <1>1 DEF Depths, Levels, Nested, BasePcs
<1>5. Loading
  BY DEF Loading, Base, LoadedTo, Ram, Wanted
<1> QED
  BY <1>3, <1>4, <1>5 DEF IInv

(* The open traps are a sequence of contexts. *)
LEMMA TrapFacts ==
  ASSUME TypeOK
  PROVE  /\ Len(trapped) \in Nat
         /\ trapped = << >> <=> Len(trapped) = 0
         /\ \A k \in 1 .. Len(trapped) : trapped[k] \in Context
         /\ trapped # << >> => Len(trapped) \in 1 .. Len(trapped) /\ 1 \in 1 .. Len(trapped)
  BY EmptySeq, ElementOfSeq DEF TypeOK

(* What is loaded stays loaded while the program outside of traps stays    *)
(* where it is.                                                            *)
LEMMA LoadingStays ==
  ASSUME Loading, Base' = Base, BaseSp' = BaseSp, UNCHANGED <<ram, from, to>>,
         csr'.mtvec = csr.mtvec, csr'.fs = csr.fs
  PROVE  Loading'
  BY DEF Loading, LoadedTo, Measured, Wanted

(* A step of the trap code keeps the invariant if it keeps what the trap   *)
(* it runs in needs and leaves the frames below alone.                     *)
LEMMA TrapStep ==
  ASSUME IInv, TypeOK', trapped # << >>, UNCHANGED <<ram, from, to, trapped>>,
         pc' \in TrapPcs \cup EndPcs,
         trapped[Len(trapped)].sp <= sp', sp' <= Len(trapped) + 1,
         \A i \in 1 .. trapped[Len(trapped)].sp : stack'[i] = stack[i],
         csr'.mtvec = csr.mtvec, csr'.fs = csr.fs,
         InTrap(Now', trapped[Len(trapped)], stack'),
         OwnCsr(pc', csr', trapped[Len(trapped)], stale')
  PROVE  IInv'
<1> USE DEF IInv
<1>1. Depths'
  BY TrapFacts DEF Depths
<1>2. Levels'
  BY TrapFacts DEF Levels
<1>3. \A k \in 1 .. Len(trapped) - 1 : InTrap(trapped[k + 1], trapped[k], stack')
  <2> TAKE k \in 1 .. Len(trapped) - 1
  <2>1. /\ k \in 1 .. Len(trapped) /\ k + 1 \in 1 .. Len(trapped)
        /\ trapped[k] \in Context /\ trapped[k + 1] \in Context
        /\ trapped[Len(trapped)] \in Context
    BY TrapFacts
  <2>2. trapped[k + 1].sp <= trapped[Len(trapped)].sp
    BY <2>1, TrapFacts DEF Depths
  <2>3. InTrap(trapped[k + 1], trapped[k], stack)
    BY DEF Nested
  <2>4. trapped[k + 1].sp = trapped[k].sp + 1 => stack'[trapped[k + 1].sp] = stack[trapped[k + 1].sp]
    BY <2>1, <2>2 DEF Context
  <2> QED
    BY <2>3, <2>4 DEF InTrap
<1>4. Nested'
  BY <1>3 DEF Nested
<1>5. Base' = Base /\ BaseSp' = BaseSp
  BY DEF Base, BaseSp
<1>6. Loading'
  BY <1>5, LoadingStays
<1> QED
  BY <1>1, <1>2, <1>4, <1>6

(* Traps run only in traps: what the code of a trap knows of the trap it   *)
(* runs in.                                                                *)
LEMMA InTrapCode ==
  ASSUME IInv, pc \in TrapPcs
  PROVE  /\ trapped # << >> /\ Len(trapped) \in 1 .. MaxTraps
         /\ trapped[Len(trapped)] \in Context
         /\ InTrap(Now, trapped[Len(trapped)], stack)
         /\ OwnCsr(pc, csr, trapped[Len(trapped)], stale)
         /\ trapped[Len(trapped)].sp <= sp /\ sp <= Len(trapped) + 1
         /\ trapped[Len(trapped)].sp <= Len(trapped)
<1>1. trapped # << >>
  BY DEF IInv, Levels, BasePcs, TrapPcs, EndPcs
<1> QED
  BY <1>1, TrapFacts DEF IInv, Levels, Nested, Depths

(* Storing the registers. *)
LEMMA SaveRegsInv == ASSUME IInv, SaveRegs PROVE IInv'
<1> DEFINE t == trapped[Len(trapped)]
           frame == [regs |-> Saved(regs), sp |-> sp + 1, mcause |-> csr.mcause, epc |-> csr.mepc]
<1> USE StartupAssumption DEF SaveRegs, Goto
<1>0. pc = "trap_entry" /\ pc \in TrapPcs /\ pc' = "handle_trap"
  BY DEF TrapPcs
<1>1. /\ trapped # << >> /\ Len(trapped) \in 1 .. MaxTraps /\ t \in Context
      /\ InTrap(Now, t, stack) /\ OwnCsr(pc, csr, t, stale) /\ t.sp <= Len(trapped)
  BY <1>0, InTrapCode
<1>2. sp = t.sp /\ Saved(regs) = Saved(t.regs) /\ csr.mie = FALSE /\ csr.mepc = t.pc
      /\ (csr.mcause \in Handled => t.mie)
  BY <1>0, <1>1 DEF InTrap, OwnCsr, Now, IInv, TypeOK, Csr
<1>3. /\ sp \in Nat /\ csr \in Csr /\ regs \in Files
      /\ stack \in [1 .. MaxTraps + 1 -> Frames]
  BY DEF IInv, TypeOK
<1>12. sp \in Nat /\ sp <= Len(trapped) /\ Len(trapped) \in Nat
  <2>1. sp <= Len(trapped)
    BY <1>1, <1>2, Zenon
  <2> QED
    BY <1>1, <1>3, <2>1
<1>13. Len(trapped) <= MaxTraps /\ MaxTraps \in Nat
  BY <1>1
<1>4. sp + 1 \in 1 .. MaxTraps + 1
  <2> SUFFICES ASSUME NEW m \in Nat, sp <= m, m <= MaxTraps PROVE sp + 1 \in 1 .. MaxTraps + 1
    BY <1>12, <1>13
  <2> QED
    BY <1>12, <1>13
<1>5. frame \in Frames
  BY <1>3 DEF Csr, Frames, Saved, Files, Regs
<1>6. /\ stack' \in [1 .. MaxTraps + 1 -> Frames]
      /\ stack'[sp + 1] = frame
      /\ \A i \in 1 .. t.sp : stack'[i] = stack[i]
  <2>1. stack' = [stack EXCEPT ![sp + 1] = frame]
    OBVIOUS
  <2> HIDE DEF frame, SaveRegs
  <2>2. t.sp \in Nat
    BY <1>1 DEF Context
  <2> QED
    BY <2>1, <2>2, <1>2, <1>3, <1>4, <1>5
<1>7. regs' \in Files
  BY <1>3 DEF Files, Contents
<1>8. TypeOK'
  BY <1>3, <1>6, <1>7 DEF IInv, TypeOK, Pcs, TrapPcs, EndPcs
<1>9. InTrap(Now', t, stack')
  BY <1>0, <1>2, <1>3, <1>6 DEF InTrap, Now
<1>10. OwnCsr(pc', csr', t, stale')
  BY <1>0, <1>1 DEF OwnCsr
<1>11. t.sp <= sp' /\ sp' <= Len(trapped) + 1
  <2>1. t.sp = sp /\ sp' = sp + 1
    BY <1>2
  <2>2. sp + 1 <= Len(trapped) + 1 /\ sp <= sp + 1
    BY <1>12
  <2> QED
    BY <2>1, <2>2, Zenon
<1> QED
  BY <1>0, <1>1, <1>6, <1>8, <1>9, <1>10, <1>11, TrapStep DEF TrapPcs, EndPcs

(* handle_trap exits, or hands an interrupt to its handler. *)
LEMMA HandleTrapInv == ASSUME IInv, HandleFatal \/ HandleInterrupt PROVE IInv'
<1> DEFINE t == trapped[Len(trapped)]
<1> USE DEF HandleFatal, HandleInterrupt, Goto, Frame
<1>0. /\ pc = "handle_trap" /\ pc \in TrapPcs /\ pc' \in {"handler", "exited"}
      /\ UNCHANGED <<ram, from, to, regs, sp, stack, csr, mode, trapped>>
  BY DEF TrapPcs
<1>1. /\ trapped # << >> /\ Len(trapped) \in 1 .. MaxTraps /\ t \in Context
      /\ InTrap(Now, t, stack) /\ OwnCsr(pc, csr, t, stale)
      /\ t.sp <= sp /\ sp <= Len(trapped) + 1
  BY <1>0, InTrapCode
<1>2. TypeOK'
  BY <1>0 DEF IInv, TypeOK, Pcs, TrapPcs, EndPcs
<1>3. InTrap(Now', t, stack')
  BY <1>0, <1>1 DEF InTrap, Now
<1>4. OwnCsr(pc', csr', t, stale')
  <2>1. CASE HandleFatal
    BY <2>1 DEF OwnCsr
  <2>2. CASE HandleInterrupt
    <3>1. t.mie
      BY <2>2, <1>0, <1>1 DEF InTrap, Now
    <3>2. csr.mpie
      BY <3>1, <1>0, <1>1 DEF OwnCsr
    <3> QED
      BY <2>2, <3>2 DEF OwnCsr
  <2> QED
    BY <2>1, <2>2
<1> QED
  BY <1>0, <1>1, <1>2, <1>3, <1>4, TrapStep DEF TrapPcs, EndPcs

(* The handler, with the interrupts turned on or off. *)
LEMMA NestInv == ASSUME IInv, Nest PROVE IInv'
<1> DEFINE t == trapped[Len(trapped)]
<1> USE DEF Nest, Goto, Frame
<1>0. pc = "handler" /\ pc \in TrapPcs /\ pc' = "handler"
  BY DEF TrapPcs
<1>1. /\ trapped # << >> /\ Len(trapped) \in 1 .. MaxTraps /\ t \in Context
      /\ InTrap(Now, t, stack) /\ OwnCsr(pc, csr, t, stale)
      /\ t.sp <= sp /\ sp <= Len(trapped) + 1 /\ t.sp <= Len(trapped)
  BY <1>0, InTrapCode
<1>2. /\ regs \in Files /\ csr \in Csr /\ sp \in Nat
      /\ stack \in [1 .. MaxTraps + 1 -> Frames]
  BY DEF IInv, TypeOK
<1>3. TypeOK'
  BY <1>0, <1>2 DEF IInv, TypeOK, Pcs, TrapPcs, EndPcs, Csr
<1>4. InTrap(Now', t, stack')
  BY <1>0, <1>1 DEF InTrap, Now
<1>6. csr'.mtvec = csr.mtvec /\ csr'.fs = csr.fs
  BY <1>2 DEF Csr
<1>5. OwnCsr(pc', csr', t, stale')
  BY <1>0, <1>1, <1>2 DEF OwnCsr, Csr
<1> QED
  BY <1>0, <1>1, <1>3, <1>4, <1>5, <1>6, TrapStep DEF TrapPcs, EndPcs


(* The handler returns. *)
LEMMA HandlerReturnsInv == ASSUME IInv, HandlerReturns PROVE IInv'
<1> DEFINE t == trapped[Len(trapped)]
<1> USE DEF HandlerReturns, Goto, Frame
<1>0. pc = "handler" /\ pc \in TrapPcs /\ pc' = "restore"
  BY DEF TrapPcs
<1>1. /\ trapped # << >> /\ Len(trapped) \in 1 .. MaxTraps /\ t \in Context
      /\ InTrap(Now, t, stack) /\ OwnCsr(pc, csr, t, stale)
      /\ t.sp <= sp /\ sp <= Len(trapped) + 1 /\ t.sp <= Len(trapped)
  BY <1>0, InTrapCode
<1>2. /\ regs \in Files /\ csr \in Csr /\ sp \in Nat
      /\ stack \in [1 .. MaxTraps + 1 -> Frames]
  BY DEF IInv, TypeOK
<1>3. TypeOK'
  BY <1>0, <1>2 DEF IInv, TypeOK, Pcs, TrapPcs, EndPcs, Files, Contents
<1>4. InTrap(Now', t, stack')
  BY <1>0, <1>1, <1>2 DEF InTrap, Now
<1>5. OwnCsr(pc', csr', t, stale')
  BY <1>0, <1>1 DEF OwnCsr
<1> QED
  BY <1>0, <1>1, <1>3, <1>4, <1>5, TrapStep DEF TrapPcs, EndPcs


(* Writing mepc. *)
LEMMA WriteEpcInv == ASSUME IInv, WriteEpc PROVE IInv'
<1> DEFINE t == trapped[Len(trapped)]
<1> USE DEF WriteEpc, Goto, Frame
<1>0. pc = "restore" /\ pc \in TrapPcs /\ pc' = "setmpp"
  BY DEF TrapPcs
<1>1. /\ trapped # << >> /\ Len(trapped) \in 1 .. MaxTraps /\ t \in Context
      /\ InTrap(Now, t, stack) /\ OwnCsr(pc, csr, t, stale)
      /\ t.sp <= sp /\ sp <= Len(trapped) + 1 /\ t.sp <= Len(trapped)
  BY <1>0, InTrapCode
<1>2. /\ regs \in Files /\ csr \in Csr /\ sp \in Nat
      /\ stack \in [1 .. MaxTraps + 1 -> Frames]
  BY DEF IInv, TypeOK
<1>6. stack[sp].epc = t.pc /\ sp = t.sp + 1 /\ t.pc \in Pcs
  BY <1>0, <1>1 DEF InTrap, Now, Context
<1>7. csr' = [csr EXCEPT !.mepc = stack[sp].epc]
  OBVIOUS
<1>8. csr' \in Csr /\ csr'.mepc = t.pc /\ csr'.mie = csr.mie
      /\ csr'.mpie = csr.mpie /\ csr'.mtvec = csr.mtvec /\ csr'.fs = csr.fs
  BY <1>2, <1>6, <1>7 DEF Csr
<1>3. TypeOK'
  BY <1>0, <1>2, <1>8 DEF IInv, TypeOK, Pcs, TrapPcs, EndPcs
<1>4. InTrap(Now', t, stack')
  BY <1>0, <1>1, <1>8 DEF InTrap, Now
<1>5. OwnCsr(pc', csr', t, stale')
  BY <1>0, <1>1, <1>8 DEF OwnCsr
<1> QED
  BY <1>0, <1>1, <1>3, <1>4, <1>5, <1>8, TrapStep DEF TrapPcs, EndPcs

(* Writing the mode mret returns to. *)
LEMMA SetMppInv == ASSUME IInv, SetMpp PROVE IInv'
<1> DEFINE t == trapped[Len(trapped)]
<1> USE DEF SetMpp, Goto
<1>0. pc = "setmpp" /\ pc \in TrapPcs /\ pc' = "load"
  BY DEF TrapPcs
<1>1. /\ trapped # << >> /\ Len(trapped) \in 1 .. MaxTraps /\ t \in Context
      /\ InTrap(Now, t, stack) /\ OwnCsr(pc, csr, t, stale)
      /\ t.sp <= sp /\ sp <= Len(trapped) + 1 /\ t.sp <= Len(trapped)
  BY <1>0, InTrapCode
<1>2. csr \in Csr
  BY DEF IInv, TypeOK
<1>8. csr' \in Csr /\ csr'.mepc = csr.mepc /\ csr'.mpp = "M" /\ csr'.mie = csr.mie
      /\ csr'.mpie = csr.mpie /\ csr'.mtvec = csr.mtvec /\ csr'.fs = csr.fs
  BY <1>2 DEF Csr
<1>3. TypeOK'
  BY <1>0, <1>8 DEF IInv, TypeOK, Pcs, TrapPcs, EndPcs
<1>4. InTrap(Now', t, stack')
  BY <1>0, <1>1, <1>8 DEF InTrap, Now
<1>5. OwnCsr(pc', csr', t, stale')
  BY <1>0, <1>1, <1>8 DEF OwnCsr
<1> QED
  BY <1>0, <1>1, <1>3, <1>4, <1>5, <1>8, TrapStep DEF TrapPcs, EndPcs


(* Loading the registers. *)
LEMMA LoadRegsInv == ASSUME IInv, LoadRegs PROVE IInv'
<1> DEFINE t == trapped[Len(trapped)]
<1> USE DEF LoadRegs, Goto, Frame
<1>0. pc = "load" /\ pc \in TrapPcs /\ pc' = "mret"
  BY DEF TrapPcs
<1>1. /\ trapped # << >> /\ Len(trapped) \in 1 .. MaxTraps /\ t \in Context
      /\ InTrap(Now, t, stack) /\ OwnCsr(pc, csr, t, stale)
      /\ t.sp <= sp /\ sp <= Len(trapped) + 1 /\ t.sp <= Len(trapped)
  BY <1>0, InTrapCode
<1>2. /\ regs \in Files /\ csr \in Csr /\ sp \in Nat
      /\ stack \in [1 .. MaxTraps + 1 -> Frames]
  BY DEF IInv, TypeOK
<1>12. t.sp \in Nat
  BY <1>1 DEF Context
<1>6. /\ stack[sp].regs = Saved(t.regs) /\ stack[sp].sp = sp /\ sp = t.sp + 1
      /\ t.mie /\ t.sp \in Nat /\ t.regs \in Files
  BY <1>0, <1>1, <1>2 DEF InTrap, Now, Context, Csr
<1>7. /\ regs' = [r \in Regs |-> IF r \in SavedRegs THEN t.regs[r] ELSE regs[r]]
      /\ sp' = t.sp /\ stack' = stack
  BY <1>6 DEF Saved
<1>8. regs' \in Files /\ Saved(regs') = Saved(t.regs)
  BY <1>2, <1>6, <1>7 DEF Files, Saved, Regs
<1>3. TypeOK'
  BY <1>0, <1>2, <1>6, <1>7, <1>8 DEF IInv, TypeOK, Pcs, TrapPcs, EndPcs
<1>4. InTrap(Now', t, stack')
  BY <1>0, <1>6, <1>7, <1>8 DEF InTrap, Now
<1>5. OwnCsr(pc', csr', t, stale')
  BY <1>0, <1>1 DEF OwnCsr
<1>11. t.sp <= sp' /\ sp' <= Len(trapped) + 1
  <2>1. t.sp <= sp'
    BY <1>6, <1>7
  <2>2. t.sp <= Len(trapped) /\ Len(trapped) \in Nat /\ t.sp \in Nat
    BY <1>1, <1>6
  <2>3. t.sp <= Len(trapped) + 1
    BY <2>2
  <2> QED
    BY <2>1, <2>3, <1>7
<1> QED
  BY <1>0, <1>1, <1>3, <1>4, <1>5, <1>7, <1>11, TrapStep DEF TrapPcs, EndPcs

\* An index of a longer sequence is its last or one of the shorter one's.
LEMMA Shorter == ASSUME NEW m \in Nat PROVE \A k \in 1 .. m + 1 : k # m + 1 => k \in 1 .. m
  OBVIOUS

(* A trap strikes. *)
LEMMA EnterInv ==
  ASSUME IInv, NEW cause \in Interrupts \cup Exceptions, Enter(cause)
  PROVE  IInv'
<1> DEFINE n == Len(trapped)
           c == [regs |-> regs, sp |-> sp, pc |-> pc, mie |-> csr.mie]
<1> USE StartupAssumption
<1>0. /\ n < MaxTraps /\ pc \notin {"reset", "lost", "exited"} /\ (cause \in Interrupts => csr.mie)
      /\ trapped' = Append(trapped, c)
      /\ csr' = [csr EXCEPT !.mepc = pc, !.mcause = cause,
                            !.mpie = csr.mie, !.mie = FALSE, !.mpp = mode]
      /\ mode' = "M" /\ pc' = csr.mtvec
      /\ UNCHANGED <<ram, from, to, regs, sp, stack, stale, code>>
  BY DEF Enter, Goto
<1>1. /\ pc \in Pcs /\ csr \in Csr /\ regs \in Files /\ sp \in Nat /\ mode = "M"
      /\ trapped \in Seq(Context) /\ n \in Nat
  BY <1>0, TrapFacts DEF IInv, TypeOK
<1>2. c \in Context
  BY <1>1 DEF Context, Csr
<1>3. /\ trapped' \in Seq(Context) /\ Len(trapped') = n + 1
      /\ \A k \in 1 .. n : trapped'[k] = trapped[k]
      /\ trapped'[n + 1] = c
  <2> HIDE DEF c
  <2> QED
    BY <1>0, <1>1, <1>2, AppendProperties
<1>4. trapped' # << >>
  BY <1>1, <1>3, EmptySeq
<1>5. csr' \in Csr /\ csr'.mepc = pc /\ csr'.mcause = cause /\ csr'.mpie = csr.mie
      /\ csr'.mie = FALSE /\ csr'.mtvec = csr.mtvec /\ csr'.fs = csr.fs
  BY <1>0, <1>1 DEF Csr
<1>6. Base # "reset" /\ pc' = "trap_entry"
  <2>1. Base # "reset"
    BY <1>0, TrapFacts DEF Base, IInv, Levels, BasePcs, TrapPcs, EndPcs
  <2> QED
    BY <2>1, <1>0 DEF IInv, Loading
<1>7. TypeOK'
  BY <1>0, <1>1, <1>3, <1>5, <1>6 DEF IInv, TypeOK, Pcs, TrapPcs, EndPcs
<1>8. n = 0 \/ n \in 1 .. n
  BY <1>1
<1>9. sp <= n + 1 /\ (n # 0 => trapped[n].sp <= sp)
  BY <1>1, TrapFacts DEF IInv, Depths
<1>10. Depths'
  <2>1. \A k \in 1 .. n + 1 : trapped'[k].sp <= k
    <3> TAKE k \in 1 .. n + 1
    <3>1. CASE k = n + 1
      BY <3>1, <1>3, <1>9
    <3>2. CASE k # n + 1
      <4>1. k \in 1 .. n
        BY <3>2, <1>1, Shorter
      <4> QED
        BY <4>1, <1>3 DEF IInv, Depths
    <3> QED
      BY <3>1, <3>2
  <2>2. \A j, k \in 1 .. n + 1 : j <= k => trapped'[j].sp <= trapped'[k].sp
    <3> SUFFICES ASSUME NEW j \in 1 .. n + 1, NEW k \in 1 .. n + 1, j <= k
                 PROVE  trapped'[j].sp <= trapped'[k].sp
      OBVIOUS
    <3>1. CASE k # n + 1
      <4>1. j \in 1 .. n /\ k \in 1 .. n
        <5>1. j # n + 1
          BY <3>1, <1>1
        <5> QED
          BY <5>1, <3>1, <1>1, Shorter
      <4> QED
        BY <4>1, <1>3 DEF IInv, Depths
    <3>2. CASE k = n + 1 /\ j = n + 1
      BY <3>2, <1>1, <1>3
    <3>3. CASE k = n + 1 /\ j # n + 1
      <4>1. j \in 1 .. n /\ n \in 1 .. n /\ j <= n /\ n # 0
        BY <3>3, <1>1
      <4>2. trapped[j].sp <= trapped[n].sp
        BY <4>1 DEF IInv, Depths
      <4>3. trapped[j].sp \in Nat /\ trapped[n].sp \in Nat
        BY <4>1, TrapFacts DEF IInv, Context
      <4>4. trapped[j].sp <= sp
        BY <4>1, <4>2, <4>3, <1>1, <1>9
      <4>5. trapped'[j].sp = trapped[j].sp /\ trapped'[k].sp = sp
        BY <4>1, <3>3, <1>3
      <4> QED
        BY <4>4, <4>5
    <3> QED
      BY <3>1, <3>2, <3>3
  <2>3. trapped'[n + 1].sp <= sp /\ sp <= n + 1 + 1
    BY <1>1, <1>3, <1>9
  <2> QED
    BY <2>1, <2>2, <2>3, <1>0, <1>3, <1>4 DEF Depths
<1>11. pc \in (IF n = 0 THEN BasePcs \ {"reset"} ELSE TrapPcs)
  BY <1>0, <1>1, TrapFacts DEF IInv, Levels, Pcs, EndPcs
<1>12. Levels'
  <2>1. \A k \in 1 .. n + 1 :
          trapped'[k].pc \in IF k = 1 THEN BasePcs \ {"reset"} ELSE TrapPcs
    <3> TAKE k \in 1 .. n + 1
    <3>1. CASE k = n + 1
      <4>1. trapped'[k].pc = pc /\ (k = 1 <=> n = 0)
        BY <3>1, <1>1, <1>3
      <4> QED
        BY <4>1, <1>11
    <3>2. CASE k # n + 1
      <4>1. k \in 1 .. n
        BY <3>2, <1>1, Shorter
      <4> QED
        BY <4>1, <1>3 DEF IInv, Levels
    <3> QED
      BY <3>1, <3>2
  <2>2. Len(trapped') <= MaxTraps
    BY <1>0, <1>1, <1>3
  <2> QED
    BY <2>1, <2>2, <1>3, <1>4, <1>6 DEF Levels, TrapPcs
<1>13. \A k \in 1 .. n : InTrap(trapped'[k + 1], trapped'[k], stack)
  <2> TAKE k \in 1 .. n
  <2>1. CASE k = n
    <3>1. trapped # << >> /\ InTrap(Now, trapped[n], stack)
      BY <2>1, <1>1, TrapFacts DEF IInv, Nested
    <3>2. trapped'[k + 1] = Now /\ trapped'[k] = trapped[n]
      BY <2>1, <1>3 DEF Now
    <3> QED
      BY <3>1, <3>2
  <2>2. CASE k # n
    <3>1. k \in 1 .. n - 1 /\ k + 1 \in 1 .. n
      BY <2>2, <1>1
    <3> QED
      BY <3>1, <1>3 DEF IInv, Nested
  <2> QED
    BY <2>1, <2>2
<1>14. InTrap(Now', c, stack) /\ OwnCsr(pc', csr', c, stale')
  BY <1>0, <1>5, <1>6 DEF InTrap, OwnCsr, Now
<1>15. Nested'
  <2> HIDE DEF c
  <2>1. Len(trapped') - 1 = n
    BY <1>1, <1>3
  <2> QED
    BY <2>1, <1>0, <1>3, <1>13, <1>14 DEF Nested
<1>16. Base' = Base /\ BaseSp' = BaseSp
  <2>1. CASE n = 0
    BY <2>1, <1>1, <1>3, <1>4, EmptySeq DEF Base, BaseSp
  <2>2. CASE n # 0
    <3>1. 1 \in 1 .. n /\ trapped # << >>
      BY <2>2, <1>1, TrapFacts DEF IInv
    <3> QED
      BY <3>1, <1>3, <1>4 DEF Base, BaseSp
  <2> QED
    BY <2>1, <2>2
<1>17. Loading'
  BY <1>0, <1>5, <1>16, LoadingStays DEF IInv
<1> QED
  BY <1>7, <1>10, <1>12, <1>15, <1>17 DEF IInv

(* mret restores what the trap struck but, perhaps, where it was. *)
LEMMA MretRestores ==
  ASSUME IInv, Mret
  PROVE  LET t == trapped[Len(trapped)]
         IN  /\ trapped # << >> /\ Len(trapped) \in 1 .. MaxTraps /\ t \in Context
             /\ regs' \in Files /\ Saved(regs') = Saved(t.regs)
             /\ sp' = t.sp /\ mode' \in {"M", "U"}
             /\ (pc' = t.pc /\ mode' = "M") \/ (pc' = "lost" /\ stale)
             /\ t.mie /\ csr'.mie /\ csr'.mpie /\ csr' \in Csr
             /\ csr'.mtvec = csr.mtvec /\ csr'.fs = csr.fs
<1> DEFINE t == trapped[Len(trapped)]
<1>0. pc = "mret" /\ pc \in TrapPcs
  BY DEF Mret, TrapPcs
<1>1. /\ trapped # << >> /\ Len(trapped) \in 1 .. MaxTraps /\ t \in Context
      /\ InTrap(Now, t, stack) /\ OwnCsr(pc, csr, t, stale)
  BY <1>0, InTrapCode
<1>2. sp = t.sp /\ regs \in Files /\ Saved(regs) = Saved(t.regs) /\ t.mie
  BY <1>0, <1>1 DEF InTrap, Now, IInv, TypeOK
<1>3. (~stale => csr.mepc = t.pc /\ csr.mpp = "M") /\ csr.mpie /\ csr \in Csr
      /\ csr.mpp \in {"M", "U"}
  BY <1>0, <1>1 DEF OwnCsr, IInv, TypeOK, Csr
<1>4. csr' = [csr EXCEPT !.mie = csr.mpie, !.mpie = TRUE, !.mpp = "U"]
      /\ mode' = csr.mpp /\ UNCHANGED <<regs, sp>>
      /\ pc' = IF csr.mepc = t.pc /\ csr.mpp = "M" THEN csr.mepc ELSE "lost"
  BY DEF Mret, Goto
<1>5. csr' \in Csr /\ csr'.mie /\ csr'.mpie /\ csr'.mtvec = csr.mtvec /\ csr'.fs = csr.fs
  BY <1>3, <1>4 DEF Csr
<1>6. (pc' = t.pc /\ mode' = "M") \/ (pc' = "lost" /\ stale)
  BY <1>3, <1>4
<1>7. mode' \in {"M", "U"}
  BY <1>3, <1>4
<1> QED
  BY <1>1, <1>2, <1>3, <1>4, <1>5, <1>6, <1>7

(* Returning from a trap. *)
LEMMA MretInv == ASSUME IInv, Mret PROVE IInv'
<1> DEFINE n == Len(trapped)
           t == trapped[n]
<1>0. UNCHANGED <<ram, from, to, stack>> /\ trapped' = SubSeq(trapped, 1, n - 1) /\ stale'
      /\ stale' \in BOOLEAN
  BY DEF Mret
<1>1. /\ trapped # << >> /\ n \in 1 .. MaxTraps /\ t \in Context
      /\ regs' \in Files /\ Saved(regs') = Saved(t.regs)
      /\ sp' = t.sp /\ mode' \in {"M", "U"}
      /\ (pc' = t.pc /\ mode' = "M") \/ pc' = "lost"
      /\ t.mie /\ csr'.mie /\ csr'.mpie /\ csr' \in Csr
      /\ csr'.mtvec = csr.mtvec /\ csr'.fs = csr.fs
  BY MretRestores
<1>2. trapped \in Seq(Context) /\ n \in Nat /\ n # 0 /\ MaxTraps \in Nat
  BY <1>1, TrapFacts, StartupAssumption DEF IInv, TypeOK
<1>11. n \in Nat /\ n # 0 /\ n >= 1
  <2> SUFFICES ASSUME NEW m \in Nat, m # 0 PROVE m >= 1
    BY <1>2
  <2> QED
    OBVIOUS
<1>12. n \in 1 .. n /\ (n # 1 => n - 1 \in 1 .. n - 1 /\ n - 1 \in 1 .. n) /\ n - 1 <= n /\ n - 1 + 1 = n
  <2> SUFFICES ASSUME NEW m \in Nat, m >= 1
               PROVE  m \in 1 .. m /\ (m # 1 => m - 1 \in 1 .. m - 1 /\ m - 1 \in 1 .. m)
                        /\ m - 1 <= m /\ m - 1 + 1 = m
    BY <1>11
  <2> QED
    OBVIOUS
<1>3. /\ trapped' \in Seq(Context) /\ Len(trapped') = n - 1
      /\ \A k \in 1 .. n - 1 : trapped'[k] = trapped[k]
      /\ trapped' = << >> <=> n = 1
  BY <1>0, <1>1, <1>2, FrontContexts
<1>4. TypeOK'
  BY <1>0, <1>1, <1>3 DEF IInv, TypeOK, Context, Pcs, EndPcs
<1>5. \A k \in 1 .. n - 1 : k \in 1 .. n /\ k + 1 \in 1 .. n /\ k <= n
  BY <1>2
<1>6. Depths'
  <2>1. \A k \in 1 .. n - 1 : trapped'[k].sp <= k
    BY <1>3, <1>5 DEF IInv, Depths
  <2>2. \A j, k \in 1 .. n - 1 : j <= k => trapped'[j].sp <= trapped'[k].sp
    BY <1>3, <1>5 DEF IInv, Depths
  <2>3. n \in 1 .. n /\ t.sp <= n
    BY <1>2 DEF IInv, Depths
  <2>4. n = 1 => sp' <= 1
    BY <2>3, <1>1
  <2>5. n # 1 => trapped'[n - 1].sp <= sp' /\ sp' <= n - 1 + 1
    <3> SUFFICES ASSUME n # 1 PROVE trapped'[n - 1].sp <= sp' /\ sp' <= n - 1 + 1
      OBVIOUS
    <3>1. n - 1 \in 1 .. n - 1 /\ n - 1 \in 1 .. n /\ n - 1 <= n
      BY <1>12
    <3>2. trapped[n - 1].sp <= t.sp
      BY <3>1, <2>3 DEF IInv, Depths
    <3>3. n - 1 + 1 = n
      BY <1>2
    <3> QED
      BY <3>1, <3>2, <3>3, <2>3, <1>1, <1>3
  <2> QED
    BY <2>1, <2>2, <2>4, <2>5, <1>3 DEF Depths
<1>7. Levels'
  <2>1. n \in 1 .. n /\ t.pc \in IF n = 1 THEN BasePcs \ {"reset"} ELSE TrapPcs
    BY <1>12 DEF IInv, Levels
  <2>2. Len(trapped') <= MaxTraps
    BY <1>1, <1>2, <1>3
  <2>3. \A k \in 1 .. n - 1 :
          trapped'[k].pc \in IF k = 1 THEN BasePcs \ {"reset"} ELSE TrapPcs
    BY <1>3, <1>5 DEF IInv, Levels
  <2> QED
    BY <2>1, <2>2, <2>3, <1>1, <1>3 DEF Levels, EndPcs
<1>8. Nested'
  <2>1. \A k \in 1 .. n - 2 : InTrap(trapped'[k + 1], trapped'[k], stack')
    <3> TAKE k \in 1 .. n - 2
    <3>1. k \in 1 .. n - 1 /\ k + 1 \in 1 .. n - 1
      BY <1>2
    <3> QED
      BY <3>1, <1>0, <1>3 DEF IInv, Nested
  <2>2. ASSUME n # 1
        PROVE  InTrap(Now', trapped'[n - 1], stack') /\ OwnCsr(pc', csr', trapped'[n - 1], stale')
    <3>1. n - 1 \in 1 .. n - 1 /\ n - 1 + 1 = n
      BY <1>12, <2>2
    <3>2. InTrap(t, trapped[n - 1], stack)
      BY <3>1 DEF IInv, Nested
    <3>3. trapped'[n - 1] = trapped[n - 1]
      BY <3>1, <1>3
    <3>4. t.pc \in {"handler", "restore", "setmpp", "load", "mret"}
      <4>1. t.pc # "lost"
        BY <1>12, <2>2 DEF IInv, Levels, TrapPcs
      <4> QED
        BY <4>1, <3>2, <1>1 DEF InTrap
    <3>5. Now'.sp = t.sp /\ Now'.pc = pc' /\ Saved(Now'.regs) = Saved(t.regs)
      BY <1>1 DEF Now
    <3>6. InTrap(Now', trapped[n - 1], stack)
      BY <3>2, <3>4, <3>5, <1>1 DEF InTrap
    <3>7. OwnCsr(pc', csr', trapped[n - 1], stale')
      BY <3>4, <1>0, <1>1 DEF OwnCsr
    <3> QED
      BY <3>3, <3>6, <3>7, <1>0
  <2>3. Len(trapped') - 1 = n - 2
    BY <1>2, <1>3
  <2> QED
    BY <2>1, <2>2, <2>3, <1>3 DEF Nested
<1>9. CASE n = 1 /\ pc' = "lost"
  <2>1. Base # "reset" /\ Base' = "lost"
    BY <1>9, <1>3, <1>12 DEF Base, IInv, Levels
  <2>2. csr'.mtvec = "trap_entry"
    BY <2>1, <1>1 DEF IInv, Loading
  <2>3. Loading'
    BY <2>1, <2>2 DEF Loading
  <2> QED
    BY <2>3, <1>4, <1>6, <1>7, <1>8 DEF IInv
<1>10. CASE ~(n = 1 /\ pc' = "lost")
  <2>1. Base' = Base /\ BaseSp' = BaseSp
    <3>1. CASE n = 1
      BY <3>1, <1>10, <1>1, <1>3 DEF Base, BaseSp
    <3>2. CASE n # 1
      <4>1. 1 \in 1 .. n - 1
        BY <3>2, <1>2
      <4> QED
        BY <4>1, <3>2, <1>1, <1>3 DEF Base, BaseSp
    <3> QED
      BY <3>1, <3>2
  <2>2. Loading'
    BY <1>0, <1>1, <2>1, LoadingStays DEF IInv
  <2> QED
    BY <2>2, <1>4, <1>6, <1>7, <1>8 DEF IInv
<1> QED
  BY <1>9, <1>10

(* A step of the program outside of traps. *)
LEMMA BaseStep ==
  ASSUME IInv, TypeOK', trapped = << >>, trapped' = << >>, sp' <= 1,
         pc' \in BasePcs \cup EndPcs, Loading'
  PROVE  IInv'
<1>1. Len(trapped') = 0 /\ 1 .. Len(trapped') = {} /\ 1 .. Len(trapped') - 1 = {}
  BY EmptySeq
<1>2. Depths' /\ Levels' /\ Nested'
  BY <1>1, StartupAssumption DEF Depths, Levels, Nested
<1> QED
  BY <1>2 DEF IInv

(* The program outside of traps runs in no trap. *)
LEMMA BaseFacts ==
  ASSUME IInv, pc \in BasePcs
  PROVE  /\ trapped = << >> /\ Base = pc /\ BaseSp = sp /\ sp <= 1
         /\ pc \in Pcs /\ csr \in Csr /\ regs \in Files /\ sp \in Nat /\ mode = "M"
         /\ from \in Nat /\ to \in Nat /\ ram \in [Ram -> Nat \cup {Garbage}]
         /\ stack \in [1 .. MaxTraps + 1 -> Frames]
         /\ trapped \in Seq(Context) /\ stale \in BOOLEAN
<1>1. trapped = << >>
  BY DEF IInv, Levels, BasePcs, TrapPcs, EndPcs
<1>2. pc # "lost"
  BY DEF BasePcs
<1> QED
  BY <1>1, <1>2 DEF IInv, TypeOK, Depths, Base, BaseSp

(* The addresses are natural numbers. *)
LEMMA Layout == edata \in Nat /\ end \in Nat /\ edata <= end /\ Len(Image) \in Nat
                /\ \A a \in 1 .. Len(Image) : Image[a] \in Nat
  BY StartupAssumption, ElementOfSeq DEF edata, bss_start, end

(* The program's loops load the image word by word. *)
LEMMA LoadInv ==
  ASSUME IInv, Reset \/ CopyWord \/ DataLoaded \/ ClearWord \/ BssCleared
  PROVE  IInv'
<1>0. pc \in {"reset", "data", "bss"} /\ pc \in BasePcs
  BY DEF Reset, CopyWord, DataLoaded, ClearWord, BssCleared, BasePcs
<1>1. /\ trapped = << >> /\ Base = pc /\ BaseSp = sp /\ sp <= 1
      /\ pc \in Pcs /\ csr \in Csr /\ regs \in Files /\ sp \in Nat /\ mode = "M"
      /\ from \in Nat /\ to \in Nat /\ ram \in [Ram -> Nat \cup {Garbage}]
      /\ stack \in [1 .. MaxTraps + 1 -> Frames]
      /\ trapped \in Seq(Context) /\ stale \in BOOLEAN
  BY <1>0, BaseFacts
<1>2. ASSUME NEW m \in Nat, m < end, NEW v \in Nat, v = Wanted(m), LoadedTo(ram, m),
             ram' = [ram EXCEPT ![m] = v]
      PROVE  LoadedTo(ram', m + 1) /\ ram' \in [Ram -> Nat \cup {Garbage}]
  <2>1. \A a \in Ram : ram'[a] = IF a = m THEN v ELSE ram[a]
    BY <1>1, <1>2
  <2>2. \A a \in Ram : a \in Int
    BY DEF Ram
  <2>3. \A a \in Ram : a < m + 1 <=> a < m \/ a = m
    BY <2>2, <1>2
  <2>4. \A a \in Ram : m + 1 <= a => m <= a /\ a # m
    BY <2>2, <1>2
  <2>5. \A a \in Ram : a < m + 1 => ram'[a] = Wanted(a)
    BY <2>1, <2>3, <1>2 DEF LoadedTo
  <2>6. \A a \in Ram : m + 1 <= a => ram'[a] = Garbage
    BY <2>1, <2>4, <1>2 DEF LoadedTo
  <2>7. ram' \in [Ram -> Nat \cup {Garbage}]
    BY <1>1, <1>2
  <2> QED
    BY <2>5, <2>6, <2>7 DEF LoadedTo, Wanted
<1>3. CASE Reset
  <2>1. /\ pc = "reset" /\ pc' = "data" /\ sp' = 0 /\ from' = 1 /\ to' = 0 /\ csr.fs = FALSE
        /\ csr' = [csr EXCEPT !.mtvec = "trap_entry"]
        /\ UNCHANGED <<ram, regs, stack, mode, trapped, stale>>
    BY <1>3, <1>1 DEF Reset, Goto, data, IInv, Loading
  <2>2. csr' \in Csr /\ csr'.mtvec = "trap_entry" /\ csr'.fs = FALSE
    BY <2>1, <1>1 DEF Csr
  <2>3. TypeOK'
    BY <2>1, <2>2, <1>1 DEF TypeOK, Pcs, BasePcs, EndPcs
  <2>4. LoadedTo(ram', 0)
    BY <2>1, <1>1 DEF IInv, Loading, LoadedTo, Wanted
  <2>5. Base' = "data" /\ BaseSp' = 0
    BY <2>1, <1>1 DEF Base, BaseSp
  <2>6. Loading'
    BY <2>1, <2>2, <2>4, <2>5, Layout DEF Loading, LoadedTo, Wanted
  <2> QED
    BY <2>1, <2>3, <2>6, <1>1, BaseStep DEF BasePcs, EndPcs
<1>4. CASE CopyWord
  <2>1. /\ pc = "data" /\ to < edata /\ pc' = pc
        /\ ram' = [ram EXCEPT ![to] = Image[from]] /\ from' = from + 1 /\ to' = to + 1
        /\ UNCHANGED <<regs, sp, stack, csr, mode, trapped, stale>>
    BY <1>4 DEF CopyWord
  <2>2. /\ from = to + 1 /\ LoadedTo(ram, to) /\ csr.mtvec = "trap_entry" /\ sp = 0 /\ csr.fs = FALSE
    BY <2>1, <1>1 DEF IInv, Loading
  <2>3. to < end /\ Image[from] \in Nat /\ Image[from] = Wanted(to)
    BY <2>1, <2>2, <1>1, Layout DEF Wanted, edata
  <2>4. LoadedTo(ram', to + 1) /\ ram' \in [Ram -> Nat \cup {Garbage}]
    BY <2>1, <2>2, <2>3, <1>1, <1>2
  <2>5. LoadedTo(ram', to')
    BY <2>1, <2>4 DEF LoadedTo, Wanted
  <2>6. TypeOK'
    BY <2>1, <2>4, <1>1 DEF TypeOK
  <2>7. Base' = "data" /\ BaseSp' = 0
    BY <2>1, <2>2, <1>1 DEF Base, BaseSp
  <2>8. from' = to' + 1 /\ to' <= edata
    BY <2>1, <2>2, <1>1, Layout
  <2>9. Loading'
    BY <2>1, <2>2, <2>5, <2>7, <2>8 DEF Loading
  <2> QED
    BY <2>1, <2>2, <2>6, <2>9, <1>1, BaseStep DEF BasePcs, EndPcs
<1>5. CASE DataLoaded
  <2>1. /\ pc = "data" /\ to >= edata /\ pc' = "bss" /\ from' = edata /\ to' = end
        /\ UNCHANGED <<ram, regs, sp, stack, csr, mode, trapped, stale>>
    BY <1>5 DEF DataLoaded, Goto, bss_start
  <2>2. /\ to <= edata /\ LoadedTo(ram, to) /\ csr.mtvec = "trap_entry" /\ sp = 0 /\ csr.fs = FALSE
    BY <2>1, <1>1 DEF IInv, Loading
  <2>3. to = edata
    BY <2>1, <2>2, <1>1, Layout
  <2>4. LoadedTo(ram', edata)
    BY <2>1, <2>2, <2>3 DEF LoadedTo, Wanted
  <2>5. TypeOK'
    BY <2>1, <1>1, Layout DEF TypeOK, Pcs, BasePcs, EndPcs
  <2>6. Base' = "bss" /\ BaseSp' = 0
    BY <2>1, <2>2, <1>1 DEF Base, BaseSp
  <2>7. LoadedTo(ram', from')
    BY <2>1, <2>4 DEF LoadedTo, Wanted
  <2>8. Loading'
    BY <2>1, <2>2, <2>6, <2>7, Layout DEF Loading
  <2> QED
    BY <2>1, <2>2, <2>5, <2>8, <1>1, BaseStep DEF BasePcs, EndPcs
<1>6. CASE ClearWord
  <2>1. /\ pc = "bss" /\ from < to /\ pc' = pc
        /\ ram' = [ram EXCEPT ![from] = 0] /\ from' = from + 1
        /\ UNCHANGED <<to, regs, sp, stack, csr, mode, trapped, stale>>
    BY <1>6 DEF ClearWord
  <2>2. /\ to = end /\ edata <= from /\ LoadedTo(ram, from) /\ csr.mtvec = "trap_entry" /\ sp = 0 /\ csr.fs = FALSE
    BY <2>1, <1>1 DEF IInv, Loading
  <2>3. from < end /\ 0 = Wanted(from)
    BY <2>1, <2>2, <1>1, Layout DEF Wanted
  <2>4. LoadedTo(ram', from + 1) /\ ram' \in [Ram -> Nat \cup {Garbage}]
    BY <2>1, <2>2, <2>3, <1>1, <1>2
  <2>5. LoadedTo(ram', from')
    BY <2>1, <2>4 DEF LoadedTo, Wanted
  <2>6. TypeOK'
    BY <2>1, <2>4, <1>1 DEF TypeOK
  <2>7. Base' = "bss" /\ BaseSp' = 0
    BY <2>1, <2>2, <1>1 DEF Base, BaseSp
  <2>8. edata <= from' /\ from' <= end
    BY <2>1, <2>2, <2>3, <1>1, Layout
  <2>9. Loading'
    BY <2>1, <2>2, <2>5, <2>7, <2>8 DEF Loading
  <2> QED
    BY <2>1, <2>2, <2>6, <2>9, <1>1, BaseStep DEF BasePcs, EndPcs
<1>7. CASE BssCleared
  <2>1. /\ pc = "bss" /\ from >= to /\ pc' = "_init"
        /\ UNCHANGED <<ram, from, to, regs, sp, stack, csr, mode, trapped, stale>>
    BY <1>7 DEF BssCleared, Goto
  <2>2. /\ to = end /\ from <= end /\ LoadedTo(ram, from) /\ csr.mtvec = "trap_entry" /\ sp = 0 /\ csr.fs = FALSE
    BY <2>1, <1>1 DEF IInv, Loading
  <2>3. from = end
    BY <2>1, <2>2, <1>1, Layout
  <2>4. LoadedTo(ram', end)
    BY <2>1, <2>2, <2>3 DEF LoadedTo, Wanted
  <2>5. TypeOK'
    BY <2>1, <1>1 DEF TypeOK, Pcs, BasePcs, EndPcs
  <2>6. Base' = "_init" /\ BaseSp' = 0
    BY <2>1, <2>2, <1>1 DEF Base, BaseSp
  <2>7. Loading'
    BY <2>1, <2>2, <2>4, <2>6 DEF Loading
  <2> QED
    BY <2>1, <2>2, <2>5, <2>7, <1>1, BaseStep DEF BasePcs, EndPcs
<1> QED
  BY <1>3, <1>4, <1>5, <1>6, <1>7

(* _init adds the frequency; constructors and main are not looked at. *)
LEMMA ProgramInv ==
  ASSUME IInv, _init \/ CallMain \/ MainStep \/ MainReturns
  PROVE  IInv'
<1> USE StartupAssumption
<1>0. pc \in {"_init", "constructors", "main"} /\ pc \in BasePcs
  BY DEF _init, CallMain, MainStep, MainReturns, BasePcs
<1>1. /\ trapped = << >> /\ Base = pc /\ BaseSp = sp /\ sp <= 1
      /\ pc \in Pcs /\ csr \in Csr /\ regs \in Files /\ sp \in Nat /\ mode = "M"
      /\ from \in Nat /\ to \in Nat /\ ram \in [Ram -> Nat \cup {Garbage}]
      /\ stack \in [1 .. MaxTraps + 1 -> Frames]
      /\ trapped \in Seq(Context) /\ stale \in BOOLEAN
  BY <1>0, BaseFacts
<1>2. UNCHANGED <<from, to, stack, mode, trapped, stale>>
  BY DEF _init, CallMain, MainStep, MainReturns
<1>3. csr.mtvec = "trap_entry"
  BY <1>0, <1>1 DEF IInv, Loading
<1>4. Base' = pc' /\ BaseSp' = sp'
  BY <1>1, <1>2 DEF Base, BaseSp
<1>5. CASE _init
  <2>1. pc = "_init" /\ pc' = "constructors" /\ UNCHANGED <<regs, sp>> /\ sp = 0
    BY <1>5, <1>1 DEF _init, Goto, IInv, Loading
  <2>2. csr' \in Csr /\ csr'.mtvec = "trap_entry" /\ csr'.fs \in BOOLEAN /\ (HasFpu => csr'.fs)
    BY <1>5, <1>1 DEF _init, Csr
  <2>3. csr'.fs = HasFpu
    <3>1. csr.fs = FALSE
      BY <2>1, <1>1 DEF IInv, Loading
    <3> QED
      BY <3>1, <1>5, <1>1 DEF _init, Csr
  \* .bss is cleared: get_cpu_freq measures.
  <2>5. LoadedTo(ram, end) /\ CpuFreqAt \in Ram /\ edata <= CpuFreqAt /\ CpuFreqAt < end
    BY <2>1, <1>1, Layout DEF IInv, Loading, Ram, edata, bss_start, end
  <2>6. ram[CpuFreqAt] = 0
    BY <2>5, Layout DEF LoadedTo, Wanted
  <2>7. PICK f \in Frequencies : ram' = [ram EXCEPT ![CpuFreqAt] = f]
    BY <1>5, <2>6 DEF _init, get_cpu_freq
  <2>8. Measured(ram') /\ ram' \in [Ram -> Nat \cup {Garbage}]
    <3>1. \A a \in Ram : (a < end \/ end <= a) /\ (end <= a => Wanted(a) = Garbage)
      BY Layout DEF Ram, Wanted
    <3>2. \A a \in Ram : ram[a] = Wanted(a)
      BY <2>5, <3>1 DEF LoadedTo
    <3> QED
      BY <1>1, <2>5, <2>7, <3>2 DEF Measured, Wanted
  <2>4. TypeOK' /\ Loading'
    <3>1. TypeOK'
      BY <2>1, <2>2, <2>8, <1>1, <1>2 DEF TypeOK, Pcs, BasePcs, EndPcs
    <3>2. Loading'
      BY <2>1, <2>2, <2>3, <2>8, <1>4 DEF Loading
    <3> QED
      BY <3>1, <3>2
  <2> QED
    BY <2>1, <2>4, <1>1, <1>2, BaseStep DEF BasePcs, EndPcs
<1>6. CASE CallMain
  <2>1. pc = "constructors" /\ pc' = "main" /\ sp = 0 /\ sp' = 1 /\ csr.fs = HasFpu
    BY <1>6, <1>1 DEF CallMain, Goto, IInv, Loading
  <2>2. csr' \in Csr /\ csr'.mtvec = csr.mtvec /\ csr'.fs = csr.fs /\ ram' = ram
    BY <1>6, <1>1 DEF CallMain, Csr
  <2>3. regs' \in Files
    BY <1>6, <1>1 DEF CallMain, Files, Contents
  <2>4. TypeOK'
    BY <2>1, <2>2, <2>3, <1>1, <1>2 DEF TypeOK, Pcs, BasePcs, EndPcs
  <2>5. Loading'
    BY <2>1, <2>2, <1>3, <1>4 DEF Loading
  <2> QED
    BY <2>1, <2>4, <2>5, <1>1, <1>2, BaseStep DEF BasePcs, EndPcs
<1>7. CASE MainStep
  <2>1. pc = "main" /\ pc' = pc /\ sp' = sp /\ csr.fs = HasFpu
    BY <1>7, <1>1 DEF MainStep, IInv, Loading
  <2>2. csr' \in Csr /\ csr'.mtvec = csr.mtvec /\ csr'.fs = csr.fs /\ ram' = ram
    BY <1>7, <1>1 DEF MainStep, Csr
  <2>3. regs' \in Files
    BY <1>7, <1>1 DEF MainStep, Files, Contents
  <2>4. TypeOK'
    BY <2>1, <2>2, <2>3, <1>1, <1>2 DEF TypeOK
  <2>5. Loading'
    BY <2>1, <2>2, <1>3, <1>4 DEF Loading
  <2> QED
    BY <2>1, <2>4, <2>5, <1>1, <1>2, BaseStep DEF BasePcs, EndPcs
<1>8. CASE MainReturns
  <2>1. pc' = "exited" /\ UNCHANGED <<ram, regs, sp, csr>>
    BY <1>8 DEF MainReturns, Goto
  <2>2. TypeOK'
    BY <2>1, <1>1, <1>2 DEF TypeOK, Pcs, EndPcs
  <2>3. Loading'
    BY <2>1, <1>3, <1>4 DEF Loading
  <2> QED
    BY <2>1, <2>2, <2>3, <1>1, <1>2, BaseStep DEF EndPcs
<1> QED
  BY <1>5, <1>6, <1>7, <1>8

(* Every step keeps the invariant. *)
LEMMA StepInv ==
  ASSUME IInv, [StartupNext]_startupVars
  PROVE  IInv'
<1>1. CASE Reset \/ CopyWord \/ DataLoaded \/ ClearWord \/ BssCleared
  BY <1>1, LoadInv
<1>2. CASE _init \/ CallMain \/ MainStep \/ MainReturns
  BY <1>2, ProgramInv
<1>3. CASE \E c \in Interrupts \cup Exceptions : Enter(c)
  BY <1>3, EnterInv
<1>4. CASE SaveRegs
  BY <1>4, SaveRegsInv
<1>5. CASE HandleFatal \/ HandleInterrupt
  BY <1>5, HandleTrapInv
<1>6. CASE Nest
  BY <1>6, NestInv
<1>7. CASE HandlerReturns
  BY <1>7, HandlerReturnsInv
<1>8. CASE WriteEpc
  BY <1>8, WriteEpcInv
<1>12. CASE SetMpp
  BY <1>12, SetMppInv
<1>9. CASE LoadRegs
  BY <1>9, LoadRegsInv
<1>10. CASE Mret
  BY <1>10, MretInv
<1>11. CASE UNCHANGED startupVars
  BY <1>11 DEF startupVars, IInv, TypeOK, Depths, Levels, Nested, Loading, InTrap, OwnCsr,
               Now, Base, BaseSp, LoadedTo, Measured, Wanted
<1> QED
  BY <1>1, <1>2, <1>3, <1>4, <1>5, <1>6, <1>7, <1>8, <1>9, <1>10, <1>11, <1>12 DEF StartupNext

(* The invariant holds throughout. *)
THEOREM Inductive == StartupSpec => []IInv
<1>1. StartupInit => IInv
  BY InitInv
<1>2. IInv /\ [StartupNext]_startupVars => IInv'
  BY StepInv
<1> QED
  BY <1>1, <1>2, PTL DEF StartupSpec

(* Where the loops end the image is loaded, the rest of .bss cleared and   *)
(* the heap untouched, for images and sections of every size; _init adds   *)
(* the frequency it measured, the trap vector and the FPU as the core has  *)
(* it (start.S, _init).                                                    *)
THEOREM ImageLoaded == StartupSpec => []ImageReady
<1>1. IInv => ImageReady
  <2> SUFFICES ASSUME IInv PROVE ImageReady
    OBVIOUS
  <2>1. pc = "_init" => \A a \in Ram : ram[a] = Wanted(a)
    <3> SUFFICES ASSUME pc = "_init" PROVE \A a \in Ram : ram[a] = Wanted(a)
      OBVIOUS
    <3>1. LoadedTo(ram, end)
      BY BaseFacts DEF BasePcs, IInv, Loading
    <3>2. \A a \in Ram : (a < end \/ end <= a) /\ (end <= a => Wanted(a) = Garbage)
      BY Layout DEF Ram, Wanted
    <3> QED
      BY <3>1, <3>2 DEF LoadedTo
  <2>2. pc = "constructors" => Measured(ram) /\ csr.mtvec = "trap_entry" /\ csr.fs = HasFpu
    BY BaseFacts DEF BasePcs, IInv, Loading
  <2> QED
    BY <2>1, <2>2 DEF ImageReady, Loaded, Wanted, Measured
<1> QED
  BY <1>1, Inductive, PTL

(* A trap that returns, at whatever depth and wherever it struck, leaves   *)
(* the integer registers, the stack and the interrupt enable alone, and    *)
(* goes back to where it struck in machine mode unless another one came    *)
(* and went after mepc was written (entry.S, handle_trap).                 *)
THEOREM TrapsAreTransparent == StartupSpec => TrapTransparent
<1>1. IInv /\ [StartupNext]_startupVars => [Transparent]_startupVars
  <2> SUFFICES ASSUME IInv, StartupNext, Len(trapped') < Len(trapped)
               PROVE  LET t == trapped[Len(trapped)]
                      IN  /\ Saved(regs') = Saved(t.regs) /\ sp' = t.sp /\ csr'.mie = t.mie
                          /\ ~stale => pc' = t.pc /\ mode' = "M"
    BY DEF Transparent
  <2>1. CASE Mret
    <3>1. csr' \in Csr /\ csr'.mie /\ trapped[Len(trapped)].mie
          /\ trapped[Len(trapped)] \in Context
      BY <2>1, MretRestores
    <3>2. csr'.mie = trapped[Len(trapped)].mie
      BY <3>1 DEF Csr, Context
    <3> QED
      BY <2>1, <3>2, MretRestores
  <2>2. Len(trapped) \in Nat
    BY TrapFacts DEF IInv
  <2>3. CASE \E c \in Interrupts \cup Exceptions : Enter(c)
    <3>1. PICK c \in Interrupts \cup Exceptions : Enter(c)
      BY <2>3
    <3> DEFINE d == [regs |-> regs, sp |-> sp, pc |-> pc, mie |-> csr.mie]
    <3>2. trapped' = Append(trapped, d) /\ trapped \in Seq(Context) /\ d \in Context
      BY <3>1 DEF Enter, IInv, TypeOK, Context, Csr
    <3>3. Len(trapped') = Len(trapped) + 1
      <4> HIDE DEF d
      <4> QED
        BY <3>2, AppendProperties
    <3> QED
      BY <3>3, <2>2
  <2>4. CASE UNCHANGED trapped
    BY <2>4, <2>2
  <2> QED
    BY <2>1, <2>3, <2>4
       DEF StartupNext, Reset, CopyWord, DataLoaded, ClearWord, BssCleared, _init, CallMain,
           MainStep, MainReturns, SaveRegs, HandleFatal, HandleInterrupt, Nest, HandlerReturns,
           WriteEpc, SetMpp, LoadRegs
<1> QED
  BY <1>1, Inductive, PTL DEF StartupSpec, TrapTransparent

-----------------------------------------------------------------------------
(* The launcher *)

Configured == [p \in Params |-> IF FromFile(p) THEN file[p] ELSE ModelDefault[p]]

\* The parameters before the options override them.
LauncherInv ==
  /\ host \in {"parse", "elaborate", "configure"} => param = ModelDefault
  /\ host = "override" => param = Configured
  /\ OptionsWin

\* What overriding sets a parameter to.
LEMMA Overridden ==
  ASSUME param = Configured, OverrideConfig
  PROVE  OptionsWin'
<1> SUFFICES ASSUME NEW p \in Params
             PROVE  LET o == OptionOf[p]
                    IN  /\ Given(o) => param'[p] = Override(p)
                        /\ ~Given(o) /\ p \notin AlwaysSet =>
                             param'[p] = IF FromFile(p) THEN file[p] ELSE ModelDefault[p]
  BY DEF OverrideConfig, OptionsWin, Given, Override, Get, StartAddress, FromFile
<1> DEFINE o == OptionOf[p]
<1>1. param'[p] = IF p \in AlwaysSet \/ Given(o) THEN Override(p) ELSE Configured[p]
  BY DEF OverrideConfig
<1>2. Configured[p] = IF FromFile(p) THEN file[p] ELSE ModelDefault[p]
  BY DEF Configured
<1> QED
  BY <1>1, <1>2

\* Every step of sc_main.
LEMMA LauncherStep == ASSUME LauncherInv, [LauncherNext]_launcherVars PROVE LauncherInv'
<1>1. CASE UNCHANGED launcherVars
  BY <1>1 DEF launcherVars, LauncherInv, OptionsWin, Configured, FromFile, Given, Override, Get, StartAddress
<1>2. CASE ParseError \/ OverrideAborts \/ ReturnZero
  BY <1>2 DEF ParseError, OverrideAborts, ReturnZero, LauncherInv, OptionsWin
<1>3. CASE Parse \/ Elaborate
  BY <1>3 DEF Parse, Elaborate, LauncherInv, OptionsWin
<1>4. CASE Configure
  <2>1. host' = "override" /\ file' = file /\ param = ModelDefault
    BY <1>4 DEF Configure, LauncherInv
  <2>2. param' = Configured
    BY <1>4, <2>1 DEF Configure, Configured
  <2> QED
    BY <2>1, <2>2 DEF LauncherInv, OptionsWin, Configured, FromFile
<1>5. CASE OverrideConfig
  <2>1. param = Configured /\ host' = "running"
    BY <1>5 DEF OverrideConfig, LauncherInv
  <2> QED
    BY <1>5, <2>1, Overridden DEF LauncherInv
<1>6. CASE \E why \in {"max_time", "stop", "report"} : SimulationEnds(why)
  BY <1>6 DEF SimulationEnds, LauncherInv, OptionsWin
<1> QED
  BY <1>1, <1>2, <1>3, <1>4, <1>5, <1>6 DEF LauncherNext

-----------------------------------------------------------------------------
(* The platform *)

\* Where the windows of the router are, in half words.
LEMMA Windows ==
  /\ Targets = {"clint", "plic", "aon", "prci", "gpio0", "uart0", "qspi0", "pwm0",
                "uart1", "qspi1", "pwm1", "qspi2", "pwm2", "mem_qspi", "mem_ram"}
  /\ Window("clint")    = [start |-> 16777216, size |-> 24576]
  /\ Window("plic")     = [start |-> 100663296, size |-> 1048580]
  /\ Window("aon")      = [start |-> 134217728, size |-> 168]
  /\ Window("prci")     = [start |-> 134234112, size |-> 10]
  /\ Window("gpio0")    = [start |-> 134254592, size |-> 34]
  /\ Window("uart0")    = [start |-> 134256640, size |-> 14]
  /\ Window("qspi0")    = [start |-> 134258688, size |-> 60]
  /\ Window("pwm0")     = [start |-> 134260736, size |-> 24]
  /\ Window("uart1")    = [start |-> 134289408, size |-> 14]
  /\ Window("qspi1")    = [start |-> 134291456, size |-> 60]
  /\ Window("pwm1")     = [start |-> 134293504, size |-> 24]
  /\ Window("qspi2")    = [start |-> 134324224, size |-> 60]
  /\ Window("pwm2")     = [start |-> 134326272, size |-> 24]
  /\ Window("mem_qspi") = [start |-> 268435456, size |-> 268435456]
  /\ Window("mem_ram")  = [start |-> 1073741824, size |-> 65536]
<1>1. Targets = {"clint", "plic", "aon", "prci", "gpio0", "uart0", "qspi0", "pwm0",
                "uart1", "qspi1", "pwm1", "qspi2", "pwm2", "mem_qspi", "mem_ram"}
  BY DEF Targets, platfrom_mmap, Memories
<1>2. DOMAIN Memories = {"mem_qspi", "mem_ram"}
  BY DEF Memories
<1> QED
  BY <1>1, <1>2 DEF Window, platfrom_mmap, Memories, At, H

\* No address is in two windows.
LEMMA WindowsApart ==
  ASSUME NEW a \in Int, NEW d \in Targets, NEW e \in Targets,
         Window(d).start <= a, a < Window(d).start + Window(d).size,
         Window(e).start <= a, a < Window(e).start + Window(e).size
  PROVE  d = e
<1>1. \A t \in Targets : Window(t).start \in Int /\ Window(t).size \in Int
  BY Windows
<1> QED
  BY <1>1, Windows

\* An address in a window reaches that window's register, nothing else.
LEMMA DecodeInside ==
  ASSUME NEW d \in Targets, NEW o \in Nat, o < Window(d).size
  PROVE  Decode(Window(d).start + o) = {[dev |-> d, off |-> o]}
<1> DEFINE a == Window(d).start + o
           hit == { e \in Targets : Window(e).start <= a /\ a < Window(e).start + Window(e).size }
<1>1. \A t \in Targets : Window(t).start \in Int /\ Window(t).size \in Int
  BY Windows
<1>2. a \in Int /\ Window(d).start <= a /\ a < Window(d).start + Window(d).size
  BY <1>1
<1>3. a - Window(d).start = o
  BY <1>1
<1>4. hit = {d}
  <2> HIDE DEF a
  <2> QED
    BY <1>2, WindowsApart
<1>5. Decode(a) = { [dev |-> e, off |-> a - Window(e).start] : e \in hit }
  BY DEF Decode
<1> HIDE DEF a, hit
<1>6. Decode(a) = {[dev |-> d, off |-> o]}
  BY <1>3, <1>4, <1>5
<1> QED
  BY <1>6 DEF a

\* The firmware's devices the platform does not have.
Missing == {"maskrom", "trapvec", "otp_mem", "clic", "otp"}

\* Where the firmware has a device is where the platform has it.
LEMMA SameBases ==
  /\ DOMAIN CTRL_ADDR = Targets \cup Missing
  /\ Targets \cap Missing = {}
  /\ \A d \in Targets : CTRL_ADDR[d] = Window(d).start
  /\ CTRL_ADDR["maskrom"] = 2048 /\ CTRL_ADDR["trapvec"] = 2056
  /\ CTRL_ADDR["otp_mem"] = 65536 /\ CTRL_ADDR["clic"] = 4194304
  /\ CTRL_ADDR["otp"] = 134250496
<1>1. DOMAIN CTRL_ADDR = Targets \cup Missing /\ Targets \cap Missing = {}
  BY DEF CTRL_ADDR, Targets, Missing, platfrom_mmap, Memories
<1>2. \A d \in Targets : CTRL_ADDR[d] = Window(d).start
  BY Windows DEF CTRL_ADDR, H
<1> QED
  BY <1>1, <1>2 DEF CTRL_ADDR, H

\* Between the windows nothing answers.
LEMMA DecodeOutside ==
  ASSUME NEW a \in Int, \A d \in Targets : a < Window(d).start \/ Window(d).start + Window(d).size <= a
  PROVE  Decode(a) = {}
<1>1. \A t \in Targets : Window(t).start \in Int /\ Window(t).size \in Int
  BY Windows
<1>2. { e \in Targets : Window(e).start <= a /\ a < Window(e).start + Window(e).size } = {}
  BY <1>1
<1> QED
  BY <1>2 DEF Decode

\* The registers of the headers lie in the window of their device, but for
\* the last of the PRCI and the end of the flash.
LEMMA RegistersInside ==
  ASSUME NEW d \in Targets, NEW r \in Registers(d)
  PROVE  /\ H(r) \in Nat
         /\ ~(d = "prci" /\ r = \hF0) /\ ~(d = "mem_qspi" /\ r = FlashEnd - 4) =>
              H(r) < Window(d).size
         /\ H(r) = 120 => r \in {\hF0, \hF1}
<1>1. \A x \in Nat : H(x) \in Nat /\ (H(x) = 120 => x \in {\hF0, \hF1})
  BY DEF H
<1>2. \A x, m \in Nat : x < m + m => H(x) < m
  BY DEF H
<1>4. CASE d = "clint"
  BY <1>1, <1>2, <1>4, Windows DEF Registers, ClintRegisters
<1>5. CASE d = "plic"
  <2>1. ASSUME NEW x \in Steps(4, 208, 4) PROVE x \in Nat /\ x <= 208
    BY <2>1 DEF Steps
  <2>2. r \in Nat /\ r < 1048580 + 1048580
    BY <1>5, <2>1 DEF Registers, PlicRegisters, PLIC_NUM_INTERRUPTS
  <2> QED
    BY <1>1, <1>2, <1>5, <2>2, Windows
<1>6. CASE d = "aon"
  <2>1. ASSUME NEW x \in Steps(0, 24, 8) PROVE x \in Nat /\ x <= 24
    BY <2>1 DEF Steps
  <2>2. ASSUME NEW x \in Steps(128, 188, 4) PROVE x \in Nat /\ x <= 188
    BY <2>2 DEF Steps
  <2>3. ASSUME NEW x \in Steps(256, 332, 4) PROVE x \in Nat /\ x <= 332
    BY <2>3 DEF Steps
  <2>4. r \in Nat /\ r < 168 + 168
    BY <1>6, <2>1, <2>2, <2>3 DEF Registers, AonRegisters
  <2> QED
    BY <1>1, <1>2, <1>6, <2>4, Windows
<1>7. CASE d = "gpio0"
  <2>1. ASSUME NEW x \in Steps(0, 64, 4) PROVE x \in Nat /\ x <= 64
    BY <2>1 DEF Steps
  <2>2. r \in Nat /\ r < 34 + 34
    BY <1>7, <2>1 DEF Registers, GpioRegisters
  <2> QED
    BY <1>1, <1>2, <1>7, <2>2, Windows
<1>8. CASE d = "prci"
  BY <1>1, <1>2, <1>8, Windows DEF Registers, PrciRegisters
<1>9. CASE d \in {"pwm0", "pwm1", "pwm2"}
  <2>1. ASSUME NEW x \in Steps(32, 44, 4) PROVE x \in Nat /\ x <= 44
    BY <2>1 DEF Steps
  <2>2. r \in Nat /\ r < 24 + 24
    BY <1>9, <2>1 DEF Registers, PwmRegisters
  <2> QED
    BY <1>1, <1>2, <1>9, <2>2, Windows
<1>10. CASE d \in {"qspi0", "qspi1", "qspi2"}
  <2>1. ASSUME NEW x \in Steps(40, 46, 2) PROVE x \in Nat /\ x <= 46
    BY <2>1 DEF Steps
  <2>2. r \in Nat /\ r < 60 + 60
    BY <1>10, <2>1 DEF Registers, SpiRegisters
  <2> QED
    BY <1>1, <1>2, <1>10, <2>2, Windows
<1>11. CASE d \in {"uart0", "uart1"}
  <2>1. ASSUME NEW x \in Steps(0, 24, 4) PROVE x \in Nat /\ x <= 24
    BY <2>1 DEF Steps
  <2>2. r \in Nat /\ r < 14 + 14
    BY <1>11, <2>1 DEF Registers, UartRegisters
  <2> QED
    BY <1>1, <1>2, <1>11, <2>2, Windows
<1>12. CASE d \in {"mem_qspi", "mem_ram"}
  BY <1>1, <1>2, <1>12, Windows DEF Registers, FlashEnd
<1> QED
  BY <1>4, <1>5, <1>6, <1>7, <1>8, <1>9, <1>10, <1>11, <1>12, Windows

\* Nothing answers where the missing devices would be.
LEMMA MissingOutside ==
  ASSUME NEW d \in Missing, NEW r \in Registers(d)
  PROVE  Decode(CTRL_ADDR[d] + H(r)) = {}
<1>1. CASE d \in {"maskrom", "trapvec", "otp_mem", "clic"}
  <2>1. r \in Nat /\ r <= 49148
    BY <1>1 DEF Registers, ClicRegisters
  <2>2. H(r) \in Nat /\ H(r) <= 24574
    BY <2>1 DEF H
  <2>3. CTRL_ADDR[d] \in Nat /\ CTRL_ADDR[d] <= 4194304
    BY <1>1, SameBases
  <2>4. CTRL_ADDR[d] + H(r) \in Int /\ CTRL_ADDR[d] + H(r) < 16777216
    BY <2>2, <2>3
  <2>5. \A e \in Targets : CTRL_ADDR[d] + H(r) < Window(e).start
    BY <2>4, Windows
  <2> QED
    BY <2>4, <2>5, DecodeOutside
<1>2. CASE d = "otp"
  <2>1. r \in Nat /\ r <= 52
    BY <1>2 DEF Registers, OtpRegisters, Steps
  <2>2. H(r) \in Nat /\ H(r) <= 26
    BY <2>1 DEF H
  <2>3. CTRL_ADDR[d] = 134250496
    BY <1>2, SameBases
  <2>4. ASSUME NEW e \in Targets
        PROVE  \/ CTRL_ADDR[d] + H(r) < Window(e).start
               \/ Window(e).start + Window(e).size <= CTRL_ADDR[d] + H(r)
    BY <2>2, <2>3, Windows
  <2>5. CTRL_ADDR[d] + H(r) \in Int
    BY <2>2, <2>3
  <2> QED
    BY <2>4, <2>5, DecodeOutside
<1> QED
  BY <1>1, <1>2 DEF Missing

\* The register of the PRCI no window has.
LEMMA PrciOutside == H(\hF0) = 120 /\ Decode(Window("prci").start + 120) = {}
<1>1. Window("prci").start + 120 = 134234232
  BY Windows
<1>2. ASSUME NEW d \in Targets
      PROVE  134234232 < Window(d).start \/ Window(d).start + Window(d).size <= 134234232
  BY Windows
<1> QED
  BY <1>1, <1>2, DecodeOutside DEF H

\* The exceptions, device by device.
LEMMA MissingAccess ==
  ASSUME NEW a
  PROVE  a \in NotOnPlatform <=>
           \/ \E d \in Missing : a \in { [dev |-> d, off |-> H(r)] : r \in Registers(d) }
           \/ a \in {[dev |-> "prci", off |-> H(\hF0)]}
<1> DEFINE Of(d) == { [dev |-> d, off |-> H(r)] : r \in Registers(d) }
           one == {[dev |-> "prci", off |-> H(\hF0)]}
           all == UNION { Of(d) : d \in Missing }
<1>1. NotOnPlatform = all \cup one
  BY DEF NotOnPlatform, Missing
<1> HIDE DEF Of, one
<1>2. a \in all <=> \E d \in Missing : a \in Of(d)
  OBVIOUS
<1> HIDE DEF all
<1>3. a \in NotOnPlatform <=> a \in all \/ a \in one
  BY <1>1
<1> QED
  BY <1>2, <1>3 DEF Of, one

\* Every access the firmware means for a register.
LEMMA AccessReaches == Access => RegistersReached'
<1> SUFFICES ASSUME NEW d \in DOMAIN CTRL_ADDR, NEW r \in Registers(d),
                    [dev |-> d, off |-> H(r)] \notin BehindFlash
             PROVE  Decode(CTRL_ADDR[d] + H(r)) =
                      IF [dev |-> d, off |-> H(r)] \in NotOnPlatform THEN {}
                      ELSE {[dev |-> d, off |-> H(r)]}
  <2> SUFFICES ASSUME Access PROVE RegistersReached'
    OBVIOUS
  <2>0. PICK d \in DOMAIN CTRL_ADDR : \E r \in Registers(d) :
          bus' = [dev |-> d, off |-> H(r), reached |-> Decode(CTRL_ADDR[d] + H(r))]
    BY DEF Access
  <2>1. PICK r \in Registers(d) :
          bus' = [dev |-> d, off |-> H(r), reached |-> Decode(CTRL_ADDR[d] + H(r))]
    BY <2>0
  <2>2. bus'.dev = d /\ bus'.off = H(r) /\ bus'.reached = Decode(CTRL_ADDR[d] + H(r))
    BY <2>1
  <2> QED
    BY <2>2 DEF RegistersReached
<1> DEFINE asked == [dev |-> d, off |-> H(r)]
<1>1. asked \in NotOnPlatform <=> \/ d \in Missing /\ \E x \in Registers(d) : H(r) = H(x)
                                  \/ d = "prci" /\ H(r) = H(\hF0)
  <2>1. \A e \in Missing : asked \in { [dev |-> e, off |-> H(x)] : x \in Registers(e) }
                              <=> d = e /\ \E x \in Registers(e) : H(r) = H(x)
    OBVIOUS
  <2>2. asked \in {[dev |-> "prci", off |-> H(\hF0)]} <=> d = "prci" /\ H(r) = H(\hF0)
    OBVIOUS
  <2>3. asked \in NotOnPlatform <=>
          \/ \E e \in Missing : asked \in { [dev |-> e, off |-> H(x)] : x \in Registers(e) }
          \/ asked \in {[dev |-> "prci", off |-> H(\hF0)]}
    BY MissingAccess
  <2> HIDE DEF asked
  <2> QED
    BY <2>1, <2>2, <2>3
<1>2. CASE d \in Missing
  <2>1. asked \in NotOnPlatform
    BY <1>1, <1>2
  <2>2. Decode(CTRL_ADDR[d] + H(r)) = {}
    BY <1>2, MissingOutside
  <2> QED
    BY <2>1, <2>2
<1>3. CASE d \notin Missing /\ ~(d = "prci" /\ r = \hF0)
  <2>0. d \in Targets
    BY <1>3, SameBases
  <2>1. d \in Targets /\ CTRL_ADDR[d] = Window(d).start
    BY <2>0, SameBases
  <2>2. ~(d = "mem_qspi" /\ r = FlashEnd - 4)
    BY DEF BehindFlash
  <2>3. H(r) \in Nat /\ H(r) < Window(d).size /\ (H(r) = 120 => r \in {\hF0, \hF1})
    BY <1>3, <2>1, <2>2, RegistersInside
  <2>4. d = "prci" => H(r) # H(\hF0)
    BY <1>3, <2>3, PrciOutside DEF Registers, PrciRegisters
  <2>5. Decode(CTRL_ADDR[d] + H(r)) = {asked}
    BY <2>1, <2>3, DecodeInside
  <2> QED
    BY <1>1, <1>3, <2>4, <2>5
<1>4. CASE d = "prci" /\ r = \hF0
  <2>0. d \in Targets
    BY <1>4, SameBases DEF Missing
  <2>1. d \in Targets /\ CTRL_ADDR[d] = Window(d).start
    BY <2>0, SameBases
  <2>2. Decode(CTRL_ADDR[d] + H(r)) = {}
    BY <1>4, <2>1, PrciOutside
  <2> QED
    BY <1>1, <1>4, <2>2
<1> QED
  BY <1>2, <1>3, <1>4

\* The signals of a PWM.
LEMMA PwmSignals ==
  ASSUME NEW dev, NEW low \in Nat
  PROVE  PwmPins(dev, low) =
           { [dev |-> dev, sig |-> "cmp0", iof |-> 1, pin |-> low],
             [dev |-> dev, sig |-> "cmp1", iof |-> 1, pin |-> low + 1],
             [dev |-> dev, sig |-> "cmp2", iof |-> 1, pin |-> low + 2],
             [dev |-> dev, sig |-> "cmp3", iof |-> 1, pin |-> low + 3] }
  BY DEF PwmPins, PinsOf
P(dev, sig, iof, n) == [dev |-> dev, sig |-> sig, iof |-> iof, pin |-> n]

\* The bindings, one by one.
LEMMA BoundPinList ==
  BoundPins =
    { P("qspi1", "sck", 0, 5), P("qspi1", "mosi", 0, 3), P("qspi1", "miso", 0, 4),
      P("qspi1", "scs0", 0, 2), P("qspi1", "scs2", 0, 9), P("qspi1", "scs3", 0, 10),
      P("uart1", "tx", 0, 16), P("uart1", "rx", 0, 17),
      P("pwm0", "cmp0", 1, 0), P("pwm0", "cmp1", 1, 1), P("pwm0", "cmp2", 1, 2), P("pwm0", "cmp3", 1, 3),
      P("pwm1", "cmp0", 1, 19), P("pwm1", "cmp1", 1, 20), P("pwm1", "cmp2", 1, 21), P("pwm1", "cmp3", 1, 22),
      P("pwm2", "cmp0", 1, 10), P("pwm2", "cmp1", 1, 11), P("pwm2", "cmp2", 1, 12), P("pwm2", "cmp3", 1, 13) }
<1>1. PinsOf("qspi1", 0, [sck |-> 5, mosi |-> 3, miso |-> 4, scs0 |-> 2, scs2 |-> 9, scs3 |-> 10]) =
        { P("qspi1", "sck", 0, 5), P("qspi1", "mosi", 0, 3), P("qspi1", "miso", 0, 4),
          P("qspi1", "scs0", 0, 2), P("qspi1", "scs2", 0, 9), P("qspi1", "scs3", 0, 10) }
  BY DEF PinsOf, P
<1>2. PinsOf("uart1", 0, [tx |-> 16, rx |-> 17]) = { P("uart1", "tx", 0, 16), P("uart1", "rx", 0, 17) }
  BY DEF PinsOf, P
<1>3. PwmPins("pwm0", 0) = { P("pwm0", "cmp0", 1, 0), P("pwm0", "cmp1", 1, 1), P("pwm0", "cmp2", 1, 2), P("pwm0", "cmp3", 1, 3) }
  BY PwmSignals DEF P
<1>4. PwmPins("pwm1", 19) = { P("pwm1", "cmp0", 1, 19), P("pwm1", "cmp1", 1, 20), P("pwm1", "cmp2", 1, 21), P("pwm1", "cmp3", 1, 22) }
  BY PwmSignals DEF P
<1>5. PwmPins("pwm2", 10) = { P("pwm2", "cmp0", 1, 10), P("pwm2", "cmp1", 1, 11), P("pwm2", "cmp2", 1, 12), P("pwm2", "cmp3", 1, 13) }
  BY PwmSignals DEF P
<1> QED
  BY <1>1, <1>2, <1>3, <1>4, <1>5 DEF BoundPins

\* The firmware's signals, one by one.
LEMMA IofList ==
  IOF =
    { P("qspi1", "scs0", 0, 2), P("qspi1", "scs1", 0, 8), P("qspi1", "scs2", 0, 9),
      P("qspi1", "scs3", 0, 10), P("qspi1", "mosi", 0, 3), P("qspi1", "miso", 0, 4),
      P("qspi1", "sck", 0, 5), P("qspi1", "dq2", 0, 6), P("qspi1", "dq3", 0, 7),
      P("qspi2", "scs0", 0, 26), P("qspi2", "mosi", 0, 27), P("qspi2", "miso", 0, 28),
      P("qspi2", "sck", 0, 29), P("qspi2", "dq2", 0, 30), P("qspi2", "dq3", 0, 31),
      P("uart0", "rx", 0, 16), P("uart0", "tx", 0, 17), P("uart1", "rx", 0, 24), P("uart1", "tx", 0, 25),
      P("pwm0", "cmp0", 1, 0), P("pwm0", "cmp1", 1, 1), P("pwm0", "cmp2", 1, 2), P("pwm0", "cmp3", 1, 3),
      P("pwm1", "cmp0", 1, 19), P("pwm1", "cmp1", 1, 20), P("pwm1", "cmp2", 1, 21), P("pwm1", "cmp3", 1, 22),
      P("pwm2", "cmp0", 1, 10), P("pwm2", "cmp1", 1, 11), P("pwm2", "cmp2", 1, 12), P("pwm2", "cmp3", 1, 13) }
<1>1. PinsOf("qspi1", 0, [scs0 |-> 2, scs1 |-> 8, scs2 |-> 9, scs3 |-> 10, mosi |-> 3, miso |-> 4,
                          sck |-> 5, dq2 |-> 6, dq3 |-> 7]) =
        { P("qspi1", "scs0", 0, 2), P("qspi1", "scs1", 0, 8), P("qspi1", "scs2", 0, 9),
          P("qspi1", "scs3", 0, 10), P("qspi1", "mosi", 0, 3), P("qspi1", "miso", 0, 4),
          P("qspi1", "sck", 0, 5), P("qspi1", "dq2", 0, 6), P("qspi1", "dq3", 0, 7) }
  BY DEF PinsOf, P
<1>2. PinsOf("qspi2", 0, [scs0 |-> 26, mosi |-> 27, miso |-> 28, sck |-> 29, dq2 |-> 30, dq3 |-> 31]) =
        { P("qspi2", "scs0", 0, 26), P("qspi2", "mosi", 0, 27), P("qspi2", "miso", 0, 28),
          P("qspi2", "sck", 0, 29), P("qspi2", "dq2", 0, 30), P("qspi2", "dq3", 0, 31) }
  BY DEF PinsOf, P
<1>3. PinsOf("uart0", 0, [rx |-> 16, tx |-> 17]) = { P("uart0", "rx", 0, 16), P("uart0", "tx", 0, 17) }
  BY DEF PinsOf, P
<1>4. PinsOf("uart1", 0, [rx |-> 24, tx |-> 25]) = { P("uart1", "rx", 0, 24), P("uart1", "tx", 0, 25) }
  BY DEF PinsOf, P
<1>5. PwmPins("pwm0", 0) = { P("pwm0", "cmp0", 1, 0), P("pwm0", "cmp1", 1, 1), P("pwm0", "cmp2", 1, 2), P("pwm0", "cmp3", 1, 3) }
  BY PwmSignals DEF P
<1>6. PwmPins("pwm1", 19) = { P("pwm1", "cmp0", 1, 19), P("pwm1", "cmp1", 1, 20), P("pwm1", "cmp2", 1, 21), P("pwm1", "cmp3", 1, 22) }
  BY PwmSignals DEF P
<1>7. PwmPins("pwm2", 10) = { P("pwm2", "cmp0", 1, 10), P("pwm2", "cmp1", 1, 11), P("pwm2", "cmp2", 1, 12), P("pwm2", "cmp3", 1, 13) }
  BY PwmSignals DEF P
<1> QED
  BY <1>1, <1>2, <1>3, <1>4, <1>5, <1>6, <1>7 DEF IOF

\* What is bound to the pin of a signal.
BoundTo(p) == { q \in BoundPins : q.iof = p.iof /\ q.pin = p.pin }

\* A pin, not of UART0, with nothing or the signal itself behind it.
LEMMA BoundToSignal ==
  ASSUME NEW p \in IOF
  PROVE  /\ p.dev \in {"qspi2", "uart1"} \/ p.sig \in {"scs1", "dq2", "dq3"} => BoundTo(p) = {}
         /\ p.dev = "uart0" => p.sig \in {"rx", "tx"}
         /\ p.dev \notin {"qspi2", "uart1", "uart0"} /\ p.sig \notin {"scs1", "dq2", "dq3"} =>
              BoundTo(p) = {p}
<1>1. ASSUME p.dev \in {"qspi2", "uart1"} \/ p.sig \in {"scs1", "dq2", "dq3"}
      PROVE  BoundTo(p) = {}
  <2>1. p.iof = 0 /\ p.pin \in {6, 7, 8} \cup 24 .. 31
    BY <1>1, IofList DEF P
  <2> QED
    BY <2>1, BoundPinList DEF BoundTo, P
<1>2. p.dev = "uart0" => p = P("uart0", "rx", 0, 16) \/ p = P("uart0", "tx", 0, 17)
  BY IofList DEF P
<1>5. ASSUME p.dev \notin {"qspi2", "uart1", "uart0"}, p.sig \notin {"scs1", "dq2", "dq3"}
      PROVE  BoundTo(p) = {p}
  <2>1. p \in BoundPins
    BY <1>5, IofList, BoundPinList DEF P
  <2>2. ASSUME NEW q \in BoundPins, q.iof = p.iof, q.pin = p.pin PROVE q = p
    BY <2>1, <2>2, BoundPinList DEF P
  <2> QED
    BY <2>1, <2>2 DEF BoundTo
<1> QED
  BY <1>1, <1>2, <1>5 DEF P

\* Every signal the firmware selects.
LEMMA SelectCarries == SelectPin => PinsCarry'
<1> SUFFICES ASSUME NEW p \in IOF,
                    pin' = [dev |-> p.dev, sig |-> p.sig,
                            carries |-> { [dev |-> q.dev, sig |-> q.sig] : q \in BoundTo(p) }]
             PROVE  PinsCarry'
  BY DEF SelectPin, BoundTo
<1> DEFINE asked == [dev |-> p.dev, sig |-> p.sig]
           carries == { [dev |-> q.dev, sig |-> q.sig] : q \in BoundTo(p) }
<1>1. pin'.dev = p.dev /\ pin'.sig = p.sig /\ pin'.carries = carries
  OBVIOUS
<1>2. asked \in CrossedPins <=> p.dev = "uart0"
  BY BoundToSignal DEF CrossedPins
<1>3. asked \in UnboundPins <=> p.dev \in {"qspi2", "uart1"} \/ p.sig \in {"scs1", "dq2", "dq3"}
  <2>1. \A q \in IOF : asked = [dev |-> q.dev, sig |-> q.sig] => q.dev = p.dev /\ q.sig = p.sig
    OBVIOUS
  <2> QED
    BY <2>1 DEF UnboundPins
<1>4. CASE p.dev = "uart0"
  BY <1>1, <1>2, <1>4 DEF PinsCarry
<1>5. CASE p.dev # "uart0" /\ asked \in UnboundPins
  <2>1. carries = {}
    BY <1>3, <1>5, BoundToSignal
  <2> QED
    BY <1>1, <1>2, <1>5, <2>1 DEF PinsCarry
<1>6. CASE p.dev # "uart0" /\ asked \notin UnboundPins
  <2>1. carries = {asked}
    BY <1>3, <1>6, BoundToSignal
  <2> QED
    BY <1>1, <1>2, <1>6, <2>1 DEF PinsCarry
<1> QED
  BY <1>4, <1>5, <1>6

\* A line the handler takes a source for is the line that has the source.
LEMMA SourcesNameTheirLines ==
  \A l \in Lines : NameOf(SourceOf(l)) = l /\ SourceOf(l) \in 1 .. PLIC_NUM_INTERRUPTS - 1
<1>1. DOMAIN INT_BASE = {"wdogcmp", "rtccmp", "uart0", "uart1", "qspi0", "qspi1", "qspi2",
                         "gpio0", "pwm0", "pwm1", "pwm2"}
  BY DEF INT_BASE
<1>2. ASSUME NEW l \in Lines
      PROVE  /\ l = [dev |-> l.dev, line |-> l.line]
             /\ l.dev \in DOMAIN INT_BASE
             /\ l.line \in 1 .. 4 /\ (l.dev \notin {"pwm0", "pwm1", "pwm2"} => l.line = 1)
             /\ l.dev \notin {"wdogcmp", "rtccmp", "gpio0"}
             /\ SourceOf(l) = INT_BASE[l.dev] + l.line - 1
  <2>1. PICK d \in DOMAIN Wired : \E i \in DOMAIN Wired[d] : l = [dev |-> d, line |-> i]
    BY DEF Lines
  <2>2. PICK i \in DOMAIN Wired[d] : l = [dev |-> d, line |-> i]
    BY <2>1
  <2>3. d \in {"uart0", "uart1", "qspi0", "qspi1", "qspi2", "pwm0", "pwm1", "pwm2"}
    BY DEF Wired
  <2>4. /\ l.dev = d /\ l.line = i
        /\ i \in 1 .. 4 /\ (d \notin {"pwm0", "pwm1", "pwm2"} => i = 1)
        /\ Wired[d][i] = INT_BASE[d] + i - 1
    BY <2>2, <2>3 DEF Wired, INT_BASE
  <2> QED
    BY <1>1, <2>2, <2>3, <2>4 DEF SourceOf
<1>3. ASSUME NEW l \in Lines PROVE NameOf(SourceOf(l)) = l
  <2> DEFINE n == SourceOf(l)
             Is(e) == /\ INT_BASE[e] <= n
                      /\ \A f \in DOMAIN INT_BASE : INT_BASE[f] <= n => INT_BASE[f] <= INT_BASE[e]
  <2>1. \A e \in DOMAIN INT_BASE : Is(e) <=> e = l.dev
    BY <1>1, <1>2 DEF INT_BASE
  <2>2. (CHOOSE e \in DOMAIN INT_BASE : Is(e)) = l.dev
    <3> HIDE DEF Is
    <3> QED
      BY <1>2, <2>1
  <2>3. NameOf(n) = [dev |-> l.dev, line |-> n - INT_BASE[l.dev] + 1]
    BY <2>2 DEF NameOf
  <2>4. n - INT_BASE[l.dev] + 1 = l.line
    BY <1>1, <1>2 DEF INT_BASE
  <2> QED
    BY <1>2, <2>3, <2>4
<1>4. ASSUME NEW l \in Lines PROVE SourceOf(l) \in 1 .. PLIC_NUM_INTERRUPTS - 1
  BY <1>1, <1>2 DEF INT_BASE, PLIC_NUM_INTERRUPTS
<1> QED
  BY <1>3, <1>4

\* Lines are raised only where there is one, and a source claimed is that of
\* the line it is served as.
Claim == [source : Nat, line : Lines]

PlatformInv ==
  /\ RegistersReached /\ PinsCarry /\ InterruptsFindTheirDevice
  /\ raised \subseteq Lines
  /\ claims \in Seq(Claim)
  /\ \A i \in 1 .. Len(claims) : claims[i].source = SourceOf(claims[i].line)

\* The claims are a sequence.
LEMMA ClaimFacts ==
  ASSUME PlatformInv
  PROVE  /\ Len(claims) \in Nat /\ DOMAIN claims = 1 .. Len(claims)
         /\ \A i \in 1 .. Len(claims) : claims[i] \in Claim
  BY ElementOfSeq, LenProperties DEF PlatformInv

\* A claim: no other handler serves the line.
LEMMA ClaimKeeps == ASSUME PlatformInv, ClaimSource PROVE PlatformInv'
<1> DEFINE n == Len(claims)
<1>1. PICK l \in Pending : claims' = Append(claims, [source |-> SourceOf(l), line |-> NameOf(SourceOf(l))])
  BY DEF ClaimSource
<1> DEFINE c == [source |-> SourceOf(l), line |-> l]
<1>2. /\ l \in raised /\ l \in Lines /\ SourceOf(l) \notin ClaimedSources
      /\ NameOf(SourceOf(l)) = l /\ SourceOf(l) \in 1 .. PLIC_NUM_INTERRUPTS - 1
  BY SourcesNameTheirLines DEF Pending, PlatformInv
<1>3. SourceOf(l) \in Nat /\ SourceOf(l) < PLIC_NUM_INTERRUPTS
  BY <1>2 DEF PLIC_NUM_INTERRUPTS
<1>4. c \in Claim /\ c.source = SourceOf(l) /\ c.line = l
  BY <1>2, <1>3 DEF Claim
<1>5. claims \in Seq(Claim) /\ claims' = Append(claims, c) /\ UNCHANGED <<bus, pin, raised>>
  BY <1>1, <1>2 DEF PlatformInv, ClaimSource
<1> HIDE DEF c
<1>6. /\ claims' \in Seq(Claim) /\ Len(claims') = n + 1
      /\ \A i \in 1 .. n : claims'[i] = claims[i]
      /\ claims'[n + 1] = c
  BY <1>4, <1>5, AppendProperties
<1>7. \A i \in 1 .. n : claims[i].line # l
  BY <1>2, ClaimFacts DEF PlatformInv, ClaimedSources
<1>8. \A i \in 1 .. n + 1 : i \in 1 .. n \/ i = n + 1
  BY ClaimFacts
<1>9. InterruptsFindTheirDevice'
  <2>1. \A i \in 1 .. n + 1 : claims'[i].line \in raised /\ claims'[i].source < PLIC_NUM_INTERRUPTS
    BY <1>2, <1>3, <1>4, <1>6, <1>8 DEF PlatformInv, InterruptsFindTheirDevice
  <2>2. \A i, j \in 1 .. n + 1 : claims'[i].line = claims'[j].line => i = j
    BY <1>4, <1>6, <1>7, <1>8 DEF PlatformInv, InterruptsFindTheirDevice
  <2> QED
    BY <2>1, <2>2, <1>5, <1>6 DEF InterruptsFindTheirDevice
<1>10. \A i \in 1 .. n + 1 : claims'[i].source = SourceOf(claims'[i].line)
  BY <1>4, <1>6, <1>8 DEF PlatformInv
<1> QED
  BY <1>5, <1>6, <1>9, <1>10 DEF PlatformInv, RegistersReached, PinsCarry

\* Serving the innermost claim leaves the lines of the others raised.
LEMMA ServeKeeps == ASSUME PlatformInv, ServeSource PROVE PlatformInv'
<1> DEFINE n == Len(claims)
<1>1. /\ claims # << >> /\ claims \in Seq(Claim) /\ n \in Nat /\ n # 0
      /\ claims' = SubSeq(claims, 1, n - 1)
      /\ raised' = raised \ {claims[n].line} /\ UNCHANGED <<bus, pin>>
  BY ClaimFacts, EmptySeq DEF ServeSource, PlatformInv
<1>2. /\ claims' \in Seq(Claim) /\ Len(claims') = n - 1
      /\ \A i \in 1 .. n - 1 : claims'[i] = claims[i]
  BY <1>1, FrontContexts
<1>3. n \in 1 .. n /\ \A i \in 1 .. n - 1 : i \in 1 .. n /\ i # n
  BY <1>1
<1>4. InterruptsFindTheirDevice'
  <2>1. \A i \in 1 .. n - 1 : claims[i].line \in raised' /\ claims[i].source < PLIC_NUM_INTERRUPTS
    BY <1>1, <1>3 DEF PlatformInv, InterruptsFindTheirDevice
  <2>2. \A i, j \in 1 .. n - 1 : claims[i].line = claims[j].line => i = j
    BY <1>3 DEF PlatformInv, InterruptsFindTheirDevice
  <2> QED
    BY <2>1, <2>2, <1>2 DEF InterruptsFindTheirDevice
<1>5. \A i \in 1 .. n - 1 : claims'[i].source = SourceOf(claims'[i].line)
  BY <1>2, <1>3 DEF PlatformInv
<1> QED
  BY <1>1, <1>2, <1>4, <1>5 DEF PlatformInv, RegistersReached, PinsCarry

-----------------------------------------------------------------------------
(* The whole *)

\* A step of the whole is a step or a stutter of the launcher and of the
\* firmware.
LEMMA PartSteps ==
  ASSUME [BootNext]_bootVars
  PROVE  [LauncherNext]_launcherVars /\ [StartupNext]_startupVars
<1>1. CASE UNCHANGED bootVars
  BY <1>1 DEF bootVars
<1>2. CASE Host \/ HoldReset \/ ReleaseReset
  BY <1>2 DEF Host, HoldReset, ReleaseReset
<1>3. CASE LoadImage \/ InitReturns \/ StartMain \/ RunMain
  BY <1>3 DEF LoadImage, InitReturns, StartMain, RunMain, Core, StartupNext
<1>4. CASE UseRegister \/ ChoosePin \/ RaiseLine
  BY <1>4 DEF UseRegister, ChoosePin, RaiseLine, Core
<1>5. CASE TakeTrap
  BY <1>5 DEF TakeTrap, Core, StartupNext
<1>6. CASE DispatchTrap \/ RunHandler
  BY <1>6 DEF DispatchTrap, RunHandler, Core, StartupNext
<1> QED
  BY <1>1, <1>2, <1>3, <1>4, <1>5, <1>6 DEF BootNext

\* What a step of the whole does to the platform.
LEMMA PlatformSteps ==
  ASSUME [BootNext]_bootVars
  PROVE  \/ UNCHANGED platformVars
         \/ Access \/ SelectPin \/ Raise \/ ClaimSource \/ ServeSource
         \/ bus' = NoAccess /\ UNCHANGED <<pin, raised, claims>>
         \/ pin' = NoPin /\ UNCHANGED <<bus, raised, claims>>
<1>1. CASE UNCHANGED bootVars
  BY <1>1 DEF bootVars
<1>2. CASE Host \/ HoldReset \/ ReleaseReset
  BY <1>2 DEF Host, HoldReset, ReleaseReset
<1>3. CASE LoadImage \/ InitReturns \/ StartMain \/ RunMain
  BY <1>3 DEF LoadImage, InitReturns, StartMain, RunMain, Core
<1>4. CASE UseRegister \/ ChoosePin \/ RaiseLine
  BY <1>4 DEF UseRegister, ChoosePin, RaiseLine, Core
<1>5. CASE TakeTrap
  BY <1>5 DEF TakeTrap, Core
<1>6. CASE DispatchTrap \/ RunHandler
  BY <1>6 DEF DispatchTrap, RunHandler, Core
<1> QED
  BY <1>1, <1>2, <1>3, <1>4, <1>5, <1>6 DEF BootNext

\* Every step keeps what the two sides agree on.
LEMMA PlatformStep == ASSUME PlatformInv, [BootNext]_bootVars PROVE PlatformInv'
<1>1. CASE UNCHANGED platformVars
  BY <1>1 DEF platformVars, PlatformInv, RegistersReached, PinsCarry, InterruptsFindTheirDevice
<1>2. CASE Access
  BY <1>2, AccessReaches DEF Access, PlatformInv, PinsCarry, InterruptsFindTheirDevice
<1>3. CASE SelectPin
  BY <1>3, SelectCarries DEF SelectPin, PlatformInv, RegistersReached, InterruptsFindTheirDevice
<1>4. CASE Raise
  <2>1. raised \subseteq raised' /\ raised' \subseteq Lines /\ UNCHANGED <<bus, pin, claims>>
    BY <1>4 DEF Raise, PlatformInv
  <2> QED
    BY <2>1 DEF PlatformInv, RegistersReached, PinsCarry, InterruptsFindTheirDevice
<1>5. CASE ClaimSource
  BY <1>5, ClaimKeeps
<1>6. CASE ServeSource
  BY <1>6, ServeKeeps
<1>7. CASE bus' = NoAccess /\ UNCHANGED <<pin, raised, claims>>
  BY <1>7 DEF NoAccess, PlatformInv, RegistersReached, PinsCarry, InterruptsFindTheirDevice
<1>8. CASE pin' = NoPin /\ UNCHANGED <<bus, raised, claims>>
  BY <1>8 DEF NoPin, PlatformInv, RegistersReached, PinsCarry, InterruptsFindTheirDevice
<1> QED
  BY <1>1, <1>2, <1>3, <1>4, <1>5, <1>6, <1>7, <1>8, PlatformSteps

(* The platform the firmware runs on has the parameters of the command     *)
(* line and, where it gives none, those of the file or of the model, but   *)
(* for the four the launcher sets from defaults of its own; for every      *)
(* command line, file and model (sc_main.cpp).                             *)
THEOREM CommandLineWins == BootSpec => []OptionsWin
<1>1. BootInit => LauncherInv
  BY DEF BootInit, LauncherInit, LauncherInv, OptionsWin
<1>2. LauncherInv /\ [BootNext]_bootVars => LauncherInv'
  BY PartSteps, LauncherStep
<1>3. LauncherInv => OptionsWin
  BY DEF LauncherInv
<1> QED
  BY <1>1, <1>2, <1>3, PTL DEF BootSpec

(* The two tables agree, however many lines are raised and handlers open:  *)
(* every register of the headers, every pin and every source is on the     *)
(* platform what the firmware takes it for, or is listed as not there; but *)
(* for the pins of UART0 and the end of the flash, of which nothing is     *)
(* said (system.cpp, platform_mmap.h, platform.h).                         *)
THEOREM TablesAgree == BootSpec => []PlatformAgrees
<1>1. BootInit => PlatformInv
  <2>1. claims = << >> => Len(claims) = 0 /\ claims \in Seq(Claim)
    BY EmptySeq
  <2> QED
    BY <2>1 DEF BootInit, PlatformInit, NoAccess, NoPin, PlatformInv, RegistersReached, PinsCarry,
                InterruptsFindTheirDevice
<1>2. PlatformInv /\ [BootNext]_bootVars => PlatformInv'
  BY PlatformStep
<1>3. DOMAIN INT_BASE \ DOMAIN Wired = Unwired
  BY DEF INT_BASE, Wired, Unwired
<1>4. PlatformInv => PlatformAgrees
  BY <1>3 DEF PlatformInv, PlatformAgrees
<1> QED
  BY <1>1, <1>2, <1>4, PTL DEF BootSpec

(* The firmware on the platform, stopped and reset by the host, is the     *)
(* firmware: what is proved of Startup holds of the whole.                 *)
THEOREM FirmwareRuns == BootSpec => StartupSpec
<1>1. BootInit => StartupInit
  BY DEF BootInit
<1>2. [BootNext]_bootVars => [StartupNext]_startupVars
  BY PartSteps
<1> QED
  BY <1>1, <1>2, PTL DEF BootSpec, StartupSpec

(* The image is loaded and traps are transparent on the platform, too.     *)
THEOREM BootSafe == BootSpec => []ImageReady /\ TrapTransparent
  BY FirmwareRuns, ImageLoaded, TrapsAreTransparent, PTL
=============================================================================
