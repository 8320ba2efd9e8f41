---------------------------- MODULE ConsoleProofs ---------------------------
(***************************************************************************)
(* Proofs about Console: for every FIFO depth, every list of output calls  *)
(* of the three contexts and every number of interrupts.                   *)
(***************************************************************************)
EXTENDS Console, Induction

Stores == {"store", "store_cr"}
Polls  == {"poll", "poll_cr"}

\* A store of context c that an interrupt has cut off from its poll, and that
\* may therefore find the FIFO full.
Debt(c) ==
  IF /\ pc[c] \in Stores
     /\ running = "irq" \/ (running = c /\ Len(fifo) = Depth)
    THEN 1 ELSE 0

\* A context that nothing interrupts after its poll finds room in the FIFO.
RoomInv ==
  /\ Len(fifo) <= Depth
  /\ \A c \in {"irq", "trap"} : running = c /\ pc[c] \in Stores => Len(fifo) < Depth

\* A context that has not been entered is not in the middle of a call, and
\* one in the middle of a call has a byte to store.
FlowInv ==
  /\ running = "main" => pc["irq"] = "next"
  /\ running # "trap" => pc["trap"] = "next"
  /\ \A c \in {"irq", "trap"} : pc[c] # "boot"
  /\ \A c \in Contexts : pc[c] \in Stores \cup Polls => todo[c] # <<>>

IInv ==
  /\ TypeOK
  /\ FlowInv
  /\ RoomInv
  /\ lost + Debt("main") <= irqs

\* The non-empty rest of a sequence.
LEMMA TailType ==
  ASSUME NEW S, NEW s \in Seq(S), s # <<>>
  PROVE  /\ Head(s) \in S
         /\ Tail(s) \in Seq(S)
         /\ Len(Tail(s)) = Len(s) - 1
         /\ Len(s) \in Nat \ {0}
         /\ Len(s) > 1 => Tail(s) # <<>>
<1>1. Head(s) \in S /\ Tail(s) \in Seq(S) /\ Len(Tail(s)) = Len(s) - 1
  BY HeadTailProperties
<1>2. Len(s) \in Nat \ {0}
  BY EmptySeq
<1>3. Len(s) > 1 => Len(Tail(s)) # 0
  BY <1>1, <1>2
<1>4. Tail(s) = <<>> => Len(Tail(s)) = 0
  BY EmptySeq
<1> QED
  BY <1>1, <1>2, <1>3, <1>4

\* At reset nothing has been printed and nothing interrupted.
LEMMA InitIInv == Init => IInv
<1> SUFFICES ASSUME Init PROVE IInv
  OBVIOUS
<1>1. TypeOK
  <2>1. \A S : <<>> \in Seq(S)
    BY EmptySeq
  <2>2. calls \in [Contexts -> Seq(CallRecords)]
    BY <2>1, ConsoleAssumption DEF Init
  <2>3. pc \in [Contexts -> Labels]
    BY DEF Init, Labels
  <2>4. todo \in [Contexts -> Seq(Bytes \ {"cr"})] /\ sent \in [Contexts -> Seq(Bytes)]
    BY <2>1 DEF Init
  <2>5. fifo \in Seq(Bytes) /\ out \in Seq(Bytes)
    BY <2>1 DEF Init
  <2>6. irqs \in 0 .. MaxIrqs /\ lost \in Nat
    BY ConsoleAssumption DEF Init
  <2> QED
    BY <2>2, <2>3, <2>4, <2>5, <2>6 DEF Init, TypeOK, Contexts
<1>2. FlowInv
  BY DEF Init, FlowInv, Contexts, Stores, Polls
<1>3. RoomInv
  BY ConsoleAssumption DEF Init, RoomInv, Stores
<1>4. lost + Debt("main") <= irqs
  BY DEF Init, Debt, Stores, Contexts
<1> QED
  BY <1>1, <1>2, <1>3, <1>4 DEF IInv

\* The transmitter sends the oldest byte of the FIFO.
LEMMA DrainStep == IInv /\ Drain => IInv'
<1> SUFFICES ASSUME IInv, Drain PROVE IInv'
  OBVIOUS
<1> USE DEF IInv, Drain
<1>1. /\ Head(fifo) \in Bytes /\ Tail(fifo) \in Seq(Bytes)
      /\ Len(Tail(fifo)) = Len(fifo) - 1 /\ Len(fifo) \in Nat
  BY TailType DEF TypeOK
<1>2. TypeOK'
  BY <1>1 DEF TypeOK
<1>3. FlowInv'
  BY DEF FlowInv
<1>4. RoomInv'
  BY <1>1, ConsoleAssumption DEF RoomInv
<1>5. Debt("main")' <= Debt("main") /\ Debt("main") \in Nat /\ Debt("main")' \in Nat
  <2>1. Len(fifo') # Depth
    <3>1. fifo' = Tail(fifo) /\ Len(fifo) <= Depth /\ Depth \in Nat
      BY ConsoleAssumption DEF RoomInv
    <3>2. ASSUME NEW n \in Nat, NEW m, m = n - 1, n <= Depth PROVE m # Depth
      BY <3>1, <3>2
    <3> QED
      BY <1>1, <3>1, <3>2
  <2> QED
    BY <2>1 DEF Debt
<1> QED
  BY <1>2, <1>3, <1>4, <1>5 DEF TypeOK

\* The steps that change the context, and uart_init.
LEMMA SwitchStep ==
  IInv /\ (UartInit \/ Interrupt \/ IrqReturn \/ FatalTrap) => IInv'
<1> SUFFICES ASSUME IInv, UartInit \/ Interrupt \/ IrqReturn \/ FatalTrap PROVE IInv'
  OBVIOUS
<1> USE DEF IInv, uart
<1>1. TypeOK'
  <2>1. calls' \in [Contexts -> Seq(CallRecords)]
    <3>1. IrqCalls \subseteq Seq(CallRecords) /\ TrapCalls \in Seq(CallRecords)
      BY ConsoleAssumption
    <3> QED
      BY <3>1 DEF UartInit, Interrupt, IrqReturn, FatalTrap, TypeOK
  <2>2. pc' \in [Contexts -> Labels]
    BY DEF UartInit, Interrupt, IrqReturn, FatalTrap, TypeOK, Labels
  <2>3. irqs' \in 0 .. MaxIrqs
    BY ConsoleAssumption DEF UartInit, Interrupt, IrqReturn, FatalTrap, TypeOK
  <2> QED
    BY <2>1, <2>2, <2>3 DEF UartInit, Interrupt, IrqReturn, FatalTrap, TypeOK, Contexts
<1>2. FlowInv'
  BY DEF UartInit, Interrupt, IrqReturn, FatalTrap, FlowInv, TypeOK, Contexts, Labels, Stores, Polls
<1>3. RoomInv'
  BY DEF UartInit, Interrupt, IrqReturn, FatalTrap, RoomInv, FlowInv, TypeOK, Contexts, Stores
<1>4. lost' + Debt("main")' <= irqs'
  <2>1. lost' = lost /\ lost \in Nat /\ irqs \in Nat /\ Debt("main") \in {0, 1} /\ Debt("main")' \in {0, 1}
    BY DEF UartInit, Interrupt, IrqReturn, FatalTrap, TypeOK, Debt
  <2> HIDE DEF IInv
  <2>0. lost + Debt("main") <= irqs
    BY DEF IInv
  <2>2. CASE Interrupt
    <3>1. irqs' = irqs + 1
      BY <2>2 DEF Interrupt
    <3> QED
      BY <2>0, <2>1, <3>1
  <2>3. CASE UartInit \/ IrqReturn \/ FatalTrap
    <3>1. irqs' = irqs
      BY <2>3 DEF UartInit, IrqReturn, FatalTrap
    <3>2. Debt("main")' <= Debt("main")
      BY <2>3 DEF IInv, UartInit, IrqReturn, FatalTrap, Debt, TypeOK, Contexts, Stores
    <3> QED
      BY <2>0, <2>1, <3>1, <3>2
  <2> QED
    BY <2>2, <2>3
<1> QED
  BY <1>1, <1>2, <1>3, <1>4

\* The start of a write, and its look at TXFIFO.full.
LEMMA BeginPollStep ==
  ASSUME IInv, NEW c \in Contexts, Begin(c) \/ Poll(c)
  PROVE  IInv'
<1> USE DEF IInv, uart
<1>1. CASE Begin(c)
  <2> DEFINE call == Head(calls[c])
  <2>1. /\ call \in CallRecords /\ Tail(calls[c]) \in Seq(CallRecords)
        /\ call.buf \in Seq(Bytes \ {"cr"})
    <3>1. calls[c] \in Seq(CallRecords) /\ calls[c] # <<>>
      BY <1>1 DEF Begin, TypeOK
    <3>2. call \in CallRecords /\ Tail(calls[c]) \in Seq(CallRecords)
      BY <3>1, TailType
    <3> QED
      BY <3>2 DEF CallRecords
  <2>2. /\ UNCHANGED <<txen, fifo, out, running, irqs, lost, sent>>
        /\ running = c /\ pc[c] = "next"
        /\ calls' = [calls EXCEPT ![c] = Tail(calls[c])]
        /\ \/ /\ todo' = [todo EXCEPT ![c] = call.buf] /\ call.buf # <<>>
              /\ pc' = [pc EXCEPT ![c] = "poll"]
           \/ UNCHANGED <<todo, pc>>
    BY <1>1 DEF Begin
  <2>3. TypeOK'
    BY <2>1, <2>2 DEF TypeOK, Labels
  <2>4. FlowInv'
    BY <2>2 DEF FlowInv, TypeOK, Contexts, Stores, Polls
  <2>5. RoomInv'
    BY <2>2 DEF RoomInv, TypeOK, Contexts, Stores
  <2>6. Debt("main")' = Debt("main")
    BY <2>2 DEF Debt, TypeOK, Contexts, Stores
  <2> QED
    BY <2>2, <2>3, <2>4, <2>5, <2>6
<1>2. CASE Poll(c)
  <2>1. /\ UNCHANGED <<txen, fifo, out, running, calls, todo, irqs, lost, sent>>
        /\ running = c /\ pc[c] \in Polls /\ Len(fifo) < Depth
        /\ \E l \in Stores : pc' = [pc EXCEPT ![c] = l]
    BY <1>2 DEF Poll, Polls, Stores
  <2>2. TypeOK'
    BY <2>1 DEF TypeOK, Labels, Stores
  <2>3. FlowInv'
    BY <2>1 DEF FlowInv, TypeOK, Contexts, Stores, Polls
  <2>4. RoomInv'
    BY <2>1 DEF RoomInv, TypeOK, Contexts, Stores
  <2>5. Debt("main")' = 0 \/ Debt("main")' = Debt("main")
    BY <2>1 DEF Debt, TypeOK, Contexts, Stores
  <2>6. Debt("main") \in {0, 1}
    BY DEF Debt
  <2> QED
    BY <2>1, <2>2, <2>3, <2>4, <2>5, <2>6 DEF TypeOK
<1> QED
  BY <1>1, <1>2

\* A byte goes into the FIFO, or is dropped when a handler has filled it.
LEMMA StoreStep ==
  ASSUME IInv, NEW c \in Contexts, Store(c) \/ StoreCr(c)
  PROVE  IInv'
<1> USE DEF IInv
<1>1. /\ todo[c] \in Seq(Bytes \ {"cr"}) /\ todo[c] # <<>>
      /\ pc[c] \in Stores /\ running = c
  BY DEF Store, StoreCr, FlowInv, Stores, Polls, TypeOK
<1>2. /\ Head(todo[c]) \in Bytes /\ Tail(todo[c]) \in Seq(Bytes \ {"cr"})
      /\ (Len(todo[c]) > 1 => Tail(todo[c]) # <<>>)
  BY <1>1, TailType
<1>3. PICK b \in Bytes : Push(c, b)
  BY <1>2 DEF Store, StoreCr, Bytes
<1>4. /\ UNCHANGED <<running, calls, irqs>>
      /\ \/ pc' = [pc EXCEPT ![c] = "poll_cr"] /\ UNCHANGED todo
         \/ /\ todo' = [todo EXCEPT ![c] = Tail(todo[c])]
            /\ \/ pc' = [pc EXCEPT ![c] = "poll"] /\ Len(todo[c]) > 1
               \/ pc' = [pc EXCEPT ![c] = "next"]
  BY DEF Store, StoreCr, NextByte
<1>5. /\ fifo' \in Seq(Bytes)
      /\ Len(fifo) \in Nat
      /\ \/ Len(fifo) < Depth /\ Len(fifo') = Len(fifo) + 1 /\ lost' = lost
         \/ Len(fifo) = Depth /\ fifo' = fifo /\ lost' = lost + 1
      /\ UNCHANGED <<txen, out>>
      /\ sent' = [sent EXCEPT ![c] = Append(sent[c], b)]
  <2>1. fifo \in Seq(Bytes) /\ Len(fifo) \in Nat /\ Len(fifo) <= Depth /\ Depth \in Nat
    BY EmptySeq, ConsoleAssumption DEF TypeOK, RoomInv
  <2>2. Append(fifo, b) \in Seq(Bytes) /\ Len(Append(fifo, b)) = Len(fifo) + 1
    BY <2>1, AppendProperties
  <2> QED
    BY <1>3, <2>1, <2>2 DEF Push
<1>6. TypeOK'
  <2>1. Append(sent[c], b) \in Seq(Bytes)
    BY AppendProperties DEF TypeOK
  <2>2. sent' \in [Contexts -> Seq(Bytes)]
    BY <2>1, <1>5 DEF TypeOK
  <2>3. pc' \in [Contexts -> Labels] /\ todo' \in [Contexts -> Seq(Bytes \ {"cr"})]
    BY <1>2, <1>4 DEF TypeOK, Labels
  <2>4. lost' \in Nat
    BY <1>5 DEF TypeOK
  <2> QED
    BY <2>2, <2>3, <2>4, <1>4, <1>5 DEF TypeOK
<1>7. FlowInv'
  BY <1>1, <1>2, <1>4 DEF FlowInv, TypeOK, Contexts, Stores, Polls
<1>8. RoomInv'
  <2>1. Len(fifo') <= Depth
    BY <1>5, ConsoleAssumption DEF RoomInv
  <2>2. ASSUME NEW d \in {"irq", "trap"}, running' = d, pc'[d] \in Stores PROVE Len(fifo') < Depth
    <3>1. d = c
      BY <1>1, <1>4, <2>2
    <3> QED
      BY <1>4, <2>2, <3>1 DEF TypeOK, Stores
  <2> QED
    BY <2>1, <2>2 DEF RoomInv
<1>9. lost' + Debt("main")' <= irqs'
  <2>1. Debt("main")' = 0 \/ c # "main"
    BY <1>1, <1>4 DEF Debt, TypeOK, Stores
  <2>2. CASE c = "main"
    <3>1. Len(fifo) = Depth => Debt("main") = 1
      BY <1>1, <2>2 DEF Debt
    <3>2. Debt("main") \in {0, 1}
      BY DEF Debt
    <3> QED
      BY <1>4, <1>5, <2>1, <2>2, <3>1, <3>2 DEF TypeOK
  <2>3. CASE c \in {"irq", "trap"}
    <3>1. lost' = lost
      BY <1>1, <1>5, <2>3, ConsoleAssumption DEF RoomInv
    <3>2. Debt("main")' = Debt("main")
      BY <1>1, <1>4, <2>3 DEF Debt, TypeOK, Contexts, Stores
    <3> QED
      BY <3>1, <3>2, <1>4
  <2> QED
    BY <2>2, <2>3 DEF Contexts
<1> QED
  BY <1>6, <1>7, <1>8, <1>9

\* Every step keeps the invariant.
LEMMA NextStep == IInv /\ [Next]_vars => IInv'
<1> SUFFICES ASSUME IInv, [Next]_vars PROVE IInv'
  OBVIOUS
<1>1. CASE UNCHANGED vars
  BY <1>1 DEF vars, IInv, TypeOK, FlowInv, RoomInv, Debt
<1>2. CASE Next
  BY <1>2, DrainStep, SwitchStep, BeginPollStep, StoreStep DEF Next, Step
<1> QED
  BY <1>1, <1>2

\* The inductive invariant of console output.
THEOREM Inductive == Spec => []IInv
BY InitIInv, NextStep, PTL DEF Spec

\* The console's state keeps its types.
THEOREM TypeCorrect == Spec => []TypeOK
<1>1. IInv => TypeOK
  BY DEF IInv
<1> QED
  BY <1>1, Inductive, PTL

\* At most one byte is lost per interrupt, and none without interrupts, for
\* every depth of the FIFO and whatever the contexts print.
THEOREM LossIsBounded == Spec => []LossBounded
<1>1. IInv => LossBounded
  BY DEF IInv, LossBounded, TypeOK, Debt
<1> QED
  BY <1>1, Inductive, PTL

\* While the transmitter is off, uart_init is still to come.
SilentInv ==
  ~txen /\ running # "trap" => fifo = <<>> /\ running = "main" /\ pc["main"] = "boot"

\* Nothing is stored before uart_init but by a fatal trap: whatever the
\* contexts print, the program cannot wait for a FIFO that never drains.
THEOREM SilentUntilInit == Spec => []SilentBeforeInit
<1>1. Init => SilentInv
  BY DEF Init, SilentInv, Contexts
<1>2. SilentInv /\ [Next]_vars => SilentInv'
  <2> SUFFICES ASSUME SilentInv, [Next]_vars PROVE SilentInv'
    OBVIOUS
  <2>1. CASE UNCHANGED vars
    BY <2>1 DEF vars, SilentInv
  <2>2. CASE Drain \/ UartInit \/ Interrupt \/ IrqReturn \/ FatalTrap
    BY <2>2 DEF Drain, UartInit, Interrupt, IrqReturn, FatalTrap, uart, SilentInv
  <2>3. ASSUME NEW c \in Contexts, Step(c) PROVE SilentInv'
    <3>1. running = c /\ running' = c /\ txen' = txen /\ pc[c] # "boot"
      BY <2>3 DEF Step, Begin, Poll, Store, StoreCr, Push, uart
    <3> QED
      BY <3>1 DEF SilentInv
  <2> QED
    BY <2>1, <2>2, <2>3 DEF Next
<1>3. SilentInv => SilentBeforeInit
  BY DEF SilentInv, SilentBeforeInit
<1> QED
  BY <1>1, <1>2, <1>3, PTL DEF Spec

-----------------------------------------------------------------------------
(***************************************************************************)
(* The refinement of ConsoleSpec: what has been stored and what a context  *)
(* still has to store make up the text of its calls.                       *)
(***************************************************************************)

\* What the bytes of one character of a buffer are on the line.
OnLine(b) == IF b = "nl" THEN <<"nl", "cr">> ELSE <<b>>

\* What a call puts on the line.
CallText(call) == IF Accepted(call) THEN Expand(call.buf) ELSE <<>>

\* A buffer on the line: its first byte, then the others.
LEMMA ExpandStep ==
  /\ Expand(<<>>) = <<>>
  /\ \A buf \in Seq(Bytes) :
       /\ Expand(buf) \in Seq(Bytes)
       /\ buf # <<>> => Expand(buf) = OnLine(Head(buf)) \o Expand(Tail(buf))
<1> DEFINE f == [b \in Bytes |-> OnLine(b)]
<1>1. f \in [Bytes -> Seq(Bytes)]
  <2>1. <<"nl", "cr">> \in Seq(Bytes)
    BY DEF Bytes
  <2>2. \A b \in Bytes : <<b>> \in Seq(Bytes)
    OBVIOUS
  <2> QED
    BY <2>1, <2>2 DEF OnLine
<1>2. ASSUME NEW buf \in Seq(Bytes) PROVE Expand(buf) = Spread(f, buf)
  <2>1. \A i \in 1 .. Len(buf) : buf[i] \in Bytes
    BY ElementOfSeq
  <2>2. \A i \in 1 .. Len(buf) : f[buf[i]] = OnLine(buf[i])
    BY <2>1
  <2>3. [i \in 1 .. Len(buf) |-> f[buf[i]]] = [i \in 1 .. Len(buf) |-> OnLine(buf[i])]
    BY <2>2
  <2> QED
    BY <2>3 DEF Expand, OnLine, Spread
<1>3. \A buf \in Seq(Bytes) : buf # <<>> => Head(buf) \in Bytes /\ Tail(buf) \in Seq(Bytes)
  BY HeadTailProperties
<1>4. \A b \in Bytes : f[b] = OnLine(b)
  OBVIOUS
<1>5. <<>> \in Seq(Bytes)
  BY EmptySeq
<1> HIDE DEF f
<1>6. ASSUME NEW s \in Seq(Bytes)
      PROVE  /\ Spread(f, s) \in Seq(Bytes)
             /\ s # <<>> => Spread(f, s) = f[Head(s)] \o Spread(f, Tail(s))
  <2>1. \A T : \A g \in [T -> Seq(Bytes)] : \A u \in Seq(T) :
          /\ Spread(g, u) \in Seq(Bytes)
          /\ u # <<>> => Spread(g, u) = g[Head(u)] \o Spread(g, Tail(u))
    BY SpreadStep
  <2> QED
    BY <1>1, <2>1
<1> QED
  BY <1>2, <1>3, <1>4, <1>5, <1>6, SpreadEmpty

\* The text of the calls: that of the first, then that of the others.
LEMMA LineTextStep ==
  /\ LineText(<<>>) = <<>>
  /\ \A cs \in Seq(CallRecords) :
       /\ LineText(cs) \in Seq(Bytes)
       /\ cs # <<>> => LineText(cs) = CallText(Head(cs)) \o LineText(Tail(cs))
<1> DEFINE f == [c \in CallRecords |-> CallText(c)]
<1>1. f \in [CallRecords -> Seq(Bytes)]
  <2>1. \A c \in CallRecords : c.buf \in Seq(Bytes)
    <3>1. Seq(Bytes \ {"cr"}) \subseteq Seq(Bytes)
      BY SeqMonotonic
    <3> QED
      BY <3>1 DEF CallRecords
  <2>2. \A c \in CallRecords : CallText(c) \in Seq(Bytes)
    BY <2>1, ExpandStep, EmptySeq DEF CallText
  <2> QED
    BY <2>2
<1>2. ASSUME NEW cs \in Seq(CallRecords) PROVE LineText(cs) = Spread(f, cs)
  <2>1. \A i \in 1 .. Len(cs) : cs[i] \in CallRecords
    BY ElementOfSeq
  <2>2. \A i \in 1 .. Len(cs) : f[cs[i]] = CallText(cs[i])
    BY <2>1
  <2>3. [i \in 1 .. Len(cs) |-> f[cs[i]]] = [i \in 1 .. Len(cs) |-> CallText(cs[i])]
    BY <2>2
  <2> QED
    BY <2>3 DEF LineText, CallText, Spread
<1>3. \A cs \in Seq(CallRecords) :
        cs # <<>> => Head(cs) \in CallRecords /\ Tail(cs) \in Seq(CallRecords)
  BY HeadTailProperties
<1>4. \A c \in CallRecords : f[c] = CallText(c)
  OBVIOUS
<1>5. <<>> \in Seq(CallRecords)
  BY EmptySeq
<1> HIDE DEF f
<1>6. ASSUME NEW s \in Seq(CallRecords)
      PROVE  /\ Spread(f, s) \in Seq(Bytes)
             /\ s # <<>> => Spread(f, s) = f[Head(s)] \o Spread(f, Tail(s))
  BY <1>1, SpreadStep
<1> QED
  BY <1>2, <1>3, <1>4, <1>5, <1>6, SpreadEmpty

\* What the current call of context c has still to store, and with the calls
\* to come.
Rest(c) ==
  CASE pc[c] \in {"boot", "next"}  -> <<>>
    [] pc[c] \in {"poll", "store"} -> Expand(todo[c])
    [] OTHER                       -> <<"cr">> \o Expand(Tail(todo[c]))
Pending(c) == Rest(c) \o LineText(calls[c])

\* Nothing gets between the poll of the running context and its store.
MainRoom ==
  /\ lost = 0
  /\ running # "trap" /\ pc["main"] \in Stores => Len(fifo) < Depth

\* The line and the FIFO hold what the program stored, then what the trap did.
Order == out \o fifo = sent["main"] \o sent["trap"]

TextInv ==
  /\ sent["main"] \o Pending("main") = LineText(MainCalls)
  /\ running = "trap" => sent["trap"] \o Pending("trap") = LineText(TrapCalls)
  /\ running # "trap" => sent["trap"] = <<>>

\* The text of each context holds whatever handlers print; that it is on the
\* line complete and unmixed, only as long as none has.
RInv == TextInv /\ (sent["irq"] = <<>> => MainRoom /\ Order)

\* A byte at the end of a text, or at the front.
LEMMA TextMoves ==
  /\ \A u, v, w \in Seq(Bytes) : (u \o v) \o w = u \o (v \o w)
  /\ \A b \in Bytes : \A s, t \in Seq(Bytes) :
       /\ Append(s, b) \o t = s \o (<<b>> \o t)
       /\ Append(s \o t, b) = s \o Append(t, b)
<1>1. \A u, v, w \in Seq(Bytes) : (u \o v) \o w = u \o (v \o w)
  BY ConcatMoves
<1>2. \A b \in Bytes : \A u \in Seq(Bytes) : Append(u, b) = u \o <<b>>
  BY AppendIsConcat
<1>3. \A b \in Bytes : <<b>> \in Seq(Bytes)
  OBVIOUS
<1>4. \A s, t \in Seq(Bytes) : s \o t \in Seq(Bytes)
  BY ConcatProperties
<1>5. ASSUME NEW b \in Bytes, NEW s \in Seq(Bytes), NEW t \in Seq(Bytes)
      PROVE  /\ Append(s, b) \o t = s \o (<<b>> \o t)
             /\ Append(s \o t, b) = s \o Append(t, b)
  <2>1. Append(s, b) = s \o <<b>> /\ Append(t, b) = t \o <<b>>
    BY <1>2, Zenon
  <2>2. Append(s \o t, b) = (s \o t) \o <<b>>
    BY <1>2, <1>4, Zenon
  <2>3. (s \o <<b>>) \o t = s \o (<<b>> \o t) /\ (s \o t) \o <<b>> = s \o (t \o <<b>>)
    BY <1>1, <1>3, Zenon
  <2> QED
    BY <2>1, <2>2, <2>3, Zenon
<1> QED
  BY <1>1, <1>5

\* A text is its first byte and the others.
LEMMA FirstByte ==
  ASSUME NEW S, NEW t \in Seq(S), t # <<>>
  PROVE  t = <<Head(t)>> \o Tail(t)
<1>1. Len(t) \in Nat \ {0} /\ Head(t) = t[1] /\ SubSeq(t, 1, Len(t)) = t
  BY EmptySeq, SubSeqFull
<1>2. 1 \in 1 .. Len(t) /\ Len(t) \in 1 .. Len(t)
  BY <1>1
<1>3. SubSeq(t, 1, Len(t)) = <<t[1]>> \o SubSeq(t, 2, Len(t))
  BY <1>2, SubSeqRecursiveFirst
<1>4. Tail(t) = SubSeq(t, 2, Len(t))
  BY TailIsSubSeq
<1> QED
  BY <1>1, <1>3, <1>4

\* A carriage return is a text.
LEMMA CrText == <<"cr">> \in Seq(Bytes) /\ "cr" \in Bytes
BY DEF Bytes

\* What is pending is a text, as long as bytes are.
LEMMA PendingType ==
  ASSUME IInv, NEW c \in Contexts
  PROVE  Rest(c) \in Seq(Bytes) /\ Pending(c) \in Seq(Bytes)
<1>1. /\ todo[c] \in Seq(Bytes) /\ calls[c] \in Seq(CallRecords)
      /\ pc[c] \in Labels /\ (pc[c] \in Stores \cup Polls => todo[c] # <<>>)
  <2>1. Seq(Bytes \ {"cr"}) \subseteq Seq(Bytes)
    BY SeqMonotonic
  <2> QED
    BY <2>1 DEF IInv, TypeOK, FlowInv
<1>2. Rest(c) \in Seq(Bytes)
  <2>1. CASE pc[c] \in {"boot", "next"}
    BY <2>1, EmptySeq DEF Rest
  <2>2. CASE pc[c] \in {"poll", "store"}
    BY <1>1, <2>2, ExpandStep DEF Rest
  <2>3. CASE pc[c] \in {"poll_cr", "store_cr"}
    <3>1. Tail(todo[c]) \in Seq(Bytes)
      BY <1>1, <2>3, HeadTailProperties DEF Stores, Polls
    <3>2. Expand(Tail(todo[c])) \in Seq(Bytes)
      BY <3>1, ExpandStep
    <3>3. <<"cr">> \o Expand(Tail(todo[c])) \in Seq(Bytes)
      BY <3>2, CrText, ConcatProperties
    <3> QED
      BY <2>3, <3>3 DEF Rest
  <2> QED
    BY <1>1, <2>1, <2>2, <2>3 DEF Labels
<1>3. LineText(calls[c]) \in Seq(Bytes)
  BY <1>1, LineTextStep
<1> QED
  BY <1>2, <1>3, ConcatProperties DEF Pending

\* A call that begins is pending as a whole.
LEMMA BeginPending ==
  ASSUME IInv, NEW c \in Contexts, Begin(c)
  PROVE  Pending(c)' = Pending(c)
<1> DEFINE call == Head(calls[c])
<1>1. /\ pc[c] = "next" /\ calls[c] # <<>>
      /\ calls'[c] = Tail(calls[c])
      /\ \/ /\ Accepted(call) /\ call.buf # <<>>
            /\ todo'[c] = call.buf /\ pc'[c] = "poll"
         \/ /\ ~Accepted(call) \/ call.buf = <<>>
            /\ pc'[c] = "next"
  BY DEF Begin, IInv, TypeOK
<1>2. LineText(calls[c]) = CallText(call) \o LineText(Tail(calls[c]))
  <2>1. calls[c] \in Seq(CallRecords)
    BY DEF IInv, TypeOK
  <2> QED
    BY <1>1, <2>1, LineTextStep
<1>3. Rest(c)' = CallText(call)
  <2>1. CASE Accepted(call) /\ call.buf # <<>>
    BY <1>1, <2>1 DEF Rest, CallText
  <2>2. CASE ~Accepted(call) \/ call.buf = <<>>
    BY <1>1, <2>2, ExpandStep DEF Rest, CallText
  <2> QED
    BY <2>1, <2>2
<1>4. Pending(c) = LineText(calls[c])
  <2>1. LineText(calls[c]) \in Seq(Bytes)
    BY LineTextStep DEF IInv, TypeOK
  <2> QED
    BY <1>1, <2>1, ConcatEmptySeq DEF Pending, Rest
<1> QED
  BY <1>1, <1>2, <1>3, <1>4 DEF Pending

\* A store takes its byte from what is pending.
LEMMA StorePending ==
  ASSUME IInv, NEW c \in Contexts, Store(c) \/ StoreCr(c)
  PROVE  \E b \in Bytes : /\ Push(c, b)
                          /\ Pending(c) = <<b>> \o Pending(c)'
                          /\ Pending(c)' \in Seq(Bytes)
<1>1. /\ todo[c] \in Seq(Bytes) /\ todo[c] # <<>> /\ calls[c] \in Seq(CallRecords)
      /\ Head(todo[c]) \in Bytes /\ Tail(todo[c]) \in Seq(Bytes)
      /\ Len(todo[c]) \in Nat \ {0} /\ Len(Tail(todo[c])) = Len(todo[c]) - 1
  <2>1. Seq(Bytes \ {"cr"}) \subseteq Seq(Bytes)
    BY SeqMonotonic
  <2>2. todo[c] \in Seq(Bytes) /\ todo[c] # <<>> /\ calls[c] \in Seq(CallRecords)
    BY <2>1 DEF Store, StoreCr, IInv, TypeOK, FlowInv, Stores
  <2> QED
    BY <2>2, HeadTailProperties, EmptySeq
<1> DEFINE t == Expand(Tail(todo[c]))
<1>2. t \in Seq(Bytes) /\ Expand(todo[c]) = OnLine(Head(todo[c])) \o t
  BY <1>1, ExpandStep
<1>3. ASSUME NextByte(c) PROVE Rest(c)' = t /\ Rest(c)' \in Seq(Bytes)
  <2>1. todo'[c] = Tail(todo[c])
    BY <1>3 DEF NextByte, IInv, TypeOK
  <2>2. pc'[c] = IF Len(todo[c]) > 1 THEN "poll" ELSE "next"
    BY <1>3 DEF NextByte, IInv, TypeOK
  <2>3. ASSUME ~(Len(todo[c]) > 1) PROVE t = <<>>
    <3>0. \A n \in Nat \ {0} : ~(n > 1) => n - 1 = 0
      OBVIOUS
    <3>1. Len(Tail(todo[c])) = 0
      BY <1>1, <2>3, <3>0, Zenon
    <3>2. Tail(todo[c]) = <<>>
      BY <1>1, <3>1, EmptySeq
    <3> QED
      BY <3>2, ExpandStep
  <2> QED
    BY <1>2, <2>1, <2>2, <2>3 DEF Rest
<1>4. \E b \in Bytes : Push(c, b) /\ Rest(c) = <<b>> \o Rest(c)' /\ Rest(c)' \in Seq(Bytes)
  <2>1. CASE Store(c) /\ Head(todo[c]) = "nl"
    <3>1. Push(c, "nl") /\ pc[c] = "store" /\ pc'[c] = "poll_cr" /\ todo'[c] = todo[c]
      BY <2>1 DEF Store, IInv, TypeOK
    <3>2. Rest(c) = <<"nl", "cr">> \o t /\ Rest(c)' = <<"cr">> \o t
      BY <1>2, <2>1, <3>1 DEF Rest, OnLine
    <3>3. <<"nl">> \in Seq(Bytes) /\ <<"cr">> \in Seq(Bytes) /\ <<"nl", "cr">> = <<"nl">> \o <<"cr">>
      BY DEF Bytes
    <3>4. (<<"nl">> \o <<"cr">>) \o t = <<"nl">> \o (<<"cr">> \o t)
      BY <1>2, <3>3, ConcatAssociative
    <3>5. <<"cr">> \o t \in Seq(Bytes) /\ "nl" \in Bytes
      BY <1>2, CrText, ConcatProperties DEF Bytes
    <3> QED
      BY <3>1, <3>2, <3>3, <3>4, <3>5
  <2>2. CASE Store(c) /\ Head(todo[c]) # "nl"
    <3>1. Push(c, Head(todo[c])) /\ pc[c] = "store" /\ NextByte(c)
      BY <2>2 DEF Store
    <3>2. Rest(c) = <<Head(todo[c])>> \o t
      BY <1>2, <2>2, <3>1 DEF Rest, OnLine
    <3> QED
      BY <1>1, <1>3, <3>1, <3>2
  <2>3. CASE StoreCr(c)
    <3>1. Push(c, "cr") /\ pc[c] = "store_cr" /\ NextByte(c)
      BY <2>3 DEF StoreCr
    <3>2. Rest(c) = <<"cr">> \o t
      BY <3>1 DEF Rest
    <3> QED
      BY <1>3, <3>1, <3>2, CrText
  <2> QED
    BY <2>1, <2>2, <2>3
<1>5. PICK b \in Bytes :
        Push(c, b) /\ Rest(c) = <<b>> \o Rest(c)' /\ Rest(c)' \in Seq(Bytes)
  BY <1>4
<1>6. Pending(c) = <<b>> \o Pending(c)' /\ Pending(c)' \in Seq(Bytes)
  <2>1. calls' = calls /\ LineText(calls[c]) \in Seq(Bytes)
    BY <1>1, LineTextStep DEF Store, StoreCr
  <2>2. Rest(c)' \in Seq(Bytes) /\ <<b>> \in Seq(Bytes)
    BY <1>5
  <2>3. (<<b>> \o Rest(c)') \o LineText(calls[c]) = <<b>> \o (Rest(c)' \o LineText(calls[c]))
    BY <2>1, <2>2, ConcatAssociative
  <2>4. Rest(c)' \o LineText(calls[c]) \in Seq(Bytes)
    BY <2>1, <2>2, ConcatProperties
  <2> QED
    BY <1>5, <2>1, <2>3, <2>4 DEF Pending
<1> QED
  BY <1>5, <1>6

\* A context that does not move keeps what it has pending.
LEMMA PendingFrame ==
  ASSUME NEW c, pc'[c] = pc[c], todo'[c] = todo[c], calls'[c] = calls[c]
  PROVE  Pending(c)' = Pending(c)
BY DEF Pending, Rest

\* At reset everything is pending.
LEMMA InitRInv == Init => RInv
<1> SUFFICES ASSUME Init PROVE RInv
  OBVIOUS
<1>1. LineText(MainCalls) \in Seq(Bytes) /\ <<>> \in Seq(Bytes) /\ Len(<<>>) = 0
  BY LineTextStep, EmptySeq, ConsoleAssumption
<1>3. MainRoom
  BY DEF Init, MainRoom, Contexts, Stores
<1>4. Order
  BY DEF Init, Order, Contexts
<1>5. Pending("main") = LineText(MainCalls)
  BY <1>1, ConcatEmptySeq DEF Init, Pending, Rest, Contexts
<1>6. sent["main"] \o Pending("main") = LineText(MainCalls)
  BY <1>1, <1>5, ConcatEmptySeq DEF Init, Contexts
<1>7. TextInv
  BY <1>6 DEF Init, TextInv, Contexts
<1> QED
  BY <1>3, <1>4, <1>7 DEF RInv

\* The line takes a byte over from the FIFO.
LEMMA DrainRInv == IInv /\ RInv /\ Drain => RInv'
<1> SUFFICES ASSUME IInv, RInv, Drain PROVE RInv'
  OBVIOUS
<1>1. /\ fifo \in Seq(Bytes) /\ out \in Seq(Bytes) /\ fifo # <<>>
      /\ Head(fifo) \in Bytes /\ Tail(fifo) \in Seq(Bytes)
      /\ Len(Tail(fifo)) = Len(fifo) - 1 /\ Len(fifo) \in Nat
  BY TailType DEF IInv, TypeOK, Drain
<1>2. out' \o fifo' = out \o fifo
  <2>1. Append(out, Head(fifo)) \o Tail(fifo) = out \o (<<Head(fifo)>> \o Tail(fifo))
    BY <1>1, TextMoves, Zenon
  <2>2. fifo = <<Head(fifo)>> \o Tail(fifo)
    BY <1>1, FirstByte
  <2> QED
    BY <2>1, <2>2 DEF Drain
<1>3. Order => Order'
  BY <1>2 DEF Order, Drain
<1>4. MainRoom => MainRoom'
  BY <1>1, ConsoleAssumption DEF MainRoom, Drain
<1>5. TextInv'
  BY PendingFrame DEF RInv, TextInv, Drain
<1> QED
  BY <1>3, <1>4, <1>5 DEF RInv, Drain

\* uart_init, the interrupts and the fatal trap store nothing.
LEMMA SwitchRInv ==
  ASSUME IInv, RInv, UartInit \/ Interrupt \/ IrqReturn \/ FatalTrap
  PROVE  RInv'
<1>1. /\ UNCHANGED <<fifo, out, lost, sent, todo>>
      /\ running' # "trap" => running # "trap"
  BY DEF UartInit, Interrupt, IrqReturn, FatalTrap, uart
<1>3. MainRoom => MainRoom'
  <2>1. pc'["main"] \in Stores => pc["main"] \in Stores
    BY DEF UartInit, Interrupt, IrqReturn, FatalTrap, IInv, TypeOK, Contexts, Stores
  <2> QED
    BY <1>1, <2>1 DEF MainRoom
<1>4. Order => Order'
  BY <1>1 DEF Order
<1>5. Pending("main")' = Pending("main")
  <2>1. calls'["main"] = calls["main"] /\ todo'["main"] = todo["main"]
    BY DEF UartInit, Interrupt, IrqReturn, FatalTrap, IInv, TypeOK, Contexts
  <2>2. \/ pc'["main"] = pc["main"]
        \/ pc["main"] = "boot" /\ pc'["main"] = "next"
    BY DEF UartInit, Interrupt, IrqReturn, FatalTrap, IInv, TypeOK, Contexts
  <2> QED
    BY <2>1, <2>2 DEF Pending, Rest
<1>6. running' = "trap" => sent'["trap"] \o Pending("trap")' = LineText(TrapCalls)
  <2>1. CASE FatalTrap
    <3>1. calls'["trap"] = TrapCalls /\ pc'["trap"] = "next" /\ sent["trap"] = <<>>
      BY <2>1 DEF FatalTrap, RInv, TextInv, IInv, FlowInv, TypeOK, Contexts
    <3>2. LineText(TrapCalls) \in Seq(Bytes)
      BY LineTextStep, ConsoleAssumption
    <3>3. Pending("trap")' = LineText(TrapCalls)
      BY <3>1, <3>2, ConcatEmptySeq DEF Pending, Rest
    <3> QED
      BY <1>1, <3>1, <3>2, <3>3, ConcatEmptySeq
  <2>2. CASE ~FatalTrap
    <3>1. /\ running' = "trap" => running = "trap"
          /\ pc'["trap"] = pc["trap"] /\ calls'["trap"] = calls["trap"]
      BY <2>2 DEF UartInit, Interrupt, IrqReturn, IInv, TypeOK, Contexts
    <3> QED
      BY <1>1, <3>1, PendingFrame DEF RInv, TextInv
  <2> QED
    BY <2>1, <2>2
<1>7. TextInv'
  BY <1>1, <1>5, <1>6 DEF RInv, TextInv
<1> QED
  BY <1>1, <1>3, <1>4, <1>7 DEF RInv

\* A call begins, or its poll finds room.
LEMMA BeginPollRInv ==
  ASSUME IInv, RInv, NEW c \in Contexts, Begin(c) \/ Poll(c)
  PROVE  RInv'
<1>1. /\ UNCHANGED <<fifo, out, running, lost, sent>> /\ running = c
      /\ \A d \in Contexts \ {c} :
           pc'[d] = pc[d] /\ todo'[d] = todo[d] /\ calls'[d] = calls[d]
  BY DEF Begin, Poll, uart, IInv, TypeOK
<1>2. Pending(c)' = Pending(c)
  <2>1. CASE Begin(c)
    BY <2>1, BeginPending
  <2>2. CASE Poll(c)
    BY <2>2 DEF Poll, Pending, Rest, IInv, TypeOK
  <2> QED
    BY <2>1, <2>2
<1>3. \A d \in Contexts : Pending(d)' = Pending(d)
  BY <1>1, <1>2, PendingFrame
<1>4. MainRoom => MainRoom'
  <2>1. CASE c = "main" /\ Poll(c)
    BY <1>1, <2>1 DEF Poll, MainRoom
  <2>2. CASE c = "main" /\ Begin(c)
    <3>1. pc'[c] \in {"poll", "next"}
      BY <2>2 DEF Begin, IInv, TypeOK
    <3> QED
      BY <1>1, <2>2, <3>1 DEF MainRoom, Stores
  <2>3. CASE c # "main"
    BY <1>1, <2>3 DEF MainRoom, Contexts
  <2> QED
    BY <2>1, <2>2, <2>3
<1>5. Order => Order'
  BY <1>1 DEF Order
<1>6. TextInv'
  BY <1>1, <1>3 DEF RInv, TextInv, Contexts
<1> QED
  BY <1>1, <1>4, <1>5, <1>6 DEF RInv

\* A byte is stored: it moves from what its context has pending to what the
\* context has sent.
LEMMA StoreText ==
  ASSUME IInv, RInv, NEW c \in Contexts, Store(c) \/ StoreCr(c)
  PROVE  TextInv'
<1>1. /\ running = c /\ running' = running /\ calls' = calls
      /\ \A d \in Contexts \ {c} :
           /\ pc'[d] = pc[d] /\ todo'[d] = todo[d] /\ calls'[d] = calls[d]
           /\ sent'[d] = sent[d]
  BY DEF Store, StoreCr, NextByte, Push, IInv, TypeOK
<1>2. PICK b \in Bytes :
        Push(c, b) /\ Pending(c) = <<b>> \o Pending(c)' /\ Pending(c)' \in Seq(Bytes)
  BY StorePending
<1>3. sent'[c] = Append(sent[c], b) /\ sent[c] \in Seq(Bytes)
  BY <1>2 DEF Push, IInv, TypeOK
<1>4. sent'[c] \o Pending(c)' = sent[c] \o Pending(c)
  <2>1. Append(sent[c], b) \o Pending(c)' = sent[c] \o (<<b>> \o Pending(c)')
    BY <1>2, <1>3, TextMoves, Zenon
  <2> QED
    BY <1>2, <1>3, <2>1, Zenon
<1>5. \A d \in Contexts \ {c} : Pending(d)' = Pending(d)
  BY <1>1, PendingFrame
<1> QED
  BY <1>1, <1>4, <1>5 DEF RInv, TextInv, Contexts

\* What a handler has printed stays printed.
LEMMA IrqUnsent ==
  ASSUME IInv, NEW c \in Contexts, Store(c) \/ StoreCr(c), sent'["irq"] = <<>>
  PROVE  c \in {"main", "trap"} /\ sent["irq"] = <<>>
<1>1. PICK b \in Bytes : Push(c, b)
  BY StorePending
<1>2. /\ sent'[c] = Append(sent[c], b) /\ sent[c] \in Seq(Bytes)
      /\ \A d \in Contexts \ {c} : sent'[d] = sent[d]
  BY <1>1 DEF Push, IInv, TypeOK
<1>3. Append(sent[c], b) # <<>>
  BY <1>2, AppendProperties, EmptySeq
<1> QED
  BY <1>2, <1>3 DEF Contexts

\* While no handler prints, the byte is stored behind those the line and the
\* FIFO hold.
LEMMA StoreOrder ==
  ASSUME IInv, RInv, NEW c \in Contexts, Store(c) \/ StoreCr(c), sent'["irq"] = <<>>
  PROVE  MainRoom' /\ Order'
<1>1. PICK b \in Bytes : Push(c, b)
  BY StorePending
<1>2. /\ sent'[c] = Append(sent[c], b) /\ sent[c] \in Seq(Bytes)
      /\ \A d \in Contexts \ {c} : sent'[d] = sent[d]
  BY <1>1 DEF Push, IInv, TypeOK
<1>3. c \in {"main", "trap"} /\ sent["irq"] = <<>>
  BY IrqUnsent
<1>4. MainRoom /\ Order
  BY <1>3 DEF RInv
<1>5. /\ running = c /\ running' = running /\ pc[c] \in Stores /\ pc'[c] \notin Stores
      /\ \A d \in Contexts \ {c} : pc'[d] = pc[d]
  BY DEF Store, StoreCr, NextByte, Stores, IInv, TypeOK
<1>6. Len(fifo) < Depth
  BY <1>3, <1>4, <1>5 DEF MainRoom, IInv, RoomInv
<1>7. fifo' = Append(fifo, b) /\ out' = out /\ lost' = lost
  BY <1>1, <1>6 DEF Push
<1>8. /\ fifo \in Seq(Bytes) /\ out \in Seq(Bytes)
      /\ sent["main"] \in Seq(Bytes) /\ sent["trap"] \in Seq(Bytes)
  BY DEF IInv, TypeOK, Contexts
<1>9. out' \o fifo' = Append(sent["main"] \o sent["trap"], b)
  <2>1. Append(out \o fifo, b) = out \o Append(fifo, b)
    BY <1>8, TextMoves, Zenon
  <2> QED
    BY <1>4, <1>7, <2>1 DEF Order
<1>10. Order'
  <2>1. CASE c = "main"
    <3>1. sent["trap"] = <<>> /\ sent'["trap"] = <<>>
      BY <1>2, <1>5, <2>1 DEF RInv, TextInv, Contexts
    <3>2. Append(sent["main"], b) \in Seq(Bytes)
      BY <1>8, AppendProperties
    <3>3. sent["main"] \o <<>> = sent["main"]
      BY <1>8, ConcatEmptySeq
    <3>4. Append(sent["main"], b) \o <<>> = Append(sent["main"], b)
      BY <3>2, ConcatEmptySeq
    <3> QED
      BY <1>2, <1>9, <2>1, <3>1, <3>3, <3>4 DEF Order
  <2>2. CASE c = "trap"
    <3>1. Append(sent["main"] \o sent["trap"], b) = sent["main"] \o Append(sent["trap"], b)
      BY <1>8, TextMoves, Zenon
    <3> QED
      BY <1>2, <1>9, <2>2, <3>1 DEF Order, Contexts
  <2> QED
    BY <1>3, <2>1, <2>2
<1>11. MainRoom'
  BY <1>3, <1>4, <1>5, <1>7 DEF MainRoom, Contexts
<1> QED
  BY <1>10, <1>11

\* Every step keeps the texts together.
LEMMA NextRInv ==
  ASSUME IInv, RInv, [Next]_vars
  PROVE  RInv'
<1>1. CASE UNCHANGED vars
  <2>1. \A c \in Contexts : Pending(c)' = Pending(c)
    BY <1>1, PendingFrame DEF vars
  <2> QED
    BY <1>1, <2>1 DEF vars, RInv, MainRoom, Order, TextInv, Contexts
<1>2. ASSUME NEW c \in Contexts, Store(c) \/ StoreCr(c) PROVE RInv'
  BY <1>2, StoreText, StoreOrder DEF RInv
<1>3. CASE Next
  BY <1>2, <1>3, DrainRInv, SwitchRInv, BeginPollRInv DEF Next, Step
<1> QED
  BY <1>1, <1>3

\* The first part of a concatenation.
LEMMA PrefixOf ==
  ASSUME NEW S, NEW s \in Seq(S), NEW t \in Seq(S)
  PROVE  SubSeq(s \o t, 1, Len(s)) = s
<1>1. Len(s) \in Nat
  BY LenProperties
<1>2. CASE Len(s) = 0
  <2>1. SubSeq(s \o t, 1, 0) = <<>>
    BY SubSeqEmpty
  <2>2. s = <<>>
    BY <1>2, EmptySeq
  <2> QED
    BY <1>2, <2>1, <2>2
<1>3. CASE Len(s) # 0
  <2>1. 1 \in 1 .. Len(s) /\ Len(s) \in 1 .. Len(s)
    BY <1>1, <1>3
  <2>2. SubSeq(s \o t, 1, Len(s)) = SubSeq(s, 1, Len(s))
    BY <2>1, SubSeqOfConcat1
  <2> QED
    BY <2>2, SubSeqFull
<1> QED
  BY <1>2, <1>3

\* The byte that leaves a queue f between o and r is the next of the text.
LEMMA NextShown ==
  ASSUME NEW S, NEW o \in Seq(S), NEW f \in Seq(S), NEW r \in Seq(S), f # <<>>
  PROVE  /\ Len(o) < Len((o \o f) \o r)
         /\ ((o \o f) \o r)[Len(o) + 1] = Head(f)
<1>1. Len(o) \in Nat /\ Len(f) \in Nat \ {0} /\ Len(r) \in Nat /\ Head(f) = f[1]
  BY LenProperties, EmptySeq, HeadTailProperties
<1>2. /\ o \o f \in Seq(S) /\ Len(o \o f) = Len(o) + Len(f)
      /\ \A i \in 1 .. Len(o) + Len(f) :
           (o \o f)[i] = IF i <= Len(o) THEN o[i] ELSE f[i - Len(o)]
  BY ConcatProperties
<1> DEFINE u == o \o f
           n == Len(o)
           m == Len(f)
<1>3. /\ Len(u \o r) = Len(u) + Len(r)
      /\ \A i \in 1 .. Len(u) + Len(r) :
           (u \o r)[i] = IF i <= Len(u) THEN u[i] ELSE r[i - Len(u)]
  BY <1>2, ConcatProperties
<1>4. /\ n + 1 \in 1 .. n + m /\ n + 1 <= n + m /\ ~(n + 1 <= n) /\ n + 1 - n = 1
      /\ n + 1 \in 1 .. n + m + Len(r) /\ n < n + m + Len(r)
  <2> HIDE DEF n, m
  <2>1. n \in Nat /\ m \in Nat \ {0} /\ Len(r) \in Nat
    BY <1>1 DEF n, m
  <2> QED
    BY <2>1
<1>5. u[n + 1] = f[1]
  BY <1>2, <1>4
<1>6. (u \o r)[n + 1] = u[n + 1] /\ n < Len(u \o r)
  BY <1>2, <1>3, <1>4
<1> QED
  BY <1>1, <1>5, <1>6

\* What the terminal is to show is on the line, in the FIFO, or still to come.
LEMMA TextSplit ==
  ASSUME IInv, RInv, sent["irq"] = <<>>
  PROVE  \E r \in Seq(Bytes) : Abstract!Text = (out \o fifo) \o r
<1>1. /\ sent["main"] \in Seq(Bytes) /\ sent["trap"] \in Seq(Bytes)
      /\ Pending("main") \in Seq(Bytes) /\ Pending("trap") \in Seq(Bytes)
  BY PendingType DEF IInv, TypeOK, Contexts
<1>2. out \o fifo = sent["main"] \o sent["trap"]
  BY DEF RInv, Order
<1>3. CASE running # "trap"
  <2>1. Abstract!Text = LineText(MainCalls)
    BY <1>3 DEF Abstract!Text
  <2>2. out \o fifo = sent["main"]
    BY <1>1, <1>2, <1>3, ConcatEmptySeq DEF RInv, TextInv
  <2> QED
    BY <1>1, <2>1, <2>2 DEF RInv, TextInv
<1>4. CASE running = "trap"
  <2>1. Abstract!Text = SubSeq(LineText(MainCalls), 1, Len(sent["main"])) \o LineText(TrapCalls)
    BY <1>4 DEF Abstract!Text
  <2>2. SubSeq(sent["main"] \o Pending("main"), 1, Len(sent["main"])) = sent["main"]
    BY <1>1, PrefixOf
  <2>3. Abstract!Text = sent["main"] \o (sent["trap"] \o Pending("trap"))
    BY <1>4, <2>1, <2>2 DEF RInv, TextInv
  <2>4. (sent["main"] \o sent["trap"]) \o Pending("trap")
          = sent["main"] \o (sent["trap"] \o Pending("trap"))
    BY <1>1, TextMoves, Zenon
  <2> QED
    BY <1>1, <1>2, <2>3, <2>4
<1> QED
  BY <1>3, <1>4

\* Until a handler prints, the terminal shows the program's text in order and
\* complete up to any moment, and after a fatal trap the trap's text behind
\* the part the program had stored: for every depth of the FIFO, all texts of
\* the program and of the trap handler, and every number of interrupts and
\* moment of the trap.
THEOREM TerminalShowsTexts == Spec => Refines
<1>1. Init => Abstract!Init
  BY DEF Init, Abstract!Init, Contexts
<1>2. ASSUME IInv, RInv, [Next]_vars PROVE [Abstract!Next]_Abstract!vars
  <2> DEFINE cut == IF running = "trap" THEN <<Len(sent["main"])>> ELSE <<>>
  <2>1. CASE UNCHANGED vars
    BY <2>1 DEF vars, Abstract!vars
  <2>6. CASE sent'["irq"] # <<>>
    BY <2>6 DEF Abstract!Next, Abstract!Mix
  <2>7. sent'["irq"] = <<>> => sent["irq"] = <<>>
    <3>1. ASSUME NEW c \in Contexts, Store(c) \/ StoreCr(c), sent'["irq"] = <<>>
          PROVE  sent["irq"] = <<>>
      BY <1>2, <3>1, IrqUnsent
    <3>2. sent' = sent \/ \E c \in Contexts : Store(c) \/ StoreCr(c)
      BY <1>2 DEF Next, Step, Drain, UartInit, Interrupt, IrqReturn, FatalTrap, Begin, Poll, vars
    <3> QED
      BY <3>1, <3>2
  <2>2. CASE Drain /\ sent["irq"] = <<>>
    <3>1. /\ fifo # <<>> /\ out' = Append(out, Head(fifo)) /\ UNCHANGED <<running, sent>>
          /\ out \in Seq(Bytes) /\ fifo \in Seq(Bytes)
      BY <1>2, <2>2 DEF Drain, IInv, TypeOK
    <3>2. PICK r \in Seq(Bytes) : Abstract!Text = (out \o fifo) \o r
      BY <1>2, <2>2, TextSplit
    <3>3. Len(out) < Len(Abstract!Text) /\ Abstract!Text[Len(out) + 1] = Head(fifo)
      BY <3>1, <3>2, NextShown
    <3>4. UNCHANGED cut
      BY <3>1
    <3> QED
      BY <3>1, <3>3, <3>4 DEF Abstract!Next, Abstract!Show
  <2>3. CASE FatalTrap /\ sent["irq"] = <<>>
    <3> DEFINE n == Len(sent["main"])
    <3>1. cut = <<>> /\ cut' = <<n>> /\ UNCHANGED <<out, sent>> /\ running # "trap"
      BY <2>3 DEF FatalTrap, uart
    <3>2. /\ sent["main"] \in Seq(Bytes) /\ out \in Seq(Bytes) /\ fifo \in Seq(Bytes)
          /\ Pending("main") \in Seq(Bytes)
      BY <1>2, PendingType DEF IInv, TypeOK, Contexts
    <3>3. Len(out) + Len(fifo) = n /\ Len(fifo) \in Nat /\ Len(out) \in Nat
      <4>1. out \o fifo = sent["main"]
        BY <1>2, <2>3, <3>1, <3>2, ConcatEmptySeq DEF RInv, TextInv, Order
      <4> QED
        BY <3>2, <4>1, ConcatProperties, LenProperties
    <3>4. /\ n + Len(Pending("main")) = Len(LineText(MainCalls))
          /\ Len(Pending("main")) \in Nat
      <4>1. sent["main"] \o Pending("main") = LineText(MainCalls)
        BY <1>2 DEF RInv, TextInv
      <4> QED
        BY <3>2, <4>1, ConcatProperties, LenProperties
    <3>5. n \in Len(out) .. Len(LineText(MainCalls))
      <4>1. ASSUME NEW a \in Nat, NEW f \in Nat, NEW p \in Nat
            PROVE  a + f \in a .. a + f + p
        OBVIOUS
      <4> QED
        BY <3>3, <3>4, <4>1
    <3> QED
      BY <3>1, <3>5 DEF Abstract!Next, Abstract!Stop
  <2>4. CASE UartInit \/ Interrupt \/ IrqReturn
    BY <2>4 DEF UartInit, Interrupt, IrqReturn, uart, Abstract!vars
  <2>5. ASSUME NEW c \in Contexts, Step(c), sent["irq"] = <<>>, sent'["irq"] = <<>>
        PROVE  UNCHANGED Abstract!vars
    <3>1. UNCHANGED <<out, running>> /\ running = c
      BY <2>5 DEF Step, Begin, Poll, Store, StoreCr, Push, uart
    <3>2. c = "trap" => sent'["main"] = sent["main"]
      BY <1>2, <2>5 DEF Step, Begin, Poll, Store, StoreCr, Push, IInv, TypeOK, Contexts
    <3> QED
      BY <2>5, <3>1, <3>2 DEF Abstract!vars
  <2> QED
    BY <1>2, <2>1, <2>2, <2>3, <2>4, <2>5, <2>6, <2>7 DEF Next
<1>3. Init => RInv
  BY InitRInv
<1>4. IInv /\ RInv /\ [Next]_vars => RInv'
  BY NextRInv
<1> QED
  BY <1>1, <1>2, <1>3, <1>4, Inductive, PTL DEF Spec, Refines, Abstract!Spec
=============================================================================
