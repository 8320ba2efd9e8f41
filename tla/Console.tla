------------------------------- MODULE Console ------------------------------
(***************************************************************************)
(* Console output of the firmware (fw/bsp/libwrap): write, puts and the    *)
(* putchar of printf push bytes into the transmit FIFO of UART0, polling   *)
(* for room before each one; '\n' is followed by '\r'.  Three contexts     *)
(* share the UART, each preempting the one before it: the program, an      *)
(* interrupt handler that returns (handle_m_ext_interrupt or               *)
(* handle_m_time_interrupt of the application), and the fatal branch of    *)
(* handle_trap, which writes "trap", then exits through __wrap_exit and    *)
(* never returns.  Every access to the UART is a step of its own.          *)
(***************************************************************************)
EXTENDS Integers, Sequences, SequencesExt

CONSTANTS
  Depth,       \* entries of the transmit FIFO
  MainCalls,   \* the program's output calls, in order, __wrap_exit's included
  IrqCalls,    \* what an interrupt handler may print: lists of output calls
  TrapCalls,   \* those of handle_trap's fatal branch and of __wrap_exit
  MaxIrqs,     \* bound: interrupts the handler is entered for
  MayTrap      \* whether a fatal trap may happen

Contexts == {"main", "irq", "trap"}

\* A byte is a character ("c", ...), a line feed or a carriage return.
Bytes == {"c", "m", "h", "x", "nl", "cr"}

ttys == {1, 2}

CallRecords ==
  [fn : {"write", "puts"}, fd : 0 .. 3, buf : Seq(Bytes \ {"cr"})]

ASSUME ConsoleAssumption ==
  /\ Depth \in Nat \ {0}
  /\ MainCalls \in Seq(CallRecords)
  /\ IrqCalls \subseteq Seq(CallRecords)
  /\ TrapCalls \in Seq(CallRecords)
  /\ MaxIrqs \in Nat
  /\ MayTrap \in BOOLEAN

VARIABLES
  txen,     \* UART TXCTRL: uart_init sets it
  fifo,     \* the transmit FIFO
  out,      \* bytes that have left on the line
  running,  \* the context the CPU executes
  pc,       \* per context: where it is in the output functions
  calls,    \* per context: output calls not begun yet
  todo,     \* per context: bytes of the current call not stored yet
  irqs,     \* interrupts taken
  lost,     \* stores the UART dropped because the FIFO was full
  sent      \* history: the bytes stored, dropped or not, per context

uart == <<txen, fifo, out>>
vars == <<txen, fifo, out, running, pc, calls, todo, irqs, lost, sent>>

Labels == {"boot", "next", "poll", "store", "poll_cr", "store_cr"}

Init ==
  /\ txen    = FALSE
  /\ fifo    = <<>>
  /\ out     = <<>>
  /\ running = "main"
  /\ pc      = [c \in Contexts |-> IF c = "main" THEN "boot" ELSE "next"]
  /\ calls   = [c \in Contexts |-> IF c = "main" THEN MainCalls ELSE <<>>]
  /\ todo    = [c \in Contexts |-> <<>>]
  /\ irqs    = 0
  /\ lost    = 0
  /\ sent    = [c \in Contexts |-> <<>>]

-----------------------------------------------------------------------------

\* The UART shifts the oldest byte out.
Drain ==
  /\ txen
  /\ fifo # <<>>
  /\ out'  = Append(out, Head(fifo))
  /\ fifo' = Tail(fifo)
  /\ UNCHANGED <<txen, running, pc, calls, todo, irqs, lost, sent>>

\* A store to TXFIFO: a full FIFO drops the byte.
Push(c, b) ==
  /\ IF Len(fifo) < Depth
       THEN fifo' = Append(fifo, b) /\ UNCHANGED lost
       ELSE lost' = lost + 1 /\ UNCHANGED fifo
  /\ sent' = [sent EXCEPT ![c] = Append(@, b)]
  /\ UNCHANGED <<txen, out>>

-----------------------------------------------------------------------------

UartInit_NoTxen ==
  /\ running = "main"
  /\ pc["main"] = "boot"
  /\ pc' = [pc EXCEPT !["main"] = "next"]
  /\ UNCHANGED <<uart, running, calls, todo, irqs, lost, sent>>

\* uart_init, called from _init before main
UartInit ==
  /\ running = "main"
  /\ pc["main"] = "boot"
  /\ txen' = TRUE
  /\ pc'   = [pc EXCEPT !["main"] = "next"]
  /\ UNCHANGED <<fifo, out, running, calls, todo, irqs, lost, sent>>

\* write rejects what is not a tty before it looks at the bytes; puts does not ask.
Accepted(call) == call.fn = "puts" \/ call.fd \in ttys

Begin_StdoutOnly(c) ==
  /\ running = c
  /\ pc[c] = "next"
  /\ calls[c] # <<>>
  /\ calls' = [calls EXCEPT ![c] = Tail(@)]
  /\ LET call == Head(calls[c])
     IN  IF call.fd = 1 /\ call.buf # <<>>
           THEN /\ todo' = [todo EXCEPT ![c] = call.buf]
                /\ pc'   = [pc EXCEPT ![c] = "poll"]
           ELSE UNCHANGED <<todo, pc>>
  /\ UNCHANGED <<uart, running, irqs, lost, sent>>

Begin(c) ==
  /\ running = c
  /\ pc[c] = "next"
  /\ calls[c] # <<>>
  /\ calls' = [calls EXCEPT ![c] = Tail(@)]
  /\ LET call == Head(calls[c])
     IN  IF Accepted(call) /\ call.buf # <<>>
           THEN /\ todo' = [todo EXCEPT ![c] = call.buf]
                /\ pc'   = [pc EXCEPT ![c] = "poll"]
           ELSE UNCHANGED <<todo, pc>>
  /\ UNCHANGED <<uart, running, irqs, lost, sent>>

\* while (TXFIFO & 0x80000000) ;
Poll(c) ==
  /\ running = c
  /\ pc[c] \in {"poll", "poll_cr"}
  /\ Len(fifo) < Depth
  /\ pc' = [pc EXCEPT ![c] = IF @ = "poll" THEN "store" ELSE "store_cr"]
  /\ UNCHANGED <<uart, running, calls, todo, irqs, lost, sent>>

NextByte_NoPoll(c) ==
  /\ todo' = [todo EXCEPT ![c] = Tail(@)]
  /\ pc'   = [pc EXCEPT ![c] = IF Len(todo[c]) > 1 THEN "store" ELSE "next"]

\* The loop goes on with the byte behind the first of todo[c], or ends.
NextByte(c) ==
  /\ todo' = [todo EXCEPT ![c] = Tail(@)]
  /\ pc'   = [pc EXCEPT ![c] = IF Len(todo[c]) > 1 THEN "poll" ELSE "next"]

Store_NoCr(c) ==
  /\ running = c
  /\ pc[c] = "store"
  /\ Push(c, Head(todo[c]))
  /\ NextByte(c)
  /\ UNCHANGED <<running, calls, irqs>>

Store_CrInBuffer(c) ==
  /\ running = c
  /\ pc[c] = "store"
  /\ Push(c, Head(todo[c]))
  /\ IF Head(todo[c]) = "nl"
       THEN /\ todo' = [todo EXCEPT ![c] = <<"cr">> \o Tail(@)]
            /\ pc'   = [pc EXCEPT ![c] = "poll"]
       ELSE NextByte(c)
  /\ UNCHANGED <<running, calls, irqs>>

Store(c) ==
  /\ running = c
  /\ pc[c] = "store"
  /\ Push(c, Head(todo[c]))
  /\ IF Head(todo[c]) = "nl"
       THEN pc' = [pc EXCEPT ![c] = "poll_cr"] /\ UNCHANGED todo
       ELSE NextByte(c)
  /\ UNCHANGED <<running, calls, irqs>>

StoreCr(c) ==
  /\ running = c
  /\ pc[c] = "store_cr"
  /\ Push(c, "cr")
  /\ NextByte(c)
  /\ UNCHANGED <<running, calls, irqs>>

Step(c) ==
  \/ Begin(c)
  \/ Poll(c)
  \/ Store(c)
  \/ StoreCr(c)

\* trap_entry with a cause an application handler serves; MIE is off in it.
Interrupt ==
  /\ running = "main"
  /\ pc["main"] # "boot"
  /\ irqs < MaxIrqs
  /\ irqs'    = irqs + 1
  /\ running' = "irq"
  /\ \E cs \in IrqCalls : calls' = [calls EXCEPT !["irq"] = cs]
  /\ UNCHANGED <<uart, pc, todo, lost, sent>>

\* handle_trap returns epc, mret
IrqReturn ==
  /\ running = "irq"
  /\ pc["irq"] = "next"
  /\ calls["irq"] = <<>>
  /\ running' = "main"
  /\ UNCHANGED <<uart, pc, calls, todo, irqs, lost, sent>>

\* Any other cause, in the program or in the handler.
FatalTrap ==
  /\ MayTrap
  /\ running # "trap"
  /\ running' = "trap"
  /\ calls'   = [calls EXCEPT !["trap"] = TrapCalls]
  /\ UNCHANGED <<uart, pc, todo, irqs, lost, sent>>

Next ==
  \/ Drain
  \/ UartInit
  \/ \E c \in Contexts : Step(c)
  \/ Interrupt
  \/ IrqReturn
  \/ FatalTrap

Spec == Init /\ [][Next]_vars

\* The line sends, and the CPU executes the context it is in.
FairSpec ==
  /\ Spec
  /\ WF_vars(Drain)
  /\ WF_vars(UartInit)
  /\ \A c \in Contexts : WF_vars(Step(c))
  /\ WF_vars(IrqReturn)

-----------------------------------------------------------------------------
(***************************************************************************)
(* Properties                                                              *)
(***************************************************************************)

TypeOK ==
  /\ txen    \in BOOLEAN
  /\ fifo    \in Seq(Bytes)
  /\ out     \in Seq(Bytes)
  /\ running \in Contexts
  /\ pc      \in [Contexts -> Labels]
  /\ calls   \in [Contexts -> Seq(CallRecords)]
  /\ todo    \in [Contexts -> Seq(Bytes \ {"cr"})]
  /\ irqs    \in 0 .. MaxIrqs
  /\ lost    \in Nat
  /\ sent    \in [Contexts -> Seq(Bytes)]

\* The poll and the store are two accesses: only an interrupt between them
\* can fill the FIFO, so each interrupt costs at most one byte, and none is
\* lost without interrupts, whenever a fatal trap strikes.
LossBounded == lost <= irqs

\* What a sequence of calls puts on the line: the bytes of the accepted
\* ones, '\n' as '\n' '\r'.
Expand(buf) == FlattenSeq([i \in 1 .. Len(buf) |->
                             IF buf[i] = "nl" THEN <<"nl", "cr">> ELSE <<buf[i]>>])
LineText(cs) ==
  FlattenSeq([i \in 1 .. Len(cs) |-> IF Accepted(cs[i]) THEN Expand(cs[i].buf) ELSE <<>>])

\* Until a handler prints, the terminal shows the program's text and, after
\* a fatal trap, the trap's behind the part the program had stored.
Abstract == INSTANCE ConsoleSpec
              WITH ProgramText <- LineText(MainCalls),
                   TrapText    <- LineText(TrapCalls),
                   shown       <- out,
                   cut         <- IF running = "trap" THEN <<Len(sent["main"])>> ELSE <<>>,
                   mixed       <- sent["irq"] # <<>>
Refines == Abstract!Spec

\* Nothing is stored while the transmitter is off, unless a trap strikes
\* before uart_init; so the program never waits for a FIFO that cannot drain.
SilentBeforeInit == ~txen /\ running # "trap" => fifo = <<>>

\* A program that is not stopped stores all of its text, whatever handlers
\* print in between, and without that the terminal shows all of it.
AllPrinted ==
  <>[]( \/ running = "trap"
        \/ /\ sent["main"] = LineText(MainCalls)
           /\ fifo = <<>>
           /\ sent["irq"] = <<>> => out = LineText(MainCalls) )

\* A fatal trap after uart_init always gets its report out.
TrapReported ==
  (running = "trap" /\ txen) ~> (sent["trap"] = LineText(TrapCalls) /\ fifo = <<>>)
=============================================================================
