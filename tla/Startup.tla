------------------------------ MODULE Startup -------------------------------
(***************************************************************************)
(* The life of the firmware: _start of start.S loads .data and clears      *)
(* .bss, the C library calls _init of init.c and main, exit halts; a trap  *)
(* goes through trap_entry of entry.S and handle_trap of init.c.  Memory   *)
(* counts words, the stack counts frames of 32 words, of which a trap      *)
(* stores 31 registers.  Device accesses, output and clocks are other      *)
(* modules; the handlers and main are the application's.                   *)
(***************************************************************************)
EXTENDS Integers, Sequences

CONSTANTS
  Image,       \* the words of .data in flash, from _data_lma
  BssWords,    \* words from __bss_start to _end
  HeapWords,   \* words behind _end the model looks at
  Garbage,     \* what memory and registers hold before they are written
  Values,      \* what the program puts in registers
  Interrupts,  \* causes of interrupts
  Handled,     \* those handle_trap is compiled for, by USE_PLIC and USE_M_TIME
  Exceptions,  \* causes of exceptions
  HasFpu,      \* the F bit of misa
  CpuFreqAt,   \* where the linker puts the static cpu_freq of get_cpu_freq
  Frequencies, \* what get_cpu_freq measures
  MaxTraps     \* bound: nesting of traps

ASSUME StartupAssumption ==
  /\ Image \in Seq(Nat)
  /\ BssWords \in Nat /\ HeapWords \in Nat
  /\ CpuFreqAt \in Len(Image) .. Len(Image) + BssWords - 1
  /\ Frequencies \subseteq Nat
  /\ 0 \in Values
  /\ Interrupts \subseteq Nat /\ Exceptions \subseteq Nat
  /\ Handled \subseteq Interrupts
  /\ HasFpu \in BOOLEAN
  /\ MaxTraps \in Nat

\* Addresses of the linker script; _edata is __bss_start, all are aligned.
data      == 0
edata     == Len(Image)
bss_start == edata
end       == bss_start + BssWords

Ram == 0 .. end + HeapWords - 1

\* An integer register of each kind, saved by the caller, an argument, saved
\* by the callee; and one of the FPU, f registers and fcsr alike.
SavedRegs == {"t0", "a0", "s0"}
Regs      == SavedRegs \cup {"ft0"}

VARIABLES
  pc,        \* where the firmware is
  ram,       \* .data, .bss and the words behind
  from, to,  \* a0 and a1 of the loops
  regs, sp,  \* the registers; the stack pointer, in frames below _sp
  stack,     \* the frames trap_entry stored: registers, handle_trap's arguments
  csr,       \* mtvec, mepc, mcause and fields of mstatus
  mode,      \* privilege
  trapped,   \* history: what each open trap interrupted
  stale,     \* history: a trap has returned since mepc was written back last
  code       \* exit code

startupVars == <<pc, ram, from, to, regs, sp, stack, csr, mode, trapped, stale, code>>

\* A frame the trap entry has not written yet.
NoFrame == [regs |-> [r \in SavedRegs |-> Garbage], sp |-> 0, mcause |-> 0, epc |-> "reset"]

StartupInit ==
  /\ pc = "reset"
  /\ ram = [a \in Ram |-> Garbage]
  /\ from = 0 /\ to = 0
  /\ regs = [r \in Regs |-> Garbage]
  /\ sp = 0
  /\ stack = [f \in 1 .. MaxTraps + 1 |-> NoFrame]
  /\ csr = [mtvec |-> "unset", mepc |-> "reset", mcause |-> 0, mie |-> FALSE, mpie |-> FALSE,
            mpp |-> "M", fs |-> FALSE]
  /\ mode = "M"
  /\ trapped = << >>
  /\ stale = FALSE
  /\ code = -1

Goto(l) == pc' = l

\* la sp, mtvec; then the pointers of the first loop.
Reset ==
  /\ pc = "reset" /\ Goto("data")
  /\ sp' = 0
  /\ csr' = [csr EXCEPT !.mtvec = "trap_entry"]
  /\ from' = 1 /\ to' = data
  /\ UNCHANGED <<ram, regs, stack, mode, trapped, stale, code>>

CopyWord ==
  /\ pc = "data" /\ to < edata
  /\ ram' = [ram EXCEPT ![to] = Image[from]]
  /\ from' = from + 1 /\ to' = to + 1
  /\ UNCHANGED <<pc, regs, sp, stack, csr, mode, trapped, stale, code>>

DataLoaded ==
  /\ pc = "data" /\ to >= edata /\ Goto("bss")
  /\ from' = bss_start
  /\ to' = end
  /\ UNCHANGED <<ram, regs, sp, stack, csr, mode, trapped, stale, code>>

\* Mutant: the loop ends with bleu.
ClearWord_OneMore ==
  /\ pc = "bss" /\ from <= to
  /\ ram' = [ram EXCEPT ![from] = 0]
  /\ from' = from + 1
  /\ UNCHANGED <<pc, to, regs, sp, stack, csr, mode, trapped, stale, code>>

ClearWord ==
  /\ pc = "bss" /\ from < to
  /\ ram' = [ram EXCEPT ![from] = 0]
  /\ from' = from + 1
  /\ UNCHANGED <<pc, to, regs, sp, stack, csr, mode, trapped, stale, code>>

\* atexit(__libc_fini_array), then __libc_init_array calls _init.
BssCleared ==
  /\ pc = "bss" /\ from >= to /\ Goto("_init")
  /\ UNCHANGED <<ram, from, to, regs, sp, stack, csr, mode, trapped, stale, code>>

\* get_cpu_freq measures unless cpu_freq holds something already.
get_cpu_freq ==
  ram' \in IF ram[CpuFreqAt] # 0 THEN {ram}
           ELSE { [ram EXCEPT ![CpuFreqAt] = f] : f \in Frequencies }

\* Clocks, UART with the frequency in cpu_freq, and its first line; mtvec;
\* the FPU, for which mstatus is written as a whole.
_init ==
  /\ pc = "_init" /\ Goto("constructors")
  /\ get_cpu_freq
  /\ csr' = LET c == [csr EXCEPT !.mtvec = "trap_entry"]
            IN  IF HasFpu
                THEN [c EXCEPT !.fs = TRUE, !.mie = FALSE, !.mpie = FALSE, !.mpp = "U"]
                ELSE c
  /\ UNCHANGED <<from, to, regs, sp, stack, mode, trapped, stale, code>>

\* The application's constructors may turn interrupts on; then call main.
CallMain ==
  /\ pc = "constructors" /\ Goto("main")
  /\ csr' \in {csr, [csr EXCEPT !.mie = TRUE]}
  /\ sp' = sp + 1
  /\ regs' = [regs EXCEPT !["a0"] = 0]
  /\ UNCHANGED <<ram, from, to, stack, mode, trapped, stale, code>>

\* A statement of main: one register, or the interrupts turned on or off.
\* Its own variables in memory are not looked at.
MainStep ==
  /\ pc = "main"
  /\ \/ \E r \in (IF csr.fs THEN Regs ELSE SavedRegs), v \in Values :
          regs' = [regs EXCEPT ![r] = v] /\ UNCHANGED csr
     \/ csr' = [csr EXCEPT !.mie = ~@] /\ UNCHANGED regs
  /\ UNCHANGED <<pc, ram, from, to, sp, stack, mode, trapped, stale, code>>

\* main returns: exit, the destructors, __wrap_exit.
MainReturns ==
  /\ pc = "main" /\ Goto("exited")
  /\ code' = 0
  /\ UNCHANGED <<ram, from, to, regs, sp, stack, csr, mode, trapped, stale>>

-----------------------------------------------------------------------------
\* Traps

\* The core enters a trap: an interrupt when mie allows it, an exception anywhere.
Enter(cause) ==
  /\ Len(trapped) < MaxTraps
  /\ pc \notin {"reset", "lost", "exited"}
  /\ cause \in Interrupts => csr.mie
  /\ trapped' = Append(trapped, [regs |-> regs, sp |-> sp, pc |-> pc, mie |-> csr.mie])
  /\ csr' = [csr EXCEPT !.mepc = pc, !.mcause = cause,
                        !.mpie = csr.mie, !.mie = FALSE, !.mpp = mode]
  /\ mode' = "M"
  /\ Goto(csr.mtvec)
  /\ UNCHANGED <<ram, from, to, regs, sp, stack, stale, code>>

\* The registers a frame holds.
Saved(file) == [r \in SavedRegs |-> file[r]]

\* addi sp; store x1 to x31, x2 being sp; a0 = mcause, a1 = mepc, which
\* handle_trap keeps in its frame.
SaveRegs ==
  /\ pc = "trap_entry" /\ Goto("handle_trap")
  /\ sp' = sp + 1
  /\ stack' = [stack EXCEPT ![sp + 1] =
                 [regs |-> Saved(regs), sp |-> sp + 1, mcause |-> csr.mcause, epc |-> csr.mepc]]
  /\ regs' = [regs EXCEPT !["a0"] = Garbage]
  /\ UNCHANGED <<ram, from, to, csr, mode, trapped, stale, code>>

Frame == stack[sp]

\* Prints "trap", _exit(1 + mcause).
HandleFatal ==
  /\ pc = "handle_trap" /\ Frame.mcause \notin Handled /\ Goto("exited")
  /\ code' = 1 + Frame.mcause
  /\ UNCHANGED <<ram, from, to, regs, sp, stack, csr, mode, trapped, stale>>

HandleInterrupt ==
  /\ pc = "handle_trap" /\ Frame.mcause \in Handled /\ Goto("handler")
  /\ UNCHANGED <<ram, from, to, regs, sp, stack, csr, mode, trapped, stale, code>>

\* The application's handler may let interrupts nest.
Nest ==
  /\ pc = "handler"
  /\ csr' = [csr EXCEPT !.mie = ~@]
  /\ UNCHANGED <<pc, ram, from, to, regs, sp, stack, mode, trapped, stale, code>>

\* Nothing in handle_trap turns interrupts off again: a handler may return
\* with them on.  It leaves its own values in a0, t0 and ft0.
HandlerReturns ==
  /\ pc = "handler" /\ Goto("restore")
  /\ regs' = [r \in Regs |-> IF r \in {"a0", "t0"} \/ (r = "ft0" /\ csr.fs)
                              THEN Garbage ELSE regs[r]]
  /\ UNCHANGED <<ram, from, to, sp, stack, csr, mode, trapped, stale, code>>

\* Mutant: mepc is not written back.
WriteEpc_NoEpc ==
  /\ pc = "restore" /\ Goto("setmpp")
  /\ stale' = FALSE
  /\ UNCHANGED <<ram, from, to, regs, sp, stack, csr, mode, trapped, code>>

\* csrw mepc, a0: what handle_trap returned, the mepc of its frame.
WriteEpc ==
  /\ pc = "restore" /\ Goto("setmpp")
  /\ csr' = [csr EXCEPT !.mepc = Frame.epc]
  /\ stale' = FALSE
  /\ UNCHANGED <<ram, from, to, regs, sp, stack, mode, trapped, code>>

\* "Remain in M-mode after mret"
SetMpp ==
  /\ pc = "setmpp" /\ Goto("load")
  /\ csr' = [csr EXCEPT !.mpp = "M"]
  /\ UNCHANGED <<ram, from, to, regs, sp, stack, mode, trapped, stale, code>>

\* Load x1 to x31, sp among them, then move sp.
LoadRegs ==
  /\ pc = "load" /\ Goto("mret")
  /\ regs' = [r \in Regs |-> IF r \in SavedRegs THEN Frame.regs[r] ELSE regs[r]]
  /\ sp' = Frame.sp - 1
  /\ UNCHANGED <<ram, from, to, stack, csr, mode, trapped, stale, code>>

\* With interrupts on, another trap may have used mepc and mstatus since they
\* were written.  The core then goes elsewhere than the trap came from, or to
\* user mode; the model does not follow it there.
Mret ==
  /\ pc = "mret"
  /\ Goto(IF csr.mepc = trapped[Len(trapped)].pc /\ csr.mpp = "M" THEN csr.mepc ELSE "lost")
  /\ csr' = [csr EXCEPT !.mie = csr.mpie, !.mpie = TRUE, !.mpp = "U"]
  /\ mode' = csr.mpp
  /\ trapped' = SubSeq(trapped, 1, Len(trapped) - 1)
  /\ stale' = TRUE
  /\ UNCHANGED <<ram, from, to, regs, sp, stack, code>>

StartupNext ==
  \/ Reset \/ CopyWord \/ DataLoaded \/ ClearWord \/ BssCleared
  \/ _init \/ CallMain \/ MainStep \/ MainReturns
  \/ \E c \in Interrupts \cup Exceptions : Enter(c)
  \/ SaveRegs \/ HandleFatal \/ HandleInterrupt \/ Nest \/ HandlerReturns
  \/ WriteEpc \/ SetMpp \/ LoadRegs \/ Mret

StartupSpec == StartupInit /\ [][StartupNext]_startupVars

-----------------------------------------------------------------------------
(* Where the loops of start.S end, .data is as the image has it, .bss is    *)
(* cleared and no word behind _end is touched, empty sections included.    *)
(* When _init is through, only the frequency it measured has been added:   *)
(* no stale word has been taken for it; traps go to trap_entry and the FPU *)
(* is on exactly if there is one.                                          *)
Loaded(a) == ram[a] = IF a < edata THEN Image[a + 1] ELSE IF a < end THEN 0 ELSE Garbage

ImageReady ==
  /\ pc = "_init" => \A a \in Ram : Loaded(a)
  /\ pc = "constructors" =>
       /\ \A a \in Ram \ {CpuFreqAt} : Loaded(a)
       /\ ram[CpuFreqAt] \in Frequencies
       /\ csr.mtvec = "trap_entry"
       /\ csr.fs = HasFpu

(* Returning from a trap, however many were nested in it, leaves the       *)
(* integer registers, the stack pointer and the interrupt enable as it     *)
(* found them; and it goes back to where it struck, in machine mode,       *)
(* unless another trap has come and gone between the writing of mepc and   *)
(* mret (entry.S:51-90).  The registers of the FPU are not saved.          *)
Transparent ==
  Len(trapped') < Len(trapped) =>
    LET t == trapped[Len(trapped)]
    IN  /\ Saved(regs') = Saved(t.regs) /\ sp' = t.sp /\ csr'.mie = t.mie
        /\ ~stale => pc' = t.pc /\ mode' = "M"

TrapTransparent == [][Transparent]_startupVars
=============================================================================
