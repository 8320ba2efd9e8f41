-------------------------------- MODULE Clic --------------------------------
(***************************************************************************)
(* The CLIC driver of fw/bsp/drivers/clic/clic_driver.c.  A byte register  *)
(* is the set of its bits that are 1, so that | is a union and a shift     *)
(* moves every member.  The program calls the driver; an interrupt handler *)
(* may call it too, between the program's read of clicintcfg and its write *)
(* back.                                                                   *)
(***************************************************************************)
EXTENDS Integers

CONSTANTS
  ClicSources,     \* 0 .. num_irq - 1
  ConfigBits,      \* num_config_bits: the high bits of clicintcfg in hardware
  Handlers,        \* interrupt functions
  ClicCalls,       \* the calls of the program
  HandlerClicCalls \* those of its interrupt handler

Bits == 0 .. 7

\* nlbits = (cliccfg >> 1) & 0x7
NlBits(cfg) ==
  (IF 1 \in cfg THEN 1 ELSE 0) + (IF 2 \in cfg THEN 2 ELSE 0) + (IF 3 \in cfg THEN 4 ELSE 0)

SourceCalls ==
  [ fn : {"install", "enable", "disable", "set_pending", "clear_pending", "set_intcfg",
          "set_int_level", "set_int_priority"},
    src : ClicSources, val : SUBSET Bits, handler : Handlers ]

\* Nothing checks the arguments.  More level bits than the hardware has would
\* make a shift count negative; a handler does not set the CLIC up.
ASSUME ClicAssumption ==
  /\ ConfigBits \in 0 .. 8
  /\ ClicCalls \subseteq SourceCalls \cup [fn : {"init", "set_cliccfg"}, val : SUBSET Bits]
  /\ \A c \in ClicCalls : c.fn = "set_cliccfg" => NlBits(c.val) <= ConfigBits
  /\ HandlerClicCalls \subseteq SourceCalls

VARIABLES
  intie, intip,   \* sources enabled, sources pending
  intcfg,         \* clicintcfg of each source
  cliccfg,        \* cliccfg
  vect_table,     \* handler of each source, "garbage" when nothing stored one
  current_intcfg, \* of the program, between its read and its write
  writing,        \* the program's call between the two, "none" outside
  raced           \* history: the handler wrote that clicintcfg between the two

clicRegs == <<intie, intip, intcfg, cliccfg, vect_table>>
clicVars == <<intie, intip, intcfg, cliccfg, vect_table, current_intcfg, writing, raced>>

None == [fn |-> "none"]

\* clic_init has not been called; the registers hold what reset leaves.
ClicInit ==
  /\ intie = {} /\ intip = {}
  /\ intcfg = [s \in ClicSources |-> {}]
  /\ cliccfg = {}
  /\ vect_table = [s \in ClicSources |-> "garbage"]
  /\ current_intcfg = {} /\ writing = None
  /\ raced = FALSE

-----------------------------------------------------------------------------

ShiftRight(v, n) == { b - n : b \in v } \cap Bits
ShiftLeft(v, n)  == { b + n : b \in v } \cap Bits

\* Mutant: the shift binds tighter, as its layout suggests.
LevelByte_Precedence(v) ==
  LET kept == ShiftRight(v, ConfigBits - NlBits(cliccfg))
  IN  ShiftLeft(kept, 8 - ConfigBits)

\* clic_set_int_level: `+' binds tighter than `<<'
LevelByte(v) ==
  LET kept == ShiftRight(v, ConfigBits - NlBits(cliccfg))
  IN  ShiftLeft(kept, (8 - ConfigBits) + (ConfigBits - NlBits(cliccfg)))

\* clic_set_int_priority: `if(priority_bits = 0)' clears priority_bits and is
\* not taken; the priority is then shifted right by 8 bits.
PriorityByte(v) == ShiftLeft(ShiftRight(v, 8 - 0), 8 - ConfigBits)

\* clic_get_int_level
GetLevel(s) ==
  ShiftRight(ShiftRight(intcfg[s], 8 - ConfigBits), ConfigBits - NlBits(cliccfg))

\* What an ORing call puts into clicintcfg.
OrByte(c) == IF c.fn = "set_int_level" THEN LevelByte(c.val) ELSE PriorityByte(c.val)

\* The loop that would fill vect_table has its condition and its increment
\* swapped: it ends before the first store.
ClicInitialise(c) ==
  /\ c.fn = "init"
  /\ intie' = {} /\ intip' = {} /\ cliccfg' = {}
  /\ UNCHANGED <<intcfg, vect_table, raced>>

SetCliccfg(c) ==
  /\ c.fn = "set_cliccfg"
  /\ cliccfg' = c.val
  /\ UNCHANGED <<intie, intip, intcfg, vect_table, raced>>

InstallHandler(c) ==
  /\ c.fn = "install"
  /\ vect_table' = [vect_table EXCEPT ![c.src] = c.handler]
  /\ UNCHANGED <<intie, intip, intcfg, cliccfg, raced>>

SetEnable(c) ==
  /\ c.fn \in {"enable", "disable"}
  /\ intie' = IF c.fn = "enable" THEN intie \cup {c.src} ELSE intie \ {c.src}
  /\ UNCHANGED <<intip, intcfg, cliccfg, vect_table, raced>>

SetPending(c) ==
  /\ c.fn \in {"set_pending", "clear_pending"}
  /\ intip' = IF c.fn = "set_pending" THEN intip \cup {c.src} ELSE intip \ {c.src}
  /\ UNCHANGED <<intie, intcfg, cliccfg, vect_table, raced>>

\* Between the program's read of that very register and its write back?
Races(s) == writing # None /\ writing.src = s

SetIntcfg(c) ==
  /\ c.fn = "set_intcfg"
  /\ intcfg' = [intcfg EXCEPT ![c.src] = c.val]
  /\ raced' = (raced \/ Races(c.src))
  /\ UNCHANGED <<intie, intip, cliccfg, vect_table>>

\* The calls that write a register in one access.
DirectCall(c) ==
  \/ ClicInitialise(c)
  \/ SetCliccfg(c)
  \/ InstallHandler(c)
  \/ SetEnable(c)
  \/ SetPending(c)
  \/ SetIntcfg(c)

ClicCall(c) ==
  /\ writing = None
  /\ DirectCall(c)
  /\ UNCHANGED <<current_intcfg, writing>>

\* clic_set_int_level and clic_set_int_priority: current_intcfg is read ...
ReadIntcfg(c) ==
  /\ writing = None
  /\ c.fn \in {"set_int_level", "set_int_priority"}
  /\ current_intcfg' = intcfg[c.src]
  /\ writing' = c
  /\ raced' = FALSE
  /\ UNCHANGED clicRegs

\* ... and written back
WriteIntcfg ==
  /\ writing # None
  /\ intcfg' = [intcfg EXCEPT ![writing.src] = current_intcfg \cup OrByte(writing)]
  /\ writing' = None
  /\ UNCHANGED <<intie, intip, cliccfg, vect_table, current_intcfg, raced>>

\* A call of the handler, which runs to its end before the program goes on.
HandlerCall(c) ==
  /\ writing # None
  /\ \/ DirectCall(c)
     \/ /\ c.fn \in {"set_int_level", "set_int_priority"}
        /\ intcfg' = [intcfg EXCEPT ![c.src] = @ \cup OrByte(c)]
        /\ raced' = (raced \/ Races(c.src))
        /\ UNCHANGED <<intie, intip, cliccfg, vect_table>>
  /\ UNCHANGED <<current_intcfg, writing>>

ClicNext ==
  \/ \E c \in ClicCalls : ClicCall(c) \/ ReadIntcfg(c)
  \/ WriteIntcfg
  \/ \E c \in HandlerClicCalls : HandlerCall(c)

ClicSpec == ClicInit /\ [][ClicNext]_clicVars

-----------------------------------------------------------------------------
(***************************************************************************)
(* Properties                                                              *)
(***************************************************************************)

\* The bits of clicintcfg cliccfg makes the level; those below are the
\* priority, down to the bits the hardware lacks.
LevelField == (8 - NlBits(cliccfg)) .. 7

\* A level is a number of ConfigBits bits, of which the highest nlbits count;
\* a priority is a byte, of which the highest bits count.  Both as they lie
\* in clicintcfg.
LevelAsked(c)    == ShiftLeft(c.val, 8 - ConfigBits) \cap LevelField
PriorityAsked(c) == ShiftLeft(ShiftRight(c.val, 8 - (ConfigBits - NlBits(cliccfg))), 8 - ConfigBits)

\* The program's call writes the register back and returns.
Completes(fn) == writing.fn = fn /\ writing' = None

\* A call that sets a level leaves it in the level field, where it reads back,
\* whatever a handler has done to the register in between; a call for level
\* or priority leaves the bits of the other one alone, unless a handler has
\* written the register in between, whose write it undoes.
LevelPlaced ==
  [][ /\ \A s \in ClicSources : Completes("set_int_level") /\ s = writing.src =>
           \A b \in LevelAsked(writing) : b - (8 - NlBits(cliccfg)) \in GetLevel(s)'
      /\ Completes("set_int_level") /\ ~raced =>
           intcfg'[writing.src] \ LevelField = intcfg[writing.src] \ LevelField
      /\ Completes("set_int_priority") /\ ~raced =>
           intcfg'[writing.src] \cap LevelField = intcfg[writing.src] \cap LevelField ]_clicVars

\* clic_driver.c:122, clic_driver.h:37, "sets an interrupt priority": the
\* priority asked for is in the register.
PrioritySet ==
  [][Completes("set_int_priority") => PriorityAsked(writing) \subseteq intcfg'[writing.src]]_clicVars
=============================================================================
