-------------------------------- MODULE Heap --------------------------------
(***************************************************************************)
(* The heap of the firmware: malloc and free of libwrap/stdlib/malloc.c on *)
(* sbrk of libwrap/sys/sbrk.c.  The break grows from _end to _heap_end of  *)
(* the linker script; free does nothing.  Addresses are machine words: the *)
(* sum of the break and the increment wraps, and a request malloc hands to *)
(* sbrk(long) is the same word read as a signed number.                    *)
(***************************************************************************)
EXTENDS Integers, Sequences

CONSTANTS
  AddrMod,     \* number of addresses, 2^32 on rv32
  End,         \* _end
  HeapEnd,     \* _heap_end
  Requests,    \* sizes the program asks malloc for
  MaxBlocks    \* bound: blocks the program allocates

\* The heap is less than half of the address space: the RAM has 16K.  A
\* program may ask for any size, up to the largest unsigned long.
ASSUME HeapAssumption ==
  /\ AddrMod \in Nat
  /\ End \in Nat \ {0}
  /\ HeapEnd \in Nat
  /\ End <= HeapEnd
  /\ HeapEnd < AddrMod - 1
  /\ 2 * (HeapEnd - End) < AddrMod
  /\ Requests \subseteq 0 .. AddrMod - 1
  /\ MaxBlocks \in Nat

VARIABLES
  curbrk,   \* the static of sbrk
  res,      \* what the last malloc returned, 0 for NULL
  asked,    \* the size it was asked for
  blocks    \* history: the blocks malloc returned, free'd or not

vars == <<curbrk, res, asked, blocks>>

NULL == 0

Init ==
  /\ curbrk = End
  /\ res    = NULL
  /\ asked  = 0
  /\ blocks = <<>>

\* curbrk + incr, as a machine word
BreakPlus(incr) == IF curbrk + incr < AddrMod THEN curbrk + incr ELSE curbrk + incr - AddrMod

SbrkFails_NoLowerBound(incr) == BreakPlus(incr) > HeapEnd
SbrkFails_Closed(incr) == BreakPlus(incr) < End \/ BreakPlus(incr) >= HeapEnd

\* sbrk fails with NULL - 1, which malloc turns into NULL.
SbrkFails(incr) == BreakPlus(incr) < End \/ BreakPlus(incr) > HeapEnd

Malloc_NewBreak(sz) ==
  /\ Len(blocks) < MaxBlocks
  /\ asked' = sz
  /\ IF SbrkFails(sz)
       THEN /\ res' = NULL
            /\ UNCHANGED <<curbrk, blocks>>
       ELSE /\ curbrk' = BreakPlus(sz)
            /\ res'    = BreakPlus(sz)
            /\ blocks' = Append(blocks, [base |-> BreakPlus(sz), size |-> sz])

Malloc(sz) ==
  /\ Len(blocks) < MaxBlocks
  /\ asked' = sz
  /\ IF SbrkFails(sz)
       THEN /\ res' = NULL
            /\ UNCHANGED <<curbrk, blocks>>
       ELSE /\ curbrk' = BreakPlus(sz)
            /\ res'    = curbrk
            /\ blocks' = Append(blocks, [base |-> curbrk, size |-> sz])

Next == \E sz \in Requests : Malloc(sz)

Spec == Init /\ [][Next]_vars

-----------------------------------------------------------------------------
(***************************************************************************)
(* Properties                                                              *)
(***************************************************************************)

Blocks == [base : End .. HeapEnd, size : Requests]

TypeOK ==
  /\ curbrk \in End .. HeapEnd
  /\ res    \in {NULL} \cup End .. HeapEnd
  /\ asked  \in Nat
  /\ blocks \in Seq(Blocks)

\* A request of AddrMod - n is the increment -n: when as much is in use, malloc
\* grants it, and the break moves down into the blocks it has handed out.
GrantedTooMuch == \E i \in 1 .. Len(blocks) : blocks[i].size > HeapEnd - End

\* Blocks never share an address and never reach past the break, so the stack
\* above _heap_end is safe from them, whatever was refused in between, until
\* malloc grants a block larger than the whole heap.
BlocksDisjoint ==
  ~GrantedTooMuch =>
    /\ \A i \in 1 .. Len(blocks) : blocks[i].base + blocks[i].size <= curbrk
    /\ \A i, j \in 1 .. Len(blocks) :
         i < j => blocks[i].base + blocks[i].size <= blocks[j].base

\* malloc refuses only what does not fit above the break.
RefusesOnlyTooLarge == [][res' = NULL => asked' > HeapEnd - curbrk]_vars
=============================================================================
