---------------------------- MODULE ConsoleSpec -----------------------------
(***************************************************************************)
(* What a terminal on the UART of the firmware shows: the program's text,  *)
(* byte by byte, and after a fatal trap, from some point of that text on,  *)
(* the text of the trap handler instead; what it shows once an interrupt   *)
(* handler has printed too is left open.                                   *)
(***************************************************************************)
EXTENDS Naturals, Sequences

CONSTANTS
  ProgramText,  \* all the bytes of the program's output calls
  TrapText      \* all the bytes of the fatal trap handler's

VARIABLES
  shown,   \* the bytes on the terminal
  cut,     \* <<>>, or <<n>> when the program was stopped after n bytes
  mixed    \* an interrupt handler has printed

vars == <<shown, cut, mixed>>

Init ==
  /\ shown = <<>>
  /\ cut = <<>>
  /\ mixed = FALSE

Text == IF cut = <<>> THEN ProgramText
                      ELSE SubSeq(ProgramText, 1, cut[1]) \o TrapText

Show ==
  /\ Len(shown) < Len(Text)
  /\ shown' = Append(shown, Text[Len(shown) + 1])
  /\ UNCHANGED <<cut, mixed>>

Stop ==
  /\ cut = <<>>
  /\ \E n \in Len(shown) .. Len(ProgramText) : cut' = <<n>>
  /\ UNCHANGED <<shown, mixed>>

\* A handler prints, or has printed: no promise but that it stays so.
Mix == mixed' = TRUE

Next == Show \/ Stop \/ Mix

Spec == Init /\ [][Next]_vars
=============================================================================
