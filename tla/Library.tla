------------------------------ MODULE Library -------------------------------
(***************************************************************************)
(* The library functions and drivers the application calls: malloc,        *)
(* printf, the CLIC driver and the trim search.  They share no state, so a *)
(* behaviour explores one of them, and the others stay as reset left them. *)
(***************************************************************************)
EXTENDS Heap, Printf, Clic, FreqTrim

VARIABLE part   \* the part the program uses

libVars == <<part, vars, printfVars, clicVars, trimVars>>

Parts == {"heap", "printf", "clic", "trim"}

LibInit ==
  /\ part \in Parts
  /\ Init
  /\ PrintfInit /\ (part # "printf" => print = CHOOSE c \in PrintCalls : TRUE)
  /\ ClicInit
  /\ TrimInit /\ (part # "trim" => request = CHOOSE c \in TrimCalls : TRUE) /\ trim = 0

LibNext ==
  \/ part = "heap"   /\ Next       /\ UNCHANGED <<part, printfVars, clicVars, trimVars>>
  \/ part = "printf" /\ PrintfNext /\ UNCHANGED <<part, vars, clicVars, trimVars>>
  \/ part = "clic"   /\ ClicNext   /\ UNCHANGED <<part, vars, printfVars, trimVars>>
  \/ part = "trim"   /\ TrimNext   /\ UNCHANGED <<part, vars, printfVars, clicVars>>

LibSpec == LibInit /\ [][LibNext]_libVars
=============================================================================
