-------------------------------- MODULE Boot --------------------------------
(***************************************************************************)
(* The virtual platform from the command line to the end of the firmware:  *)
(* the launcher configures and starts the simulation, the reset generator  *)
(* of the testbench releases the core, the core runs the image, devices    *)
(* raise interrupts that reach the firmware through the wiring, and the    *)
(* simulation may end under it at any point.                               *)
(***************************************************************************)
EXTENDS Launcher, Platform, Startup

CONSTANTS
  Entry,       \* address of _start, which the ELF file names
  External     \* the interrupt of the PLIC

VARIABLES
  rst_n,   \* reset of the platform, low active
  waited   \* rst_gen has waited its 100 ns

bootVars == <<launcherVars, platformVars, startupVars, rst_n, waited>>

BootInit ==
  /\ LauncherInit /\ PlatformInit /\ StartupInit
  /\ rst_n = FALSE
  /\ waited = FALSE

Host ==
  /\ LauncherNext
  /\ UNCHANGED <<platformVars, startupVars, rst_n, waited>>

\* rst_gen: write false, wait 100 ns, write true.
HoldReset ==
  /\ host = "running" /\ ~waited
  /\ rst_n' = FALSE
  /\ waited' = TRUE
  /\ UNCHANGED <<launcherVars, platformVars, startupVars>>

ReleaseReset ==
  /\ host = "running" /\ waited
  /\ rst_n' = TRUE
  /\ UNCHANGED <<launcherVars, platformVars, startupVars, waited>>

\* The core runs the image when there is one and it starts at its entry.
RunsImage ==
  /\ host = "running" /\ rst_n
  /\ param.elf_file # Default
  /\ param.reset_address \in {Default, Entry}

Core(step) == RunsImage /\ step /\ UNCHANGED <<launcherVars, rst_n, waited>>

\* The drivers _init calls, like the program, use the registers of platform.h.
UseRegister == Core(pc = "_init" /\ Access /\ UNCHANGED startupVars)

InitReturns == Core(_init /\ bus' = NoAccess /\ UNCHANGED <<pin, raised, claims>>)

\* The application chooses what its pins carry; hello.c does so at the start
\* of main, here it comes before.
ChoosePin == Core(pc = "constructors" /\ SelectPin /\ UNCHANGED startupVars)

RunMain == Core((MainStep \/ MainReturns) /\ UNCHANGED platformVars)

LoadImage ==
  Core((Reset \/ CopyWord \/ DataLoaded \/ ClearWord \/ BssCleared) /\ UNCHANGED platformVars)

StartMain == Core(CallMain /\ pin' = NoPin /\ UNCHANGED <<bus, raised, claims>>)

RaiseLine == Core(pc = "main" /\ Raise /\ UNCHANGED startupVars)

\* The PLIC interrupts while a raised line is not claimed, in a handler of
\* another one, too.
TakeTrap ==
  Core(/\ \E c \in Interrupts \cup Exceptions :
            Enter(c) /\ (c = External => Pending # {})
       /\ UNCHANGED platformVars)

InPlicHandler == pc = "handler" /\ Frame.mcause = External

DispatchTrap ==
  Core(\/ (SaveRegs \/ HandleFatal \/ WriteEpc \/ SetMpp \/ LoadRegs \/ Mret) /\ UNCHANGED platformVars
       \/ HandleInterrupt /\ Frame.mcause # External /\ UNCHANGED platformVars
       \/ HandleInterrupt /\ Frame.mcause = External /\ ClaimSource)

RunHandler ==
  Core(\/ Nest /\ UNCHANGED platformVars
       \/ HandlerReturns /\ ~InPlicHandler /\ UNCHANGED platformVars
       \/ HandlerReturns /\ InPlicHandler /\ ServeSource)

BootNext ==
  \/ Host \/ HoldReset \/ ReleaseReset
  \/ LoadImage \/ UseRegister \/ InitReturns \/ ChoosePin \/ StartMain \/ RunMain
  \/ RaiseLine \/ TakeTrap \/ DispatchTrap \/ RunHandler

BootSpec == BootInit /\ [][BootNext]_bootVars
=============================================================================
