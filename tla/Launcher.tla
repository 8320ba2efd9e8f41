------------------------------ MODULE Launcher ------------------------------
(***************************************************************************)
(* sc_main and CLIParser: the command line and the configuration file      *)
(* become the parameters of the platform, then the simulation runs until   *)
(* max_time, a stop or a reported error.  The scc and CCI libraries keep   *)
(* the parameters: the last of configure and set_value decides.  Options   *)
(* have their name with _ for -.                                           *)
(***************************************************************************)
EXTENDS Integers

CONSTANTS
  CommandLines,   \* functions from the options given to their arguments
  ConfigFiles,    \* functions from the parameters a file gives to their values
  Default         \* what the model itself gives a parameter

VARIABLES
  host,      \* where sc_main is
  cli,       \* vm_, without the defaults
  file,      \* what the configuration file gives, nothing without one
  param,     \* parameters of core_complex, and the global quantum, which is none
  level,     \* reporting level of the loggers DEFAULT and connection
  tracer,    \* the configurable_tracer
  dumped,    \* the parameters dump-config wrote
  status     \* exit status, -1 while the program runs

launcherVars == <<host, cli, file, param, level, tracer, dumped, status>>

\* The option that sets a parameter.
OptionOf ==
  [gdb_server_port |-> "gdb_port", dump_ir |-> "dump_ir", backend |-> "backend",
   core_type |-> "isa", plugins |-> "plugin", elf_file |-> "elf", quantum |-> "quantum",
   reset_address |-> "reset", enable_disass |-> "disass"]

Params == DOMAIN OptionOf

\* The quantum of the TLM library is not a parameter a file could give.
FileParams == Params \ {"quantum"}

\* Set whether or not the option is given.
AlwaysSet == {"gdb_server_port", "dump_ir", "backend", "core_type"}

\* build: every option but these is without an argument when it is not given.
OptionDefault ==
  [verbose |-> 4, backend |-> "interp", isa |-> "tgc5c", gdb_port |-> 0, dump_ir |-> FALSE,
   trace_level |-> 0, config_file |-> "", dump_config |-> ""]

Given(o) == o \in DOMAIN cli
Get(o)   == IF Given(o) THEN cli[o] ELSE OptionDefault[o]

backend_opts == {"interp", "tcc", "llvm", "asmjit"}

ModelDefault == [p \in Params |-> Default]

LauncherInit ==
  /\ host = "parse"
  /\ cli \in CommandLines
  /\ file = << >>
  /\ param = ModelDefault
  /\ level = [DEFAULT |-> 0, connection |-> 0]
  /\ tracer = << >>
  /\ dumped = << >>
  /\ status = -1

\* CLIParser: an option that is not declared, or an illegal backend, exits;
\* help prints and goes on.
ParseFails == Given("undeclared") \/ Get("backend") \notin backend_opts

ParseError ==
  /\ host = "parse" /\ ParseFails
  /\ host' = "done"
  /\ status' = 255
  /\ UNCHANGED <<cli, file, param, level, tracer, dumped>>

Parse ==
  /\ host = "parse" /\ ~ParseFails
  /\ LET v == Get("verbose")
     IN  level' = [DEFAULT    |-> IF v > 6 THEN 6 ELSE v,
                   connection |-> IF v > 4 THEN v - 1 ELSE v]
  /\ host' = "elaborate"
  /\ UNCHANGED <<cli, file, param, tracer, dumped, status>>

\* configurer, tracer, testbench; dump-config shows what the model starts with.
Elaborate ==
  /\ host = "elaborate"
  /\ file' \in IF Get("config_file") = "" THEN {<< >>} ELSE ConfigFiles
  /\ tracer' = IF Get("trace_level") = 0 THEN << >>
               ELSE [signals |-> Get("trace_level") % 2 # 0, tx |-> Get("trace_level") \div 2,
                     all |-> Given("trace_default_on")]
  /\ dumped' = IF Get("dump_config") = "" THEN dumped ELSE param
  /\ host' = "configure"
  /\ UNCHANGED <<cli, param, level, status>>

FromFile(p) == p \in DOMAIN file /\ p \in FileParams

Configure ==
  /\ host = "configure"
  /\ param' = [p \in Params |-> IF FromFile(p) THEN file[p] ELSE param[p]]
  /\ host' = "override"
  /\ UNCHANGED <<cli, file, level, tracer, dumped, status>>

\* stoull with base 16 behind 0x, with base 10 otherwise, where it reads the 0
\* of 0X and stops; it throws when there is no digit.
StoullThrows(t) == t.digits = 0 /\ t.prefix # "0X"
StartAddress(t) == IF t.prefix = "0X" THEN 0 ELSE t.value

\* The value set_value is called with.
Override(p) ==
  CASE p = "reset_address" -> StartAddress(cli["reset"])
    [] p = "enable_disass" -> TRUE
    [] OTHER               -> Get(OptionOf[p])

\* The address is read outside the try block: the exception leaves sc_main,
\* SystemC's main function reports it and returns 1.
BadAddress == Given("reset") /\ StoullThrows(cli["reset"])

OverrideAborts ==
  /\ host = "override" /\ BadAddress
  /\ host' = "done"
  /\ status' = 1
  /\ UNCHANGED <<cli, file, param, level, tracer, dumped>>

\* Mutant: configure comes after the overrides.
OverrideConfig_ConfigureLast ==
  /\ host = "override" /\ ~BadAddress
  /\ param' = [p \in Params |-> IF FromFile(p) THEN file[p]
                                ELSE IF p \in AlwaysSet \/ Given(OptionOf[p])
                                THEN Override(p) ELSE param[p]]
  /\ host' = "running"
  /\ UNCHANGED <<cli, file, level, tracer, dumped, status>>

\* set_value of what is always set and of what is given; sc_start.
OverrideConfig ==
  /\ host = "override" /\ ~BadAddress
  /\ param' = [p \in Params |-> IF p \in AlwaysSet \/ Given(OptionOf[p])
                                THEN Override(p) ELSE param[p]]
  /\ host' = "running"
  /\ UNCHANGED <<cli, file, level, tracer, dumped, status>>

\* sc_start returns at max_time and sc_main stops the simulation; the model
\* or an SC_ERROR stops it; or an sc_report is caught, displayed, and stops it.
SimulationEnds(why) ==
  /\ host = "running"
  /\ why = "max_time" => Given("max_time")
  /\ host' = "stopped"
  /\ UNCHANGED <<cli, file, param, level, tracer, dumped, status>>

ReturnZero ==
  /\ host = "stopped"
  /\ host' = "done"
  /\ status' = 0
  /\ UNCHANGED <<cli, file, param, level, tracer, dumped>>

LauncherNext ==
  \/ ParseError \/ Parse \/ Elaborate \/ Configure
  \/ OverrideAborts \/ OverrideConfig
  \/ \E why \in {"max_time", "stop", "report"} : SimulationEnds(why)
  \/ ReturnZero

-----------------------------------------------------------------------------
(* The platform runs with the value of the command line where there is     *)
(* one, and otherwise, but for AlwaysSet, with that of the configuration   *)
(* file or as built: overwriting the configuration comes after configure,  *)
(* and touches nothing it was not asked to (sc_main.cpp).                  *)
OptionsWin ==
  host = "running" => \A p \in Params :
    LET o == OptionOf[p]
    IN  /\ Given(o) => param[p] = Override(p)
        /\ ~Given(o) /\ p \notin AlwaysSet =>
             param[p] = IF FromFile(p) THEN file[p] ELSE ModelDefault[p]
=============================================================================
