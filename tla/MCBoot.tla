------------------------------- MODULE MCBoot -------------------------------
(***************************************************************************)
(* Model-checking instance of Boot: every command line of at most two      *)
(* options, with two arguments where they make a difference; three words   *)
(* of .data, two of .bss; an external and a timer interrupt and an         *)
(* exception, two deep.                                                    *)
(***************************************************************************)
EXTENDS Boot, TLC

Text(p, d, v) == [prefix |-> p, digits |-> d, value |-> v]

Arguments ==
  [ undeclared |-> {""}, help |-> {""}, verbose |-> {0, 4, 5, 6, 7}, log_sync |-> {""},
    disass |-> {""}, elf |-> {"hello"}, gdb_port |-> {10000}, backend |-> {"tcc", "bogus"},
    isa |-> {"tgc5b"}, dump_ir |-> {TRUE}, quantum |-> {10},
    reset |-> {Text("0x", 8, 100), Text("", 3, 100), Text("0X", 8, 100), Text("0x", 0, 0)},
    trace_level |-> {1, 3, 4}, trace_default_on |-> {""}, max_time |-> {"1ms"},
    config_file |-> {"cfg"}, plugin |-> {"cycles"}, dump_config |-> {"out"} ]

Pairs(options) ==
  UNION { UNION { { (o :> v) @@ (q :> w) : v \in Arguments[o], w \in Arguments[q] } :
                  q \in options } : o \in options }

\* Without an image the firmware does not run; with one it starts at the entry,
\* given here or left to the model, unless a file says something else.
Images ==
  { ("elf" :> "hello") @@ ("reset" :> Text("0x", 8, 100)),
    ("elf" :> "hello") @@ ("config_file" :> "cfg") }

Lines2 == Pairs(DOMAIN Arguments \ {"elf"}) \cup Images

Files ==
  { [plugins |-> "file.so", backend |-> "llvm"],
    [core_type |-> "tgc5d", reset_address |-> 200, quantum |-> 5] }

ImageWords == <<1, 2, 3>>
=============================================================================
