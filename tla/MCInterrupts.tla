---------------------------- MODULE MCInterrupts ----------------------------
(***************************************************************************)
(* Interrupts with four sources, two enable bits to a byte: sources 2 and  *)
(* 3 share one, 1 and 4 do not.                                            *)
(***************************************************************************)
EXTENDS Interrupts

CallOf(f, s, v) == [fn |-> f, src |-> s, val |-> v]

\* The program goes on editing the enables after it has let interrupts in.
Program ==
  << CallOf("init", 1, 0), CallOf("set_priority", 1, 2), CallOf("set_priority", 2, 1),
     CallOf("set_priority", 3, 1), CallOf("set_priority", 4, 2),
     CallOf("enable", 1, 0), CallOf("unmask", 1, 0), CallOf("enable", 3, 0),
     CallOf("enable", 2, 0), CallOf("disable", 3, 0), CallOf("set_threshold", 1, 1),
     CallOf("enable", 3, 0), CallOf("set_threshold", 1, 0) >>

SomePrios == { [s \in Sources |-> p] : p \in {0, 2} }

\* The handler of 1 switches 4 on and 2 off, that of 4 lowers its own priority.
Handlers ==
  << << CallOf("enable", 4, 0), CallOf("disable", 2, 0) >>,
     << >>,
     << CallOf("enable", 2, 0) >>,
     << CallOf("set_priority", 4, 1) >> >>
=============================================================================
