----------------------------- MODULE MCConsole ------------------------------
(***************************************************************************)
(* Model-checking instances of Console: short texts with a line feed in    *)
(* every position that matters, and a FIFO the texts overrun.              *)
(***************************************************************************)
EXTENDS Console

W(fd, buf) == [fn |-> "write", fd |-> fd, buf |-> buf]
Puts(buf)  == [fn |-> "puts", fd |-> 1, buf |-> buf]

\* A write, one to a descriptor that is no tty, an empty one, a puts, and the
\* report of exit.
ProgramCalls ==
  << W(1, <<"c", "nl">>), W(3, <<"c", "c">>), W(1, <<>>), Puts(<<"nl", "c">>),
     W(2, <<"nl", "m">>), W(2, <<"h">>), W(2, <<"nl">>) >>

\* "trap\n", then the report of exit.
FatalCalls == << W(1, <<"x", "nl">>), W(2, <<"nl", "m">>), W(2, <<"h">>), W(2, <<"nl">>) >>

\* An interrupt whose handler prints nothing, and one whose handler prints a
\* line.
Handlers == { << >>, << W(1, <<"x", "nl">>) >> }
=============================================================================
