----------------------------- MODULE MCCpuFreq -----------------------------
(***************************************************************************)
(* CpuFreq on words of 0 .. 63, with a CPU of three to five cycles per     *)
(* RTC tick.                                                               *)
(***************************************************************************)
EXTENDS CpuFreq

CallOf(f, v) == [fn |-> f, val |-> v]

\* The boot of _init with a switch of the clock afterwards, one before, and
\* the driver's measurement.
Calls ==
  { << CallOf("clock", 5), CallOf("uart_init", 1), CallOf("clock", 4), CallOf("get_cpu_freq", 1) >>,
    << CallOf("get_cpu_freq", 1), CallOf("clock", 5), CallOf("uart_init", 1) >>,
    << CallOf("measure", 5), CallOf("clock", 3), CallOf("measure", 5) >> }

\* mtime and mcycle wrap early, late or not at all.
Counters == [mtime : {0, 57, 61}, mcycleh : {0}, mcycle : {0, 30, 54}]
=============================================================================
