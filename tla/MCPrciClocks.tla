---------------------------- MODULE MCPrciClocks ----------------------------
(***************************************************************************)
(* Model-checking instances of PrciClocks: sets of calls of init.c and of  *)
(* the PRCI driver.                                                        *)
(***************************************************************************)
EXTENDS PrciClocks

CallOf(d, f, refsel, bypass, own, div) ==
  [ driver |-> d, fn |-> f, refsel |-> refsel, bypass |-> bypass,
    ownRosc |-> own, finaldiv |-> div ]

\* _init makes the first and the third; the others are the remaining cases
\* of use_pll.
InitCalls ==
  { CallOf("init", "use_default_clocks", 0, TRUE, FALSE, 1),
    CallOf("init", "use_hfrosc", 0, TRUE, FALSE, 1),
    CallOf("init", "use_pll", 0, FALSE, FALSE, 1),
    CallOf("init", "use_pll", 1, FALSE, FALSE, 1),
    CallOf("init", "use_pll", 0, TRUE, FALSE, 1) }

DriverCalls ==
  { CallOf("prci", "use_default_clocks", 0, TRUE, FALSE, 1),
    CallOf("prci", "use_hfrosc", 0, TRUE, FALSE, 1),
    CallOf("prci", "use_hfxosc", 1, TRUE, FALSE, 2),
    CallOf("prci", "use_pll", 0, FALSE, TRUE, 2),
    CallOf("prci", "use_pll", 1, FALSE, FALSE, 1) }

HfxoscCalls ==
  { CallOf("prci", "use_default_clocks", 0, TRUE, FALSE, 1),
    CallOf("prci", "use_hfxosc", 1, TRUE, FALSE, 2) }

\* What _init calls.
BootCalls ==
  { CallOf("init", "use_default_clocks", 0, TRUE, FALSE, 1),
    CallOf("init", "use_pll", 0, FALSE, FALSE, 1) }

AllCalls == DriverCalls \cup InitCalls
=============================================================================
