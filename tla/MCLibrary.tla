----------------------------- MODULE MCLibrary ------------------------------
(***************************************************************************)
(* Model-checking instance of Library: every request to a heap of six      *)
(* addresses out of 32; formats of two directives from a set of every      *)
(* conversion, flag and width; two CLIC sources with four configuration    *)
(* bits; every target for an oscillator of six trims.                      *)
(***************************************************************************)
EXTENDS Library, FormatSpec

AllRequests == 0 .. AddrMod - 1

\* Numbers are 16 bits wide.
NumberPieces ==
  { [flag |-> f, width |-> w, star |-> s, prec |-> -1, conv |-> c, arg |-> n] :
      f \in {"", "0"}, w \in {-1, 3}, s \in {FALSE}, c \in {"d", "u", "o", "x"}, n \in {0, 42, -3} }

StringPieces ==
  { [flag |-> f, width |-> w, star |-> s, prec |-> p, conv |-> "s", arg |-> <<"a", "b", "c">>] :
      f \in {"", "-"}, w \in {-1, 0, 2, 4}, s \in BOOLEAN, p \in {-1, 2, 12} }

OtherPieces ==
  { Piece("literal", "a"), Piece("c", "5"), Piece("%", ""), Piece("q", ""),
    [Piece("u", 7) EXCEPT !.width = 12], [Piece("q", "") EXCEPT !.flag = "-"] }

Pieces == { d \in NumberPieces \cup StringPieces \cup OtherPieces : Directive(d) }

PrintfCall(fn, ds, end) == CallOfPieces(fn, ds, end, ULong)

\* Formats that break off, and what no directive of FormatSpec spells.  For
\* %f, which prints nothing and leaves its argument, and for %#lx, whose flag
\* is ignored, the text is the one of vprintfmt, not the standard's.
OddCalls ==
  { PrintfCall("printf", <<Piece("literal", "a")>>, end) :
      end \in { <<"%">>, <<"%", "l">>, <<"%", "-", "1", "2">>, <<"%", ".">> } }
  \cup
  { [fn |-> "sprintf", fmt |-> <<"%", "f", "%", "#", "l", "x", "%", "p", "NUL">>, args |-> <<10, 255>>,
     text |-> <<"a", "0", "x", "f", "f">>],
    [fn |-> "printf", fmt |-> <<"%", "5", "s", "NUL">>, args |-> <<"NULL">>,
     text |-> <<"(", "n", "u", "l", "l", ")">>] }

TwoPieces ==
  { PrintfCall(fn, <<d, e>>, <<>>) :
      fn \in {"printf", "sprintf"}, d \in Pieces,
      e \in {Piece("u", 42), Piece("s", <<"a", "b", "c">>), [Piece("x", 11) EXCEPT !.width = 2]} }

HexCalls ==
  { [fn |-> "write_hex", fmt |-> <<"NUL">>, args |-> <<w[1]>>, text |-> <<"0", "x">> \o w[2]] :
      w \in { <<0, <<"0", "0", "0", "0">>>>, <<4071, <<"0", "F", "E", "7">>>>,
              <<ULong - 1, <<"F", "F", "F", "F">>>> } }

PrintfCalls == OddCalls \cup TwoPieces \cup HexCalls

C(fn, s, v) == [fn |-> fn, src |-> s, val |-> v, handler |-> "isr"]

ClicHandlerCalls ==
  { C("set_int_level", 1, {3}), C("set_int_priority", 0, {7}), C("set_intcfg", 1, {7}),
    C("clear_pending", 0, {}) }

ClicProgramCalls ==
  { C("install", 0, {}), C("install", 1, {}),
    C("enable", 0, {}), C("disable", 0, {}), C("enable", 1, {}),
    C("set_pending", 0, {}), C("clear_pending", 0, {}),
    C("set_intcfg", 0, {}), C("set_int_level", 0, {3}), C("set_int_level", 0, {0, 2}),
    C("set_int_level", 1, {1, 2, 5}), C("set_int_priority", 0, {7, 6}),
    [fn |-> "init", val |-> {}],
    [fn |-> "set_cliccfg", val |-> {2}], [fn |-> "set_cliccfg", val |-> {0, 1}] }

Oscillator == [t \in 0 .. 5 |-> <<10, 13, 16, 18, 21, 27>>[t + 1]]

Searches == [f_cpu : { 16 * d + 5 : d \in 6 .. 32 }, target : {"OVERSHOOT", "CLOSEST", "UNDERSHOOT"}]
=============================================================================
