----------------------------- MODULE FormatSpec -----------------------------
(***************************************************************************)
(* What the C standard says a format prints, for the conversions printf.c  *)
(* has.  A piece of a format is a literal character or a directive; here   *)
(* is how a directive is spelled, the arguments it takes, and its text.    *)
(***************************************************************************)
EXTENDS Integers, Sequences, SequencesExt

\* width and prec are -1 when they are not given; a width of a `star'
\* directive is an argument.
Piece(conv, arg) ==
  [flag |-> "", width |-> -1, star |-> FALSE, prec |-> -1, conv |-> conv, arg |-> arg]

Numeral(n, base) ==
  LET chars == << "0", "1", "2", "3", "4", "5", "6", "7", "8", "9", "a", "b", "c", "d", "e", "f" >>
      num[k \in Nat] == (IF k < base THEN <<>> ELSE num[k \div base]) \o << chars[(k % base) + 1] >>
  IN  num[n]

Spelled(d) ==
  IF d.conv = "literal" THEN << d.arg >>
  ELSE << "%" >> \o (IF d.flag = "" THEN <<>> ELSE << d.flag >>)
         \o (IF d.star THEN << "*" >> ELSE IF d.width < 0 THEN <<>> ELSE Numeral(d.width, 10))
         \o (IF d.prec < 0 THEN <<>> ELSE << "." >> \o Numeral(d.prec, 10))
         \o << d.conv >>

ArgsOf(d) ==
  (IF d.star THEN << d.width >> ELSE <<>>)
    \o (IF d.conv \in {"literal", "%", "q"} THEN <<>> ELSE << d.arg >>)

\* An unknown conversion is printed literally.
Text(d, ulong) ==
  LET value == d.arg % ulong
      body ==
        CASE d.conv = "literal" -> << d.arg >>
          [] d.conv = "c" -> << d.arg >>
          [] d.conv = "s" -> SubSeq(d.arg, 1, IF d.prec \in 0 .. Len(d.arg) THEN d.prec ELSE Len(d.arg))
          [] d.conv = "d" -> (IF d.arg < 0 THEN << "-" >> \o Numeral(-d.arg, 10) ELSE Numeral(d.arg, 10))
          [] d.conv = "u" -> Numeral(value, 10)
          [] d.conv = "o" -> Numeral(value, 8)
          [] d.conv = "x" -> Numeral(value, 16)
          [] d.conv = "%" -> << "%" >>
          [] OTHER        -> Spelled(d)
      gap == [i \in 1 .. (d.width - Len(body)) |-> IF d.flag = "0" THEN "0" ELSE " "]
  IN  IF d.flag = "-" THEN body \o gap ELSE gap \o body

\* What printf.c does not do the standard's way: it pads a number on the
\* left, with '-', when the flag is '-'; it does not count the sign in the
\* width; it has no width for %c; it takes a precision of 0 for a flag.
Standard(d) ==
  /\ d.conv \in {"d", "u", "o", "x"} => d.flag # "-" /\ d.prec < 0
  /\ d.conv = "d" /\ d.arg < 0 => d.width < 0
  /\ d.conv \in {"c", "%", "q", "literal"} => d.width < 0 /\ d.prec < 0
  /\ d.conv = "s" => d.flag # "0" /\ d.prec # 0

\* The directives the standard and printf.c agree on.  A width or a precision
\* of 0 is read as a flag.
Directive(d) ==
  /\ d.flag \in {"", "-", "0"}
  /\ d.star => d.width >= 0
  /\ ~d.star => d.width # 0
  /\ d.prec # 0
  /\ d.conv \in {"literal", "c", "s", "d", "u", "o", "x", "%", "q"}
  /\ Standard(d)
  /\ d.conv = "literal" => d.arg \notin {"%", "NUL"} /\ d.flag = ""
  /\ d.conv = "s" => d.arg # "NULL"

\* The call of fn whose format is spelled by ds, and what it should print; the
\* format may break off with the characters of `end'.
CallOfPieces(fn, ds, end, ulong) ==
  [ fn   |-> fn,
    fmt  |-> FlattenSeq([i \in DOMAIN ds |-> Spelled(ds[i])]) \o end \o <<"NUL">>,
    args |-> FlattenSeq([i \in DOMAIN ds |-> ArgsOf(ds[i])]),
    text |-> FlattenSeq([i \in DOMAIN ds |-> Text(ds[i], ulong)]) \o end ]
=============================================================================
