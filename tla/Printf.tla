------------------------------- MODULE Printf -------------------------------
(***************************************************************************)
(* __wrap_printf and __wrap_sprintf of fw/bsp/libwrap/sys/printf.c:        *)
(* vprintfmt walks the format with a pointer, one step per character, and  *)
(* goes back to the character behind the '%' when it meets a conversion it *)
(* does not know.  A character is a string of length one, "NUL" ends a     *)
(* string; `out' is what putch was called with, in order.  write_hex of    *)
(* fw/bsp/libwrap/misc/write_hex.c is here too.                            *)
(***************************************************************************)
EXTENDS Integers, Sequences

CONSTANTS
  ULong,        \* 2^32 on rv32: `num' is an unsigned long
  PrintCalls    \* the calls the program makes

\* A format is a string with its "NUL"; `text' is what the program expects to
\* see, and no part of the call.
ASSUME PrintfAssumption ==
  /\ ULong \in Nat \ {0}
  /\ \A c \in PrintCalls :
       /\ c.fn \in {"printf", "sprintf", "write_hex"}
       /\ c.fmt \in Seq(STRING) /\ c.fmt # <<>>
       /\ c.fmt[Len(c.fmt)] = "NUL"

VARIABLES
  print,      \* the running call, or the last one
  fmt,        \* the pointer into its format
  last_fmt,   \* where the conversion began, behind the '%'
  at,         \* "idle", "text", "switch", "digits", "done"
  padc, width, precision,
  ap,         \* the next argument
  out         \* the characters put so far

conversion == <<last_fmt, padc, width, precision>>
printfVars == <<print, fmt, last_fmt, at, padc, width, precision, ap, out>>

PrintfInit ==
  /\ print \in PrintCalls
  /\ at = "idle"
  /\ fmt = 1 /\ last_fmt = 1
  /\ padc = " " /\ width = -1 /\ precision = -1
  /\ ap = 1
  /\ out = <<>>

-----------------------------------------------------------------------------
(* Numbers and strings *)

DigitChars == << "0", "1", "2", "3", "4", "5", "6", "7", "8", "9", "a", "b", "c", "d", "e", "f" >>

HexChars == << "0", "1", "2", "3", "4", "5", "6", "7", "8", "9", "A", "B", "C", "D", "E", "F" >>

DecimalChars == { DigitChars[i] : i \in 1 .. 10 }

\* ch - '0'
ValueOf(ch) == (CHOOSE i \in 1 .. 10 : DigitChars[i] = ch) - 1

Repeat(ch, n) == [i \in 1 .. n |-> ch]

DigitsIn(num, base) ==
  LET digs[n \in 0 .. num] ==
        IF n < base THEN << DigitChars[n + 1] >>
                    ELSE Append(digs[n \div base], DigitChars[(n % base) + 1])
  IN  digs[num]

\* printnum: the pad character, whatever it is, then the digits
PrintNum(num, base) ==
  LET digs == DigitsIn(num, base) IN Repeat(padc, width - Len(digs)) \o digs

\* strnlen(p, precision): a negative precision is no limit.  `width' has gone
\* down to 0 or below when the text has been padded in front.
PrintStr(p) ==
  LET shown == IF precision < 0 \/ precision > Len(p) THEN Len(p) ELSE precision
      pad   == width - shown
  IN  (IF padc # "-" THEN Repeat(padc, pad) ELSE <<>>) \o SubSeq(p, 1, shown)
        \o (IF padc = "-" THEN Repeat(" ", pad) ELSE <<>>)

Nullable(p) == IF p = "NULL" THEN << "(", "n", "u", "l", "l", ")" >> ELSE p

-----------------------------------------------------------------------------
(* vprintfmt *)

Ch  == print.fmt[fmt]
Arg == print.args[ap]

\* The locals of a conversion are set when one begins (Percent).
CallPrintf(c) ==
  /\ at \in {"idle", "done"}
  /\ print' = c
  /\ at'  = "text"
  /\ fmt' = 1 /\ last_fmt' = 1
  /\ padc' = " " /\ width' = -1 /\ precision' = -1
  /\ ap'  = 1
  /\ out' = <<>>

Literal ==
  /\ at = "text"
  /\ Ch \notin {"%", "NUL"}
  /\ out' = Append(out, Ch)
  /\ fmt' = fmt + 1
  /\ UNCHANGED <<print, at, ap, conversion>>

\* The digits of an unsigned long, leading zeros included.
HexDigits(num) ==
  LET n == CHOOSE k \in 0 .. 16 : 16^k >= ULong
  IN  [i \in 1 .. n |-> HexChars[((num \div 16^(n - i)) % 16) + 1]]

\* write_hex has no format, and one argument.
WriteHex ==
  /\ at = "text" /\ print.fn = "write_hex"
  /\ out' = << "0", "x" >> \o HexDigits(Arg)
  /\ ap' = ap + 1
  /\ at' = "done"
  /\ UNCHANGED <<print, fmt, conversion>>

\* The end of the format; sprintf terminates its buffer.
ReturnPrintf ==
  /\ at = "text" /\ print.fn # "write_hex"
  /\ Ch = "NUL"
  /\ at'  = "done"
  /\ out' = IF print.fn = "sprintf" THEN Append(out, "NUL") ELSE out
  /\ UNCHANGED <<print, fmt, ap, conversion>>

\* Mutant: the width of the conversion before stays.
Percent_KeepsWidth ==
  /\ at = "text"
  /\ Ch = "%"
  /\ at'  = "switch"
  /\ fmt' = fmt + 1
  /\ last_fmt' = fmt + 1
  /\ padc' = " " /\ precision' = -1
  /\ UNCHANGED <<print, ap, out, width>>

Percent ==
  /\ at = "text"
  /\ Ch = "%"
  /\ at'  = "switch"
  /\ fmt' = fmt + 1
  /\ last_fmt' = fmt + 1
  /\ padc' = " " /\ width' = -1 /\ precision' = -1
  /\ UNCHANGED <<print, ap, out>>

\* switch (ch = *fmt++) at a character of chs
Switch(chs) ==
  /\ at = "switch"
  /\ Ch \in chs
  /\ fmt' = fmt + 1
  /\ UNCHANGED <<print, last_fmt>>

\* `-' and `0' choose the pad character.
Flag ==
  /\ Switch({"-", "0"})
  /\ padc' = Ch
  /\ UNCHANGED <<at, width, precision, ap, out>>

\* process_precision: the first number is the width
Process(n) ==
  IF width < 0 THEN width' = n /\ precision' = -1
               ELSE precision' = n /\ UNCHANGED width

FirstDigit ==
  /\ Switch(DecimalChars \ {"0"})
  /\ precision' = ValueOf(Ch)
  /\ at' = "digits"
  /\ UNCHANGED <<padc, width, ap, out>>

NextDigit ==
  /\ at = "digits"
  /\ Ch \in DecimalChars
  /\ precision' = 10 * precision + ValueOf(Ch)
  /\ fmt' = fmt + 1
  /\ UNCHANGED <<print, last_fmt, at, padc, width, ap, out>>

LastDigit ==
  /\ at = "digits"
  /\ Ch \notin DecimalChars
  /\ Process(precision)
  /\ at' = "switch"
  /\ UNCHANGED <<print, fmt, last_fmt, padc, ap, out>>

Star ==
  /\ Switch({"*"})
  /\ Process(Arg)
  /\ ap' = ap + 1
  /\ UNCHANGED <<at, padc, out>>

Dot ==
  /\ Switch({"."})
  /\ width' = IF width < 0 THEN 0 ELSE width
  /\ UNCHANGED <<at, padc, precision, ap, out>>

\* '#' sets a flag nothing reads.  'l' tests lflag, which only %p sets, and
\* does not set it: every number is read as an int.
Ignored ==
  /\ Switch({"#", "l"})
  /\ UNCHANGED <<at, padc, width, precision, ap, out>>

\* A conversion prints s, takes n arguments and goes back to the text.
Converts(chs, s, n) ==
  /\ Switch(chs)
  /\ out' = out \o s
  /\ ap'  = ap + n
  /\ at'  = "text"
  /\ UNCHANGED <<padc, width, precision>>

Char == Converts({"c"}, << Arg >>, 1)

Str == Converts({"s"}, PrintStr(Nullable(Arg)), 1)

Signed ==
  Converts({"d"},
           IF Arg < 0 THEN << "-" >> \o PrintNum(-Arg, 10) ELSE PrintNum(Arg, 10), 1)

Unsigned ==
  \/ Converts({"u"}, PrintNum(Arg % ULong, 10), 1)
  \/ Converts({"o"}, PrintNum(Arg % ULong, 8), 1)
  \/ Converts({"x"}, PrintNum(Arg % ULong, 16), 1)
  \/ Converts({"p"}, << "0", "x" >> \o PrintNum(Arg % ULong, 16), 1)

\* %% and %f, which prints nothing and leaves its argument where it is
NoArgument == Converts({"%"}, << "%" >>, 0) \/ Converts({"f"}, <<>>, 0)

Known == DecimalChars \cup { "-", "*", ".", "#", "l", "c", "f", "s", "d", "u", "o", "p", "x", "%" }

\* Mutant: the conversion is skipped, not printed.
Unknown_KeepsFmt ==
  /\ at = "switch"
  /\ Ch \notin Known
  /\ out' = Append(out, "%")
  /\ fmt' = fmt + 1
  /\ at'  = "text"
  /\ UNCHANGED <<print, ap, conversion>>

\* bad: fmt = last_fmt, the end of the format included
Unknown ==
  /\ at = "switch"
  /\ Ch \notin Known
  /\ out' = Append(out, "%")
  /\ fmt' = last_fmt
  /\ at'  = "text"
  /\ UNCHANGED <<print, ap, conversion>>

PrintfStep ==
  \/ Literal
  \/ ReturnPrintf
  \/ WriteHex
  \/ Percent
  \/ Flag
  \/ FirstDigit
  \/ NextDigit
  \/ LastDigit
  \/ Star
  \/ Dot
  \/ Ignored
  \/ Char
  \/ Str
  \/ Signed
  \/ Unsigned
  \/ NoArgument
  \/ Unknown

PrintfNext == PrintfStep \/ \E c \in PrintCalls : CallPrintf(c)

PrintfSpec == PrintfInit /\ [][PrintfNext]_printfVars

-----------------------------------------------------------------------------
(***************************************************************************)
(* Properties                                                              *)
(***************************************************************************)

\* vprintfmt never reads behind the NUL of the format, wherever the format
\* breaks off: in the middle of a width, behind a '%', after a 'l'.
FormatInBounds == fmt \in 1 .. Len(print.fmt) /\ last_fmt \in 1 .. Len(print.fmt)

\* The text comes out as the program expects it, from the first conversion to
\* the last, each with its own argument, width and padding.
PrintsText ==
  at = "done" => out = print.text \o (IF print.fn = "sprintf" THEN << "NUL" >> ELSE <<>>)
=============================================================================
