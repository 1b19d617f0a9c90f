------------------------------ MODULE Formats ------------------------------
(***************************************************************************)
(* The conversions between values and text: snprintf of string/snprintf.c, *)
(* serial_printf of drivers/serial.c, format_string of stdio/buffer.c,     *)
(* which every printf of the kernel uses, and kscanf of stdio/scanf.c,     *)
(* which reads back what was typed.                                        *)
(*                                                                         *)
(* Text is a TLA+ string, a format a string and the sequence of its        *)
(* arguments.  Arguments are integers of less than 32 bits, strings and    *)
(* NULL; a double is an integer of thousandths.  Lengths "l" and "ll" and  *)
(* a width given as "*" are left out, as formats are taken to be complete, *)
(* and so are the escape sequences of a text.                              *)
(***************************************************************************)
EXTENDS Integers, Sequences, SequencesExt

NULL == "NULL pointer"
LOWER == "0123456789abcdef"
UPPER == "0123456789ABCDEF"

\* The character at place i, "" behind the end as C finds its NUL there.
Char(s, i) == IF i \in 1 .. Len(s) THEN SubSeq(s, i, i) ELSE ""
Decimals   == {Char(LOWER, i) : i \in 1 .. 10}
Spaces     == {" ", "\t", "\n", "\r"}
HasChar(s, c) == \E i \in 1 .. Len(s) : Char(s, i) = c

RECURSIVE Copies(_, _), Digits(_, _, _), AfterRun(_, _, _), Numeral(_, _, _),
          PutText(_, _, _)
Copies(c, n) == IF n <= 0 THEN "" ELSE c \o Copies(c, n - 1)

\* The digits of v, by dividing until nothing is left.
Digits(v, base, chars) ==
    (IF v < base THEN "" ELSE Digits(v \div base, base, chars))
        \o Char(chars, (v % base) + 1)

\* The place behind the characters from i on that are in C.
AfterRun(s, i, C) ==
    IF Char(s, i) \in C THEN AfterRun(s, i + 1, C) ELSE i

\* The number that the decimals from i up to before j stand for.
Numeral(s, i, j) ==
    IF i >= j THEN 0
    ELSE 10 * Numeral(s, i, j - 1) + (CHOOSE d \in 0 .. 9 : Char(LOWER, d + 1) = Char(s, j - 1))

\* A conversion from place i on: flags, width, precision and specifier.
Conversion(s, i, flags) ==
    LET w == AfterRun(s, i, flags)
        p == AfterRun(s, w, Decimals)
        e == IF Char(s, p) = "." THEN AfterRun(s, p + 1, Decimals) ELSE p
    IN  [flags |-> SubSeq(s, i, w - 1), width |-> Numeral(s, w, p),
         exact |-> Char(s, p) = ".", precision |-> Numeral(s, p + 1, e),
         specifier |-> Char(s, e), next |-> e + 1]

TakesArgument(spec, specifiers) == spec.specifier \in specifiers
Rest(args, spec, specifiers) ==
    IF TakesArgument(spec, specifiers) THEN Tail(args) ELSE args

-----------------------------------------------------------------------------
(***************************************************************************)
(* snprintf: every character goes through put_char, which counts it and    *)
(* drops it when the buffer of the given size is full.                     *)
(***************************************************************************)
\* Mutant: the last character is kept where the NUL will be.
put_char_NoRoomForNul(out, size, c) ==
    [str |-> IF out.pos < size THEN out.str \o c ELSE out.str, pos |-> out.pos + 1]
put_char(out, size, c) ==
    [str |-> IF out.pos < size - 1 THEN out.str \o c ELSE out.str, pos |-> out.pos + 1]

PutText(out, size, text) ==
    IF text = "" THEN out ELSE PutText(put_char(out, size, Char(text, 1)), size, Tail(text))

parse_format(s, i) == Conversion(s, i, {"-", "0"})
LeftAligned(spec)  == HasChar(spec.flags, "-")
PadChar(spec)      == IF HasChar(spec.flags, "0") /\ ~ LeftAligned(spec) THEN "0" ELSE " "

Padded(spec, text, len) ==
    IF LeftAligned(spec) THEN text \o Copies(" ", spec.width - len)
    ELSE Copies(PadChar(spec), spec.width - len) \o text

put_string(spec, s) ==
    LET text == IF spec.exact /\ spec.precision < Len(s) THEN SubSeq(s, 1, spec.precision) ELSE s
    IN  Padded(spec, text, Len(text))

put_number(spec, value) ==
    LET hex    == spec.specifier \in {"x", "X", "p"}
        digits == Digits(IF value < 0 THEN - value ELSE value, IF hex THEN 16 ELSE 10,
                         IF spec.specifier = "X" THEN UPPER ELSE LOWER)
        signed == (IF value < 0 THEN "-" ELSE IF spec.specifier = "p" THEN "0x" ELSE "") \o digits
        zeros  == IF spec.exact THEN Copies("0", spec.precision - Len(signed)) ELSE ""
    IN  Padded(spec, zeros \o signed, Len(zeros) + Len(signed))

SnprintfText(spec, args) ==
    CASE spec.specifier = "s" -> put_string(spec, IF args[1] = NULL THEN "(null)" ELSE args[1])
      [] spec.specifier = "c" -> args[1]
      [] spec.specifier \in {"d", "u", "x", "X", "p"} -> put_number(spec, args[1])
      [] OTHER -> spec.specifier

RECURSIVE SnprintfFrom(_, _, _, _, _)
SnprintfFrom(s, i, args, size, out) ==
    IF i > Len(s) THEN out
    ELSE IF Char(s, i) # "%" THEN SnprintfFrom(s, i + 1, args, size, put_char(out, size, Char(s, i)))
    ELSE LET spec == parse_format(s, i + 1)
         IN  SnprintfFrom(s, spec.next, Rest(args, spec, {"s", "c", "d", "u", "x", "X", "p"}), size,
                          PutText(out, size, SnprintfText(spec, args)))

vsnprintf(size, s, args) ==
    IF size = 0 THEN [str |-> "", pos |-> 0]
    ELSE SnprintfFrom(s, 1, args, size, [str |-> "", pos |-> 0])

-----------------------------------------------------------------------------
(***************************************************************************)
(* serial_printf.  The prefix goes out before the padding.                 *)
(***************************************************************************)
\* Mutant: the prefix does not count for the width.
SerialNumber_BarePrefix(num, base, width, zero_pad, alt_form, is_negative) ==
    LET digits == Digits(num, base, LOWER)
        prefix == (IF is_negative THEN "-" ELSE "") \o (IF alt_form /\ base = 16 THEN "0x" ELSE "")
    IN  prefix \o Copies(IF zero_pad THEN "0" ELSE " ", width - Len(digits)) \o digits
SerialNumber(num, base, width, zero_pad, alt_form, is_negative) ==
    LET digits == Digits(num, base, LOWER)
        prefix == (IF is_negative THEN "-" ELSE "") \o (IF alt_form /\ base = 16 THEN "0x" ELSE "")
    IN  prefix \o Copies(IF zero_pad THEN "0" ELSE " ", width - Len(prefix) - Len(digits)) \o digits

INT_MIN == -2147483647 - 1

SerialText(spec, args) ==
    LET zero == HasChar(spec.flags, "0")
        alt  == HasChar(spec.flags, "#")
    IN  CASE spec.specifier = "c" -> args[1]
          [] spec.specifier = "s" ->
                LET s    == IF args[1] = NULL THEN "(null)" ELSE args[1]
                    text == IF spec.exact /\ spec.precision < Len(s) THEN SubSeq(s, 1, spec.precision) ELSE s
                IN  Copies(" ", spec.width - Len(text)) \o text
          [] spec.specifier = "d" ->
                IF args[1] = INT_MIN THEN "-2147483648"
                ELSE SerialNumber(IF args[1] < 0 THEN - args[1] ELSE args[1], 10, spec.width, zero, FALSE, args[1] < 0)
          [] spec.specifier = "u" -> SerialNumber(args[1], 10, spec.width, zero, FALSE, FALSE)
          [] spec.specifier = "x" -> SerialNumber(args[1], 16, spec.width, zero, alt, FALSE)
          [] spec.specifier = "p" ->
                SerialNumber(args[1], 16, IF spec.width < 10 THEN 10 ELSE spec.width, TRUE, TRUE, FALSE)
          [] spec.specifier = "%" -> "%"
          [] OTHER -> "%" \o spec.specifier

RECURSIVE SerialFrom(_, _, _)
SerialFrom(s, i, args) ==
    IF i > Len(s) THEN ""
    ELSE IF Char(s, i) # "%" THEN Char(s, i) \o SerialFrom(s, i + 1, args)
    ELSE LET spec == Conversion(s, i + 1, {"0", "#"})
         IN  SerialText(spec, args)
                 \o SerialFrom(s, spec.next, Rest(args, spec, {"c", "s", "d", "u", "x", "p"}))

serial_printf(s, args) == SerialFrom(s, 1, args)

-----------------------------------------------------------------------------
(***************************************************************************)
(* format_string.  itohex writes exactly width digits, so without a width  *)
(* none; the other conversions of numbers have no width.                   *)
(***************************************************************************)
itoa(num) == (IF num < 0 THEN "-" ELSE "") \o Digits(IF num < 0 THEN - num ELSE num, 10, LOWER)

\* Mutant: the first digits of a number that is too long, instead of the last.
itohex_High(num, chars, width, use_prefix) ==
    LET temp == Digits(num, 16, chars)
        hex  == Len(temp)
    IN  (IF use_prefix THEN (IF chars = UPPER THEN "0X" ELSE "0x") ELSE "")
            \o Copies("0", width - hex) \o SubSeq(temp, 1, IF hex < width THEN hex ELSE width)
itohex(num, chars, width, use_prefix) ==
    LET temp == Digits(num, 16, chars)
        hex  == Len(temp)
    IN  (IF use_prefix THEN (IF chars = UPPER THEN "0X" ELSE "0x") ELSE "")
            \o Copies("0", width - hex)
            \o SubSeq(temp, 1 + hex - (IF hex < width THEN hex ELSE width), hex)

\* num in thousandths; the padding is computed after the sign was dropped.
dtoaf(num, width, precision) ==
    LET abs  == IF num < 0 THEN - num ELSE num
        int  == itoa(abs \div 1000)
        frac == itoa(((abs % 1000) * 10 ^ precision * 2 + 1000) \div 2000)
    IN  (IF num < 0 THEN "-" ELSE "") \o Copies(" ", width - (Len(int) + 1 + precision))
            \o int \o "."
            \o (IF precision = 0 THEN "" ELSE Copies("0", precision - Len(frac)) \o frac)

FormatText(spec, args) ==
    CASE spec.specifier = "%" -> "%"
      [] spec.specifier \in {"s", "c"} -> args[1]
      [] spec.specifier \in {"u", "U", "d", "D"} -> itoa(args[1])
      [] spec.specifier = "x" -> itohex(args[1], LOWER, spec.width, spec.flags # "")
      [] spec.specifier = "X" -> itohex(args[1], UPPER, spec.width, spec.flags # "")
      [] spec.specifier = "f" -> dtoaf(args[1], spec.width, IF spec.exact THEN spec.precision ELSE 6)
      [] OTHER -> "%" \o spec.specifier

RECURSIVE FormatFrom(_, _, _)
FormatFrom(s, i, args) ==
    IF i > Len(s) THEN ""
    ELSE IF Char(s, i) # "%" THEN Char(s, i) \o FormatFrom(s, i + 1, args)
    ELSE LET spec == Conversion(s, i + 1, {"#"})
         IN  FormatText(spec, args)
                 \o FormatFrom(s, spec.next, Rest(args, spec, {"s", "c", "u", "U", "d", "D", "x", "X", "f"}))

format_string(s, args) == FormatFrom(s, 1, args)

-----------------------------------------------------------------------------
(***************************************************************************)
(* The second half of printf: ESC [ codes m sets the colours of what       *)
(* follows, with codes for the text, 30 to 37 and 90 to 97, and for the    *)
(* background, 40 to 47 and 100 to 107.  Every sequence starts again from  *)
(* the colours at the call, current, so a sequence of other codes, as 0,   *)
(* restores them.  printf2 is the same for the graphic screen.             *)
(***************************************************************************)
ESC == "\f"                    \* stands for the escape character

Coded(attr, num) ==
    CASE num \in 30 .. 37   -> [attr EXCEPT !.fg = num - 30]
      [] num \in 90 .. 97   -> [attr EXCEPT !.fg = num - 90 + 8]
      [] num \in 40 .. 47   -> [attr EXCEPT !.bg = num - 40]
      [] num \in 100 .. 107 -> [attr EXCEPT !.bg = num - 100 + 8]
      [] OTHER -> attr

\* Mutant: the colour before a semicolon is forgotten.
CodeStep_LastOnly(p, c) ==
    IF c \in Decimals THEN [p EXCEPT !.num = 10 * @ + Numeral(c, 1, 2), !.valid = TRUE]
    ELSE IF c = ";" THEN [p EXCEPT !.num = 0, !.valid = FALSE]
    ELSE p
CodeStep(p, c) ==
    IF c \in Decimals THEN [p EXCEPT !.num = 10 * @ + Numeral(c, 1, 2), !.valid = TRUE]
    ELSE IF c = ";" THEN [attr |-> Coded(p.attr, p.num), num |-> 0, valid |-> FALSE]
    ELSE p

\* The colours that the codes from place i up to before j choose.
Codes(s, i, j, current) ==
    FoldLeft(LAMBDA p, k : CodeStep(p, Char(s, i + k - 1)),
             [attr |-> current, num |-> 0, valid |-> FALSE], [k \in 1 .. j - i |-> k])

\* What is put on the screen, each character with its colours.
RECURSIVE PutColoured(_, _, _, _)
PutColoured(s, i, attr, current) ==
    LET m     == CHOOSE j \in i .. Len(s) : Char(s, j) = "m" /\ \A k \in i .. j - 1 : Char(s, k) # "m"
        p     == Codes(s, i + 2, m, current)
        Put(j) == LET rest == PutColoured(s, j + 1, attr, current)
                  IN  [rest EXCEPT !.cells = <<<<Char(s, j), attr>>>> \o @]
    IN  IF i > Len(s) THEN [cells |-> <<>>, attr |-> attr]
        ELSE IF Char(s, i) # ESC THEN Put(i)
        ELSE IF Char(s, i + 1) # "[" THEN Put(i + 1)
        ELSE IF ~ p.valid THEN Put(m + 1)
        ELSE LET chosen == Coded(p.attr, p.num) IN PutColoured(s, m + 1, chosen, current)

printf(s, attr) == PutColoured(s, 1, attr, attr)

\* logger_error and logger_success: in red or light green, whatever was set before.
logger(msg, colour, attr) ==
    [printf(msg \o "\n", [fg |-> colour, bg |-> 0]) EXCEPT !.attr = attr]

-----------------------------------------------------------------------------
(***************************************************************************)
(* kscanf, on the line that read_input returned.  What it stores is a      *)
(* sequence; the number it returns is the length of that sequence, but for *)
(* an empty %s, which stores "" and is not counted.                        *)
(***************************************************************************)
DigitOf(c) ==
    IF c # "" /\ HasChar(LOWER, c) THEN (CHOOSE i \in 1 .. 16 : Char(LOWER, i) = c) - 1
    ELSE IF c # "" /\ HasChar(UPPER, c) THEN (CHOOSE i \in 1 .. 16 : Char(UPPER, i) = c) - 1
    ELSE 99

RECURSIVE DigitsFrom(_, _, _, _)
DigitsFrom(s, i, base, result) ==
    IF DigitOf(Char(s, i)) >= base THEN [val |-> result, next |-> i]
    ELSE DigitsFrom(s, i + 1, base, result * base + DigitOf(Char(s, i)))

\* strtol, and strtoul, which knows no minus sign.
strtol(s, first, base, signs) ==
    LET i      == AfterRun(s, first, Spaces)
        j      == IF Char(s, i) \in signs THEN i + 1 ELSE i
        hex    == Char(s, j) \o Char(s, j + 1) \in {"0x", "0X"}
        radix  == IF base # 0 THEN base
                  ELSE IF hex THEN 16 ELSE IF Char(s, j) = "0" THEN 8 ELSE 10
        number == DigitsFrom(s, IF hex /\ radix = 16 THEN j + 2 ELSE j, radix, 0)
    IN  [val |-> IF Char(s, i) = "-" /\ "-" \in signs THEN - number.val ELSE number.val,
         next |-> number.next]

Base(spec) == CASE spec \in {"d", "u"} -> 10 [] spec = "i" -> 0 [] spec \in {"x", "p"} -> 16 [] spec = "o" -> 8
\* Mutant: only a plus sign is known.
Signs_PlusOnly(spec) == {"+"}
Signs(spec) == IF spec \in {"d", "i"} THEN {"-", "+"} ELSE {"+"}

\* The place behind the word from i on, at most width characters (0: any).
AfterWord(s, i, width) ==
    LET ends == {j \in i .. Len(s) : Char(s, j) \in Spaces \/ (width > 0 /\ j = i + width)}
    IN  IF ends = {} THEN Len(s) + 1 ELSE Min(ends)

RECURSIVE ScanFrom(_, _, _, _)
ScanFrom(f, k, s, p) ==
    IF k > Len(f) \/ p > Len(s) THEN <<>>
    ELSE IF Char(f, k) \in Spaces THEN ScanFrom(f, k + 1, s, AfterRun(s, p, Spaces))
    ELSE IF Char(f, k) # "%" THEN
        IF Char(s, p) # Char(f, k) THEN <<>> ELSE ScanFrom(f, k + 1, s, p + 1)
    ELSE LET spec == Conversion(f, k + 1, {})
             i    == AfterRun(s, p, Spaces)
             word == AfterWord(s, i, spec.width)
             num  == strtol(s, i, Base(spec.specifier), Signs(spec.specifier))
         IN  CASE spec.specifier = "s" -> <<SubSeq(s, i, word - 1)>> \o ScanFrom(f, spec.next, s, word)
               [] spec.specifier = "c" /\ i <= Len(s) -> <<Char(s, i)>> \o ScanFrom(f, spec.next, s, i + 1)
               [] spec.specifier \in {"d", "i", "u", "x", "o", "p"} /\ i <= Len(s) ->
                    IF num.next = i THEN <<>> ELSE <<num.val>> \o ScanFrom(f, spec.next, s, num.next)
               [] spec.specifier = "f" -> ScanFrom(f, spec.next, s, i)
               [] OTHER -> <<>>

kscanf(f, line) == ScanFrom(f, 1, line, 1)
-----------------------------------------------------------------------------
(***************************************************************************)
(* The tests of serial_printf_test: number, format, arguments and the text *)
(* that the test announces.  Left out are number 16, which prints a NUL    *)
(* character, and 25 to 28, whose values need 32 bits without a sign.      *)
(***************************************************************************)
serial_printf_test == {
    <<1, "%d", <<1000>>, "1000">>, <<2, "%x", <<16>>, "10">>, <<3, "%c", <<"A">>, "A">>,
    <<4, "%s", <<"hello">>, "hello">>, <<5, "%u", <<1234>>, "1234">>, <<6, "%p", <<305419896>>, "0x12345678">>,
    <<7, "%d", <<-500>>, "-500">>, <<8, "%#x", <<255>>, "0xff">>, <<9, "%08x", <<123>>, "0000007b">>,
    <<10, "%8d", <<123>>, "     123">>, <<11, "%s", <<NULL>>, "(null)">>, <<12, "%%", <<>>, "%">>,
    <<13, "%d", <<0>>, "0">>, <<14, "%x", <<0>>, "0">>, <<15, "%u", <<0>>, "0">>, <<17, "%s", <<"">>, "">>,
    <<18, "%p", <<0>>, "0x00000000">>, <<19, "%#08x", <<2748>>, "0x0000abc">>,
    <<20, "%10s", <<"test">>, "      test">>, <<21, "%.5s", <<"longstring">>, "longs">>,
    <<22, "%10.5s", <<"hello">>, "     hello">>, <<23, "%d", <<2147483647>>, "2147483647">>,
    <<24, "%d", <<INT_MIN>>, "-2147483648">>, <<29, "%8d", <<-123>>, "    -123">>,
    <<30, "%08d", <<-123>>, "-0000123">>, <<31, "%x", <<1>>, "1">>, <<32, "%c", <<"\n">>, "\n">>,
    <<33, "%s", <<"hello world">>, "hello world">>, <<34, "%12s", <<"hi">>, "          hi">>,
    <<35, "%.2s", <<"abcdef">>, "ab">>, <<36, "%#8x", <<291>>, "   0x123">>, <<37, "%d", <<987654>>, "987654">>,
    <<38, "%u", <<5>>, "5">>, <<39, "%12p", <<2748>>, "  0x00000abc">>, <<40, "%s", <<"test\n\t">>, "test\n\t">>,
    <<41, "%08d", <<0>>, "00000000">>, <<42, "%z42", <<42>>, "%z42">>,
    <<43, "%d %s %c", <<100, "multi", "X">>, "100 multi X">>, <<44, "%6u", <<456>>, "   456">>,
    <<45, "%#x", <<0>>, "0x0">>, <<46, "%.3s", <<NULL>>, "(nu">>, <<47, "%p", <<1>>, "0x00000001">>,
    <<48, "%12d", <<99>>, "          99">>, <<49, "%x", <<2748>>, "abc">>,
    <<50, "%d %#x %s %p", <<-42, 511, "end", 4660>>, "-42 0x1ff end 0x00001234">>}
=============================================================================
