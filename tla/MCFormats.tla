----------------------------- MODULE MCFormats -----------------------------
(***************************************************************************)
(* What the conversions of Formats and Keymap ought to give, and the calls *)
(* they are compared on: each flag, width and precision below, at, and     *)
(* above the length of the digits, values around a power of the base,      *)
(* colours in every order, and every keycode with every set of modifiers.  *)
(* A conversion has no state, so a property is a statement about all of    *)
(* the calls, which TLC evaluates once.                                    *)
(***************************************************************************)
EXTENDS Formats

K == INSTANCE Keymap

Positive == {0, 7, 9, 10, 15, 16, 100, 4096, 2147483647}
Values    == Positive \union {-1, -10, -2147483647}
Doubles   == {0, 1, 4, 5, 49, 50, 499, 500, 999, 1000, 1996, 31415} \union {-1, -500, -42567}

Call(fn, fmt, args, size) == [fn |-> fn, fmt |-> fmt, args |-> args, size |-> size]

SnprintfCalls ==
    {Call("snprintf", "%" \o f \o w \o p \o c, <<v>>, n) :
        f \in {"", "-", "0"}, w \in {"", "3", "9"}, p \in {"", ".3"},
        n \in {1, 4, 64}, v \in Positive, c \in {"d", "x", "X", "p"}}
    \union {Call("snprintf", "%" \o f \o w \o p \o "d", <<v>>, n) :
        f \in {"", "-", "0"}, w \in {"", "3", "9"}, p \in {"", ".3"}, n \in {1, 4, 64}, v \in Values}
HexCalls ==
    {Call("format_string", "%" \o f \o w \o c, <<v>>, 0) :
        f \in {"", "#"}, w \in {"", "1", "2", "04", "8", "11"}, c \in {"x", "X"}, v \in Positive}
FloatCalls ==
    {Call("format_string", "%" \o w \o p \o "f", <<v>>, 0) :
        w \in {"", "6", "9"}, p \in {"", ".0", ".1", ".2", ".3"}, v \in Doubles}
RoundTrips ==
    {Call("kscanf", "%d" \o s \o "%" \o c, <<v, w>>, 0) :
        s \in {" ", ",", " , "}, c \in {"d", "u", "i", "s"}, v \in Values,
        w \in Positive \ {9, 15, 16, 100}}
Attr(fg, bg) == [fg |-> fg, bg |-> bg]
Code   == {<<>>, <<0>>, <<31>>, <<94>>, <<42>>, <<107>>, <<1, 97>>, <<32, 41>>, <<103, 30>>, <<5, 37, 46>>}
ColourCalls ==
    {[fmt |-> <<a, b, d>>, args |-> Attr(7, 4), by |-> log] :
        a \in Code, b \in Code, d \in Code \union {<<200>>},
        log \in {"printf", "logger_error", "logger_success"}}

\* The text that a kscanf of the same format is given.
Printed(c) == format_string(SubSeq(c.fmt, 1, Len(c.fmt) - 1) \o "d", c.args)

\* A text in three parts of one character, each behind its codes; a part
\* without codes has no escape sequence.
Joined(codes) ==
    FoldLeft(LAMBDA s, i : s \o (IF i = 1 THEN "" ELSE ";") \o itoa(codes[i]), "", [i \in DOMAIN codes |-> i])
Part(codes, c) == (IF codes = <<>> THEN "" ELSE ESC \o "[" \o Joined(codes) \o "m") \o c
Text(parts)    == Part(parts[1], "x") \o Part(parts[2], "y") \o Part(parts[3], "z")

RED == 4
LIGHT_GREEN == 10
Shown(c) == CASE c.by = "printf"       -> printf(Text(c.fmt), c.args)
              [] c.by = "logger_error" -> logger(Text(c.fmt), RED, c.args)
              [] OTHER                   -> logger(Text(c.fmt), LIGHT_GREEN, c.args)

Directive(c, flags) == Conversion(c.fmt, 2, flags)

-----------------------------------------------------------------------------
(***************************************************************************)
(* The reference: a numeral is as long as the smallest power of the base   *)
(* above the value, and has the value's remainder at each place.           *)
(***************************************************************************)
Place(v, base, i) == IF base = 16 /\ i > 7 THEN 0 ELSE (v \div base ^ i) % base
Places(v, base)   == CHOOSE n \in 1 .. 10 : v \div base ^ (n - 1) < base
Numerals(v, base, chars, n) ==
    FoldLeft(LAMBDA s, i : s \o Char(chars, Place(v, base, n - i) + 1), "", [i \in 1 .. n |-> i])
Reference(v, base, chars) == Numerals(v, base, chars, Places(v, base))

Abs(v) == IF v < 0 THEN - v ELSE v
Standard(c) ==
    LET spec == Directive(c, {"-", "0"})
        v    == c.args[1]
        sign == IF v < 0 THEN "-" ELSE IF spec.specifier = "p" THEN "0x" ELSE ""
        num  == IF spec.specifier \in {"x", "X", "p"}
                THEN Reference(Abs(v), 16, IF spec.specifier = "X" THEN UPPER ELSE LOWER)
                ELSE Reference(Abs(v), 10, LOWER)
        body == Copies("0", (IF spec.exact THEN spec.precision ELSE 0) - Len(num)) \o num
        fill == spec.width - Len(sign) - Len(body)
    IN  IF HasChar(spec.flags, "-") THEN sign \o body \o Copies(" ", fill)
        ELSE IF HasChar(spec.flags, "0") THEN sign \o Copies("0", fill) \o body
        ELSE Copies(" ", fill) \o sign \o body

(***************************************************************************)
(* snprintf stores what fits of the text that C prescribes, and returns    *)
(* the length of all of it.  Left out are a sign or 0x with zeros in front *)
(* of it, and zero padding with a precision, where put_number differs from *)
(* C.                                                                      *)
(***************************************************************************)
Prefixed(c) == c.args[1] < 0 \/ Directive(c, {"-", "0"}).specifier = "p"
SnprintfIsStandard ==
    \A c \in SnprintfCalls :
        LET spec == Directive(c, {"-", "0"})
            zero == spec.flags = "0"
            text == Standard(c)
            fits == IF Len(text) < c.size - 1 THEN Len(text) ELSE c.size - 1
        IN  \/ (spec.exact \/ zero) /\ Prefixed(c)
            \/ spec.exact /\ zero
            \/ vsnprintf(c.size, c.fmt, c.args) = [str |-> SubSeq(text, 1, fits), pos |-> Len(text)]

(***************************************************************************)
(* itohex prints as many hexadecimal digits as the width says, the low     *)
(* ones of the number, behind a prefix that does not count.                *)
(***************************************************************************)
HexKeepsLowDigits ==
    \A c \in HexCalls :
        LET spec  == Directive(c, {"#"})
            chars == IF spec.specifier = "X" THEN UPPER ELSE LOWER
        IN  format_string(c.fmt, c.args) =
                (IF spec.flags = "" THEN "" ELSE IF chars = UPPER THEN "0X" ELSE "0x")
                \o Numerals(c.args[1], 16, chars, spec.width)

(***************************************************************************)
(* %f prints the nearest decimal number.  Left out are the fractions that  *)
(* round up to 1: dtoaf prints 0.999 with two places as 0.100.             *)
(***************************************************************************)
Stripped(s) == IF HasChar(s, " ") THEN SubSeq(s, 1 + CHOOSE i \in 1 .. Len(s) : Char(s, i) = " " /\ Char(s, i + 1) # " ", Len(s)) ELSE s
FloatIsRounded ==
    \A c \in FloatCalls :
        LET spec   == Directive(c, {"#"})
            places == IF spec.exact THEN spec.precision ELSE 6
            v      == Abs(c.args[1])
            got    == format_string(c.fmt, c.args)
            text   == IF c.args[1] < 0 THEN Tail(got) ELSE got
            plain  == Stripped(text)
            point  == CHOOSE i \in 1 .. Len(plain) : Char(plain, i) = "."
            unit   == 10 ^ (IF places > 3 THEN 0 ELSE 3 - places)     \* one unit of the last place, in thousandths
            frac   == Numeral(plain, point + 1, point + 1 + (IF places > 3 THEN 3 ELSE places))
        IN  \/ v % 1000 >= 1000 - unit \div 2 /\ unit > 1
            \/ places = 0
            \/ /\ Len(plain) = point + places
               /\ Numeral(plain, 1, point) = v \div 1000
               /\ 2 * Abs(frac * unit - (v % 1000)) <= unit
               /\ Len(text) >= spec.width \/ Len(text) = Len(plain)

(***************************************************************************)
(* serial_printf prints what its tests announce, but for four of them:     *)
(* with a sign or 0x and blanks the padding comes behind the prefix (29,   *)
(* 36), %#08x counts the prefix as part of the width (19), and a wide %p   *)
(* is filled with zeros (39).                                              *)
(***************************************************************************)
TestsPassButFour ==
    \A t \in serial_printf_test : serial_printf(t[2], t[3]) = t[4] <=> t[1] \notin {19, 29, 36, 39}

(***************************************************************************)
(* What printf wrote, kscanf reads back: two numbers, or a number and a    *)
(* word, with any separator that the format names.                         *)
(***************************************************************************)
ScanReadsWhatWasPrinted ==
    \A c \in RoundTrips :
        kscanf(c.fmt, Printed(c)) =
            <<c.args[1], IF Char(c.fmt, Len(c.fmt)) = "s" THEN itoa(c.args[2]) ELSE c.args[2]>>

(***************************************************************************)
(* What format_string prints for a number is the number: the digits that   *)
(* the width of %x asks for, and the nearest decimal for %f.               *)
(***************************************************************************)
FormatStringIsExact == HexKeepsLowDigits /\ FloatIsRounded

(***************************************************************************)
(* A character has the colours that the last of the codes in front of it   *)
(* chose, and the call leaves behind those of the last sequence, or for a  *)
(* log line the colours from before.  A code that chooses the text's       *)
(* colour keeps the background of the call, and the other way round.       *)
(***************************************************************************)
Wanted(codes, was, current) ==
    LET Chosen(kind, old) ==
            LET is == {i \in DOMAIN codes : codes[i] \in kind}
            IN  IF is = {} THEN old
                ELSE LET n == codes[CHOOSE i \in is : \A j \in is : j <= i]
                     IN  IF n >= 90 THEN 8 + (n % 10) ELSE n % 10
    IN  IF codes = <<>> THEN was
        ELSE Attr(Chosen(30 .. 37 \union 90 .. 97, current.fg), Chosen(40 .. 47 \union 100 .. 107, current.bg))
TextIsColoured ==
    \A c \in ColourCalls :
        LET current == CASE c.by = "printf"       -> c.args
                         [] c.by = "logger_error" -> Attr(RED, 0)
                         [] OTHER                   -> Attr(LIGHT_GREEN, 0)
            x == Wanted(c.fmt[1], current, current)
            y == Wanted(c.fmt[2], x, current)
            z == Wanted(c.fmt[3], y, current)
            got == Shown(c)
        IN  /\ SubSeq(got.cells, 1, 3) = <<<<"x", x>>, <<"y", y>>, <<"z", z>>>>
            /\ got.attr = IF c.by = "printf" THEN z ELSE c.args

(***************************************************************************)
(* Every character of the keyboard can be typed, and has but one key with  *)
(* or without a shift; with both the shift and Caps Lock a letter is       *)
(* small, and Caps Lock alone changes no other key.  Left out are the keys *)
(* whose lookup runs past the end of a table (the space bar and the        *)
(* numeric keypad with Shift, and the arrow keys), which give any byte.    *)
(***************************************************************************)
MainKeys == {k \in 0 .. 53 : K!Covers(K!keycode_to_ascii_unshifted, k)}
Typed(k, mods) == K!keycode_to_ascii(k, mods)
Typist(c) == {<<k, mods>> \in MainKeys \X {{}, {"SHIFT"}} : c \in Typed(k, mods)}
EveryCharacterHasAKey ==
    \A key \in MainKeys, mods \in SUBSET {"SHIFT", "CAPSLOCK", "NUMLOCK"} :
        /\ Cardinality(Typed(key, mods)) = 1 /\ Typed(key, mods) # {""}
        /\ \A c \in Typed(key, mods) :
             /\ \A t \in Typist(c) : t[1] = key
             /\ IF \E b \in Typed(key, {}) : K!IsLetter(b)
                THEN K!IsLetter(c) <=> mods \intersect {"SHIFT", "CAPSLOCK"} \in {{}, {"SHIFT", "CAPSLOCK"}}
                ELSE Typed(key, mods \ {"CAPSLOCK"}) = {c}
=============================================================================
