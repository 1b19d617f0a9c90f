------------------------------- MODULE Keymap -------------------------------
(***************************************************************************)
(* keycode_to_ascii of drivers/keyboard.c, the step from the keys that the *)
(* driver queues to the characters that getchar puts into a line.          *)
(*                                                                         *)
(* The two tables are C arrays that end at their largest keycode.  What is *)
(* read behind the end can be any byte, so the result is the set of the    *)
(* characters a build can give; "" is the NUL of a key without character,  *)
(* "\f" stands for backspace and "\r" for the backtick.                   *)
(***************************************************************************)
EXTENDS Integers, Sequences, FiniteSets

At(s, i) == SubSeq(s, i, i)

\* The keys of a row have consecutive scancodes from first on.
Row(first, s)       == [k \in first .. first + Len(s) - 1 |-> At(s, k - first + 1)]
Covers(rows, k)     == \E r \in rows : k \in DOMAIN r
Character(rows, k)  == LET r == CHOOSE q \in rows : k \in DOMAIN q IN r[k]

keycode_to_ascii_unshifted ==
    {Row(2, "1234567890-=\f\tqwertyuiop[]\n"), Row(30, "asdfghjkl;'\r"), Row(43, "\\zxcvbnm,./"),
     Row(55, "*"), Row(57, " "), Row(71, "789-456+1230."), Row(57344 + 53, "/"), Row(57344 + 28, "\n")}

keycode_to_ascii_shifted ==
    {Row(2, "!@#$%^&*()_+"), Row(26, "{}"), Row(39, ":\"~"), Row(43, "|"), Row(51, "<>?")}

Letters == "abcdefghijklmnopqrstuvwxyz"
Capital(c) == LET i == CHOOSE j \in 1 .. 26 : At(Letters, j) = c
              IN  At("ABCDEFGHIJKLMNOPQRSTUVWXYZ", i)
IsLetter(c) == \E j \in 1 .. 26 : At(Letters, j) = c

is_numpad_number(code) == code \in (71 .. 82) \ {74, 78}

\* Either a NUL or some other byte.
OTHERS  == "any other byte"
AnyByte == {"", OTHERS}

Lookup(rows, code, end) ==
    IF code > end THEN AnyByte ELSE IF Covers(rows, code) THEN {Character(rows, code)} ELSE {""}

\* Mutant: Caps Lock works as a shift for every key.
Shifted_ByCapsLock(base, code, shift, caps) ==
    IF IsLetter(base) THEN {IF shift # caps THEN Capital(base) ELSE base}
    ELSE IF shift \/ caps
    THEN {IF c = "" THEN base ELSE c : c \in Lookup(keycode_to_ascii_shifted, code, 53)}
    ELSE {base}
Shifted(base, code, shift, caps) ==
    IF IsLetter(base) THEN {IF shift # caps THEN Capital(base) ELSE base}
    ELSE IF shift
    THEN {IF c = "" THEN base ELSE c : c \in Lookup(keycode_to_ascii_shifted, code, 53)}
    ELSE {base}

keycode_to_ascii(code, modifiers) ==
    UNION {IF base = "" \/ (is_numpad_number(code) /\ "NUMLOCK" \notin modifiers) THEN {""}
           ELSE Shifted(base, code, "SHIFT" \in modifiers, "CAPSLOCK" \in modifiers) :
           base \in Lookup(keycode_to_ascii_unshifted, code, 57344 + 53)}
=============================================================================
