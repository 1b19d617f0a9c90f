------------------------------ MODULE Console ------------------------------
(***************************************************************************)
(* The text console: the screen of drivers/vga.c, the output that puts and *)
(* printf of the kernel's libc send it character by character, and the     *)
(* line editor of libc/stdio/scanf.c (read_input and getchar), which edits *)
(* its buffer and the screen side by side.                                 *)
(*                                                                         *)
(* No interrupt handler writes to the screen, so a call is one step.  The  *)
(* keys are those that come out of the keyboard driver; a character is a   *)
(* model value, and the colour of a cell is left out.                      *)
(***************************************************************************)
EXTENDS Integers, Sequences, SequencesExt

CONSTANTS
    screenwidth, screenheight, tabsize,
    INPUT_BUFFER_SIZE,
    Printable,          \* the characters typed and printed
    BLANK, TAB, NEWLINE, BACKSPACE,
    MaxCalls,           \* bound: calls of the kernel between two lines
    MaxKeys             \* bound: keys struck for a line

ASSUME ConsoleAssumption ==
    /\ {screenwidth, screenheight, tabsize, INPUT_BUFFER_SIZE} \subseteq Nat \ {0}
    /\ screenwidth % tabsize = 0
    /\ INPUT_BUFFER_SIZE \in 2 .. (screenheight - 1) * screenwidth + 2
    /\ BLANK \notin {TAB, NEWLINE} /\ MaxCalls \in Nat /\ MaxKeys \in Nat

VARIABLES
    vga,            \* cells, cursor (curx, cury), the hardware's cursor
    input_buffer,   \* its first input_pos characters
    reading,        \* whether read_input has not returned yet
    start,          \* where the line began, counted along the screen's rows
    reach,          \* the farthest place the line came to
    tabs,           \* whether a TAB was taken back from the line
    calls, keys     \* how often the bounded actions were taken

console_vars == <<vga, input_buffer, reading, start, reach, tabs, calls, keys>>

(***************************************************************************)
(* History: start, reach and tabs only serve the properties; scrolling     *)
(* moves start and reach up with the text, start to a negative place when  *)
(* the line's beginning is off the screen.                                 *)
(***************************************************************************)
Columns == 0 .. screenwidth - 1
Rows    == 0 .. screenheight - 1
Cell    == Printable \union {BLANK, BACKSPACE}

At(x, y) == y * screenwidth + x
Cursor   == At(vga.curx, vga.cury)

ConsoleTypeOK ==
    /\ vga.cell \in [Rows -> [Columns -> Cell]]
    /\ vga.curx \in Columns /\ vga.cury \in Rows
    /\ vga.hardware = Cursor
    /\ input_buffer \in Seq(Printable \union {TAB, NEWLINE, BACKSPACE})
    /\ Len(input_buffer) < INPUT_BUFFER_SIZE
    /\ reading \in BOOLEAN /\ tabs \in BOOLEAN
    /\ start \in Int /\ reach \in Int
    /\ calls \in 0 .. MaxCalls /\ keys \in 0 .. MaxKeys

-----------------------------------------------------------------------------
(* The screen.  Each operator takes a screen and gives the next; scrolled  *)
(* counts the lines a call has scrolled by.                                *)
BlankRow == [x \in Columns |-> BLANK]

vga_update_cursor(s) == [s EXCEPT !.hardware = At(s.curx, s.cury)]

vga_clear(s) ==
    vga_update_cursor([s EXCEPT !.cell = [y \in Rows |-> BlankRow],
                                !.curx = 0, !.cury = 0])

vga_scroll(s, step) ==
    IF step >= screenheight THEN vga_clear(s)
    ELSE vga_update_cursor(
           [s EXCEPT !.cell = [y \in Rows |-> IF y + step \in Rows THEN s.cell[y + step]
                                                                   ELSE BlankRow],
                     !.cury = IF @ >= step THEN @ - step ELSE 0,
                     !.scrolled = @ + step])

vga_gotoxy(s, x, y) == vga_update_cursor([s EXCEPT !.curx = x, !.cury = y])

(* The character itself: the cursor may come to stand behind the last      *)
(* column or under the last row.                                           *)
Drawn(s, c) ==
    IF c = NEWLINE THEN [s EXCEPT !.curx = 0, !.cury = @ + 1]
    ELSE IF c = TAB
    THEN LET stop == s.curx + tabsize - (s.curx % tabsize)
             last == IF stop < screenwidth THEN stop ELSE screenwidth
         IN  [s EXCEPT !.cell[s.cury] = [x \in Columns |->
                           IF x \in s.curx .. last - 1 THEN BLANK ELSE @[x]],
                       !.curx = last]
    ELSE [s EXCEPT !.cell[s.cury][s.curx] = c, !.curx = @ + 1]

Wrapped(s) ==
    IF s.curx >= screenwidth THEN [s EXCEPT !.curx = 0, !.cury = @ + 1] ELSE s

vga_put_char(s, c) ==
    IF s.curx >= screenwidth \/ s.cury >= screenheight THEN s
    ELSE LET w == Wrapped(Drawn(s, c))
         IN  vga_update_cursor(IF w.cury >= screenheight THEN vga_scroll(w, 1) ELSE w)

(* A call starts with nothing scrolled; the history moves with the text. *)
Shows(s) == /\ vga' = [s EXCEPT !.scrolled = 0]
            /\ start' = start - s.scrolled * screenwidth

-----------------------------------------------------------------------------
ConsoleInit ==
    /\ vga = vga_clear([cell |-> [y \in Rows |-> BlankRow], curx |-> 0, cury |-> 0,
                        hardware |-> 0, scrolled |-> 0])
    /\ input_buffer = << >>
    /\ reading = FALSE /\ tabs = FALSE
    /\ start = 0 /\ reach = 0
    /\ calls = 0 /\ keys = 0

(* The kernel's own output between two lines. *)
Output(s) ==
    /\ ~reading /\ calls < MaxCalls
    /\ calls' = calls + 1
    /\ vga' = [s EXCEPT !.scrolled = 0]
    /\ UNCHANGED <<input_buffer, reading, start, reach, tabs, keys>>

puts == \E c \in Printable : Output(vga_put_char(vga_put_char(vga, c), NEWLINE))

printf == \E c \in Printable \union {TAB, NEWLINE} : Output(vga_put_char(vga, c))

Screen == \/ Output(vga_clear(vga))
          \/ \E step \in 1 .. screenheight : Output(vga_scroll(vga, step))
          \/ \E x \in Columns, y \in Rows : Output(vga_gotoxy(vga, x, y))

(* kscanf begins with read_input, which empties the buffer. *)
read_input ==
    /\ ~reading
    /\ reading' = TRUE
    /\ input_buffer' = << >>
    /\ start' = Cursor /\ reach' = Cursor /\ tabs' = FALSE
    /\ UNCHANGED <<vga, calls, keys>>

(* A key that is released, or has no character, is passed over. *)
OtherKey == reading /\ UNCHANGED console_vars

(* Takes the last character from the buffer and blanks its cell, which is  *)
(* in the row above when the cursor is in the first column.                *)
Rubout_KeepsRow(s) ==
    LET x == IF s.curx > 0 THEN s.curx - 1 ELSE 0
    IN  vga_gotoxy(vga_put_char(vga_gotoxy(s, x, s.cury), BLANK), x, s.cury)
Rubout(s) ==
    LET x == IF s.curx > 0 THEN s.curx - 1 ELSE screenwidth - 1
        y == IF s.curx > 0 THEN s.cury ELSE s.cury - 1
    IN  IF s.curx = 0 /\ s.cury = 0 THEN s
        ELSE vga_gotoxy(vga_put_char(vga_gotoxy(s, x, y), BLANK), x, y)

Erase ==
    /\ reading /\ keys < MaxKeys
    /\ keys' = keys + 1
    /\ input_buffer # << >>
    /\ input_buffer' = Front(input_buffer)
    /\ tabs' = (tabs \/ Last(input_buffer) = TAB)
    /\ Shows(Rubout(vga))
    /\ UNCHANGED <<reading, reach, calls>>

(* A character is stored and shown.  Backspace is one when the line is     *)
(* empty.  A newline, or the last place of the buffer, ends the line.      *)
Store(c) ==
    /\ reading /\ keys < MaxKeys
    /\ keys' = keys + 1
    /\ c = BACKSPACE => input_buffer = << >>
    /\ input_buffer' = Append(input_buffer, c)
    /\ LET s == vga_put_char(vga, c)
       IN  /\ Shows(s)
           /\ reach' = LET here == At(s.curx, s.cury)
                           was  == reach - s.scrolled * screenwidth
                       IN  IF c # NEWLINE /\ here > was THEN here ELSE was
    /\ reading' = (c # NEWLINE /\ Len(input_buffer') < INPUT_BUFFER_SIZE - 1)
    /\ UNCHANGED <<tabs, calls>>

getchar == OtherKey \/ Erase
           \/ \E c \in Printable \union {TAB, NEWLINE, BACKSPACE} : Store(c)

ConsoleNext == puts \/ printf \/ Screen \/ read_input \/ getchar

ConsoleSpec == ConsoleInit /\ [][ConsoleNext]_console_vars

-----------------------------------------------------------------------------
(* The place behind a character at place q, and the places between the     *)
(* characters of the line, from the one where it began.                    *)
Behind(q, c) == IF c = TAB THEN q + tabsize - (q % tabsize) ELSE q + 1
Places ==
    LET place[i \in 0 .. Len(input_buffer)] ==
          IF i = 0 THEN start ELSE Behind(place[i - 1], input_buffer[i])
    IN  place

Shown(q) == vga.cell[q \div screenwidth][q % screenwidth]

(* What the user sees is what kscanf will parse: while a line is read, its *)
(* characters are on the screen from where it began, over the ends of rows *)
(* and through scrolling, the cursor (also the hardware's) stands after    *)
(* the last of them, and what was taken back is blank.  The one exception  *)
(* is a TAB taken back: several cells were drawn for it and one is undone. *)
LineIsOnScreen ==
    ConsoleTypeOK /\
    (reading /\ ~tabs =>
      /\ Cursor = Places[Len(input_buffer)]
      /\ \A i \in DOMAIN input_buffer :
            LET q == Places[i - 1]
            IN  q >= 0 => Shown(q) = IF input_buffer[i] = TAB THEN BLANK ELSE input_buffer[i]
      /\ \A q \in Cursor .. reach - 1 : Shown(q) = BLANK)
=============================================================================
