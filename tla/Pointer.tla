------------------------------ MODULE Pointer ------------------------------
(***************************************************************************)
(* The mouse (drivers/mouse.c) and the text cursor it moves                *)
(* (drivers/cursor.c), which keeps the cell of the text screen it covers.  *)
(*                                                                         *)
(* Two parties use both: the interrupt handler, which gets the mouse's     *)
(* bytes and runs to its end, and the main program, whose calls the        *)
(* handler may interrupt between any two accesses to the screen or to the  *)
(* driver's variables.  Nothing in the code keeps them apart.              *)
(***************************************************************************)
EXTENDS Integers, Sequences

CONSTANTS
    DEFAULT_SCREEN_WIDTH, DEFAULT_SCREEN_HEIGHT,  \* cells of the text screen
    MIN_SCREEN_SIZE,
    MOUSE_NORMAL_SPEED,
    SCREEN_WIDTH_BASELINE, SCREEN_HEIGHT_BASELINE,
    DeltaBits,      \* bits in a byte of the mouse: 8
    ShortBits,      \* in a coordinate of vga_put_char_at, an int16_t: 16
    Bytes,          \* those it sends: bit 3 of the byte, and its signed value
    Sizes,          \* set_screen_size is called with, "in pixels/characters"
    Types,          \* shapes of the cursor besides CURSOR_DEFAULT
    MaxBytes,       \* bound: bytes from the mouse
    MaxCalls,       \* bound: calls of the main program
    MaxWrites       \* bound: characters the main program writes

ASSUME PointerAssumption ==
    /\ {DEFAULT_SCREEN_WIDTH, DEFAULT_SCREEN_HEIGHT, MIN_SCREEN_SIZE, MOUSE_NORMAL_SPEED,
        SCREEN_WIDTH_BASELINE, SCREEN_HEIGHT_BASELINE, DeltaBits, ShortBits} \subseteq Nat \ {0}
    /\ MIN_SCREEN_SIZE =< DEFAULT_SCREEN_WIDTH /\ MIN_SCREEN_SIZE =< DEFAULT_SCREEN_HEIGHT
    /\ Bytes \subseteq [bit3 : BOOLEAN, delta : Int]
    /\ Sizes \subseteq Int \X Int

VARIABLES
    mouse,      \* _mouse_data and whether the handler is registered
    cursor,     \* _cursor_state
    cell,       \* the memory at VGA_MEMORY: a character and an attribute
    todo,       \* what is left of the main program's call
    args,       \* the call's arguments
    text,       \* history: what was written to the screen
    touched,    \* history: cells changed since the call began
    raced,      \* history: whether the handler moved the cursor meanwhile
    spoilt,     \* history: cells the cursor is known to have damaged
    bytes, calls, writes

pointer_vars == <<mouse, cursor, cell, todo, args, text, touched, raced, spoilt,
                  bytes, calls, writes>>

(* A screen too small to be one is taken for the default; none is too      *)
(* large.                                                                  *)
Asked(size) == IF size[1] < MIN_SCREEN_SIZE \/ size[2] < MIN_SCREEN_SIZE
               THEN <<DEFAULT_SCREEN_WIDTH, DEFAULT_SCREEN_HEIGHT>> ELSE size

(* A cell of the memory is named by its distance from VGA_MEMORY; a row    *)
(* has as many as the text screen, whatever the size of the mouse's.       *)
Short(v) == ((v + 2^(ShortBits - 1)) % 2^ShortBits) - 2^(ShortBits - 1)
Address(x, y) == Short(y) * DEFAULT_SCREEN_WIDTH + Short(x)

Screen(width, height) == {Address(x, y) : x \in 0 .. width - 1, y \in 0 .. height - 1}
Text == Screen(DEFAULT_SCREEN_WIDTH, DEFAULT_SCREEN_HEIGHT)

(* Those that screens of the sizes asked for have, also one whose width    *)
(* and height are of two sizes.                                            *)
Widths  == {DEFAULT_SCREEN_WIDTH} \union {Asked(size)[1] : size \in Sizes}
Heights == {DEFAULT_SCREEN_HEIGHT} \union {Asked(size)[2] : size \in Sizes}
Cells   == UNION {Screen(w, h) : w \in Widths, h \in Heights}

CURSOR_DEFAULT == "default"

Shapes == Types \union {CURSOR_DEFAULT}

(* Attributes: two that swap_colors exchanges, and the cursor's own.       *)
Normal == "normal"
Own    == "own"
swap_colors(a) == CASE a = Normal -> "swapped" [] a = "swapped" -> Normal [] OTHER -> a

(* Everything the driver's statements read and write.                      *)
Now == [mouse |-> mouse, cursor |-> cursor, cell |-> cell]
Spot(s) == s.cursor.at
-----------------------------------------------------------------------------
(* The cursor.  Each operator takes a state and gives the next. *)

Restore(s) == [s EXCEPT !.cell[Spot(s)] = s.cursor.last]
(* Mutant: the new cell is not kept. *)
Save_Not(s, at) == s
Save(s, at) == [s EXCEPT !.cursor.last = s.cell[at]]

(* The default cursor is the cell it covers in exchanged colours. *)
Face(c) == IF c.type = CURSOR_DEFAULT
           THEN [ch |-> c.last.ch, attr |-> swap_colors(c.last.attr)]
           ELSE [ch |-> c.type, attr |-> Own]
Draw(s, at)  == [s EXCEPT !.cell[at] = Face(s.cursor)]
Place(s, at) == [s EXCEPT !.cursor.at = at]

cursor_move(s, at) ==
    Place(IF s.cursor.visible THEN Draw(Save(Restore(s), at), at) ELSE s, at)

Middle(w, h) == Address(w \div 2, h \div 2)
cursor_init(s) ==
    [Place(s, Middle(DEFAULT_SCREEN_WIDTH, DEFAULT_SCREEN_HEIGHT))
        EXCEPT !.cursor.type = CURSOR_DEFAULT, !.cursor.visible = FALSE]
-----------------------------------------------------------------------------
(* The mouse.  A position is counted in fractions of a cell, so that the   *)
(* scaling by speed and screen is exact: Unit of them are a column.        *)
Unit  == MOUSE_NORMAL_SPEED * SCREEN_WIDTH_BASELINE
UnitY == MOUSE_NORMAL_SPEED * SCREEN_HEIGHT_BASELINE

At(m) == Address(m.x \div Unit, m.y \div UnitY)

(* raw_dy = -raw_dy in a signed byte: the least value is its own negative. *)
Negated(d) == IF d = -(2^(DeltaBits - 1)) THEN d ELSE -d

Clamped(v, size, unit) ==
    IF v < 0 THEN 0 ELSE IF v >= size * unit THEN (size - 1) * unit ELSE v

Moved(m, dx, dy) ==
    [m EXCEPT !.x = Clamped(@ + dx * m.speed * m.width, m.width, Unit),
              !.y = Clamped(@ + Negated(dy) * m.speed * m.height, m.height, UnitY)]

(* The third byte completes a packet; one whose first byte lacks bit 3 is  *)
(* dropped whole, and the next byte begins another.                        *)
mouse_handle_data(s, b) ==
    LET got == Append(s.mouse.buffer, b)
    IN  IF Len(got) < 3 THEN [s EXCEPT !.mouse.buffer = got]
        ELSE IF ~got[1].bit3 THEN [s EXCEPT !.mouse.buffer = << >>]
        ELSE LET m == [Moved(s.mouse, got[2].delta, got[3].delta) EXCEPT !.buffer = << >>]
             IN  cursor_move([s EXCEPT !.mouse = m], At(m))
-----------------------------------------------------------------------------
(* The byte that makes the handler move the cursor. *)
Completes == mouse.handler /\ Len(mouse.buffer) = 2 /\ mouse.buffer[1].bit3

Changed(s) == {c \in Cells : s.cell[c] # cell[c]}

Becomes(s) == mouse' = s.mouse /\ cursor' = s.cursor /\ cell' = s.cell

(* The mouse's interrupt: the handler takes the byte, if there is one. *)
isr_mouse(b) ==
    /\ bytes < MaxBytes /\ bytes' = bytes + 1
    /\ LET s == IF mouse.handler THEN mouse_handle_data(Now, b) ELSE Now
       IN  /\ Becomes(s)
           /\ IF todo = << >> THEN UNCHANGED <<touched, raced>>
              ELSE /\ touched' = touched \union Changed(s)
                   /\ raced' = (raced \/ Completes)
    /\ UNCHANGED <<todo, args, text, spoilt, calls, writes>>

(* The main program calls: the steps its call still has to do. *)
Call(steps, a) ==
    /\ todo = << >> /\ calls < MaxCalls
    /\ calls' = calls + 1 /\ todo' = steps /\ args' = a
    /\ UNCHANGED <<mouse, cursor, cell, text, touched, raced, spoilt, bytes, writes>>

ShowSteps == <<"show">>
(* Mutant: the position is set before the size. *)
SizeSteps_Late == <<"x", "y", "width", "height">>
SizeSteps == <<"width", "height", "x", "y">>

mouse_init == \E size \in Sizes :
    Call(<<"handler">> \o SizeSteps \o <<"reset", "init", "save">> \o ShowSteps, Asked(size))
mouse_set_screen_size == \E size \in Sizes : Call(SizeSteps \o <<"move">>, Asked(size))
cursor_show == Call(ShowSteps, args)
cursor_hide == Call(<<"hide">>, args)
cursor_set_type == \E t \in Shapes : Call(<<"type">>, t)
(* The two colours go to one attribute: only its being drawn anew matters. *)
cursor_set_colors == Call(<<"colors">>, args)

Step == Head(todo)
Then(s, more) == Becomes(s) /\ todo' = more \o Tail(todo)

SizeStep ==
    \/ Step = "handler" /\ Then([Now EXCEPT !.mouse.handler = TRUE], << >>)
    \/ Step = "width"   /\ Then([Now EXCEPT !.mouse.width = args[1]], << >>)
    \/ Step = "height"  /\ Then([Now EXCEPT !.mouse.height = args[2]], << >>)
    \/ Step = "x"       /\ Then([Now EXCEPT !.mouse.x = (args[1] \div 2) * Unit], << >>)
    \/ Step = "y"       /\ Then([Now EXCEPT !.mouse.y = (args[2] \div 2) * UnitY], << >>)
    \/ Step = "reset"   /\ Then([Now EXCEPT !.mouse.buffer = << >>,
                                            !.mouse.speed = 2 * MOUSE_NORMAL_SPEED], << >>)

(* The steps that decide by what the driver's variables say now; those     *)
(* after them no longer look.                                              *)
CursorStep ==
    \/ Step = "init" /\ Then(cursor_init(Now), << >>)
    \/ Step = "show" /\ Then(Now, IF cursor.visible THEN << >> ELSE <<"save", "draw", "visible">>)
    \/ Step = "hide" /\ Then(Now, IF cursor.visible THEN <<"restore", "invisible">> ELSE << >>)
    \/ Step = "type" /\ Then([Now EXCEPT !.cursor.type = args],
                             IF cursor.visible THEN <<"draw">> ELSE << >>)
    \/ Step = "colors" /\ Then(Now, IF cursor.visible /\ cursor.type # CURSOR_DEFAULT
                                    THEN <<"draw">> ELSE << >>)
    \/ Step = "restore" /\ Then(Restore(Now), << >>)
    \/ Step = "save"    /\ Then(Save(Now, Spot(Now)), << >>)
    \/ Step = "draw"    /\ Then(Draw(Now, Spot(Now)), << >>)
    \/ Step = "visible"   /\ Then([Now EXCEPT !.cursor.visible = TRUE], << >>)
    \/ Step = "invisible" /\ Then([Now EXCEPT !.cursor.visible = FALSE], << >>)

(* cursor_move of the main program: its target is fixed when it is called. *)
MoveStep ==
    \/ /\ Step = "move" /\ args' = At(mouse)
       /\ Then(Now, IF cursor.visible THEN <<"restore", "save_to", "draw_to", "place">>
                                      ELSE <<"place">>)
    \/ /\ UNCHANGED args
       /\ \/ Step = "save_to" /\ Then(Save(Now, args), << >>)
          \/ Step = "draw_to" /\ Then(Draw(Now, args), << >>)
          \/ Step = "place"   /\ Then(Place(Now, args), << >>)

(* The end of a call: one that was interrupted may have damaged the cells  *)
(* changed meanwhile and the one the cursor stands on; a cursor that is    *)
(* initialised while it is shown leaves its face behind.                   *)
Proceed ==
    /\ todo # << >>
    /\ (SizeStep /\ UNCHANGED args) \/ (CursorStep /\ UNCHANGED args) \/ MoveStep
    /\ LET t == touched \union {c \in Cells : cell'[c] # cell[c]}
           left == IF Step = "init" /\ cursor.visible THEN {Spot(Now)} ELSE {}
       IN  IF todo' = << >>
           THEN /\ touched' = {} /\ raced' = FALSE
                /\ spoilt' = spoilt \union left
                       \union IF raced THEN t \union {cursor'.at} ELSE {}
           ELSE /\ touched' = t /\ raced' = raced
                /\ spoilt' = spoilt \union left
    /\ UNCHANGED <<text, bytes, calls, writes>>

(* The main program writes a character, over the cursor or beside it. *)
Write == \E at \in Text :
    /\ todo = << >> /\ writes < MaxWrites /\ writes' = writes + 1
    /\ LET c == [ch |-> "new", attr |-> Normal]
       IN  cell' = [cell EXCEPT ![at] = c] /\ text' = [text EXCEPT ![at] = c]
    /\ spoilt' = IF cursor.visible /\ at = Spot(Now) THEN spoilt \union {at} ELSE spoilt \ {at}
    /\ UNCHANGED <<mouse, cursor, todo, args, touched, raced, bytes, calls>>

PointerInit ==
    /\ mouse = [handler |-> FALSE, buffer |-> << >>,
                x |-> (DEFAULT_SCREEN_WIDTH \div 2) * Unit,
                y |-> (DEFAULT_SCREEN_HEIGHT \div 2) * UnitY,
                width |-> DEFAULT_SCREEN_WIDTH, height |-> DEFAULT_SCREEN_HEIGHT,
                speed |-> MOUSE_NORMAL_SPEED]
    /\ text = [c \in Cells |-> [ch |-> IF c % 2 = 0 THEN "even" ELSE "odd", attr |-> Normal]]
    /\ cell = text
    /\ cursor = [at |-> Address(0, 0), type |-> CURSOR_DEFAULT, visible |-> FALSE,
                 last |-> [ch |-> "none", attr |-> Normal]]
    /\ todo = << >> /\ args = << >>
    /\ touched = {} /\ raced = FALSE /\ spoilt = {}
    /\ bytes = 0 /\ calls = 0 /\ writes = 0

PointerMain == mouse_init \/ mouse_set_screen_size \/ cursor_show \/ cursor_hide
               \/ cursor_set_type \/ cursor_set_colors \/ Write

PointerSpec == PointerInit
               /\ [][(\E b \in Bytes : isr_mouse(b)) \/ PointerMain \/ Proceed]_pointer_vars
-----------------------------------------------------------------------------
(* The cursor is a sheet over the text: whatever calls and packets came,   *)
(* between two calls every cell of it shows what was written to it, but    *)
(* for the one the cursor covers, and those cells of which the cursor lost *)
(* what it had kept: written beneath it, left by cursor_init, or changed   *)
(* while a packet interrupted a call.                                      *)
CursorIsTransparent ==
    todo = << >> =>
      \A c \in Text \ spoilt :
         cell[c] = IF cursor.visible /\ c = Spot(Now)
                   THEN Face([cursor EXCEPT !.last = text[c]]) ELSE text[c]

Character == [ch : Shapes \union {"none", "even", "odd", "new"}, attr : {Normal, "swapped", Own}]
TypeOK ==
    /\ mouse \in [handler : BOOLEAN, buffer : {s \in Seq(Bytes) : Len(s) < 3},
                  x : UNION {0 .. w * Unit - 1 : w \in Widths}, width : Widths,
                  y : UNION {0 .. h * UnitY - 1 : h \in Heights}, height : Heights,
                  speed : {MOUSE_NORMAL_SPEED, 2 * MOUSE_NORMAL_SPEED}]
    /\ cursor \in [at : Cells, type : Shapes, visible : BOOLEAN, last : Character]
    /\ cell \in [Cells -> Character]

(* Between two calls the pointer is on the screen of the size last set,    *)
(* also when a packet came in the middle of a change of that size, and the *)
(* cursor is in that screen's memory or in the text's: back in the text,   *)
(* then, once a size that is no larger has replaced a larger one.  While a *)
(* size changes the cursor may be where neither screen is, but only in     *)
(* columns and rows of sizes that were asked for.                          *)
PointerIsOnScreen ==
    /\ TypeOK
    /\ todo = << >> =>
         /\ mouse.x < mouse.width * Unit /\ mouse.y < mouse.height * UnitY
         /\ cursor.at \in Text \union Screen(mouse.width, mouse.height)
=============================================================================
