--------------------------- MODULE PointerProofs ---------------------------
(***************************************************************************)
(* Proofs about Pointer, for every size of screen, larger than the text's  *)
(* or not, every mouse and any number of packets and calls: the pointer    *)
(* stays on the screen, and the cursor is a sheet over the text.           *)
(*                                                                         *)
(* The argument for the first: while a call sets the size, the position    *)
(* and the cursor may be off the new screen, and a packet that comes then  *)
(* puts them on the screen that is set so far.  Stage says, for each rest  *)
(* of a call, which of the new values are in place, which coordinate is    *)
(* within them, and whether the cursor is.  For the second see the section *)
(* on the text under the cursor.                                           *)
(***************************************************************************)
EXTENDS Pointer, SequenceTheorems, TLAPS

OnX == mouse.x < mouse.width * Unit
OnY == mouse.y < mouse.height * UnitY
OnScreen == cursor.at \in Text \union Screen(mouse.width, mouse.height)

(* What is left of a call, by how far it is. *)
Before(step, t) == <<step>> \o t
Rests     == {<<"reset", "init", "save", "show">>, <<"move">>}
AtY       == {Before("y", t) : t \in Rests}
AtX       == {Before("x", t) : t \in AtY}
AtHeight  == {Before("height", t) : t \in AtX}
AtWidth   == {Before("width", t) : t \in AtHeight}
AtHandler == {Before("handler", t) : t \in AtWidth}
Resized   == Rests \union {<<"init", "save", "show">>}
Moving    == {<<"restore", "save_to", "draw_to", "place">>, <<"save_to", "draw_to", "place">>,
              <<"draw_to", "place">>, <<"place">>}
Showing   == {<<"save", "show">>, <<"show">>, <<"save", "draw", "visible">>, <<"draw", "visible">>, <<"visible">>,
              <<"hide">>, <<"restore", "invisible">>, <<"invisible">>,
              <<"draw">>, <<"colors">>, << >>}

Sizing == args \in Widths \X Heights
Stage ==
    \/ todo \in AtHandler \union AtWidth /\ Sizing /\ OnX /\ OnY /\ OnScreen
    \/ todo \in AtHeight /\ Sizing /\ mouse.width = args[1] /\ OnY
    \/ todo \in AtX /\ Sizing /\ mouse.width = args[1] /\ mouse.height = args[2]
    \/ todo \in AtY /\ Sizing /\ mouse.height = args[2] /\ OnX
    \/ todo \in Moving /\ args \in Screen(mouse.width, mouse.height) /\ OnX /\ OnY
    \/ todo = <<"type">> /\ args \in Shapes /\ OnX /\ OnY /\ OnScreen
    \/ todo \in Resized /\ OnX /\ OnY
    \/ todo \in Showing /\ OnX /\ OnY /\ OnScreen

(* The inductive invariant. *)
IInv == TypeOK /\ Stage

-----------------------------------------------------------------------------
(* The driver's variables as the operators of Pointer pass them on. *)
XPositions == UNION {0 .. w * Unit - 1 : w \in Widths}
YPositions == UNION {0 .. h * UnitY - 1 : h \in Heights}
Mouse == [handler : BOOLEAN, buffer : {s \in Seq(Bytes) : Len(s) < 3},
          x : XPositions, width : Widths, y : YPositions, height : Heights,
          speed : {MOUSE_NORMAL_SPEED, 2 * MOUSE_NORMAL_SPEED}]
Cursor == [at : Cells, type : Shapes, visible : BOOLEAN, last : Character]
State == [mouse : Mouse, cursor : Cursor, cell : [Cells -> Character]]

(* A position in the fractions of a screen, of a size up to max. *)
LEMMA CellOfPosition ==
  ASSUME NEW unit \in Nat \ {0}, NEW size \in Nat \ {0}, NEW v \in Nat, v < size * unit
  PROVE  v \div unit \in 0 .. size - 1
  OBVIOUS

LEMMA Half ==
  ASSUME NEW unit \in Nat \ {0}, NEW size \in Nat \ {0}
  PROVE  /\ size \div 2 \in 0 .. size - 1
         /\ (size \div 2) * unit \in 0 .. size * unit - 1
  OBVIOUS

LEMMA ClampedIsInside ==
  ASSUME NEW unit \in Nat \ {0}, NEW size \in Nat \ {0}, NEW v \in Int
  PROVE  Clamped(v, size, unit) \in 0 .. size * unit - 1
<1>1. size * unit \in Int /\ (size - 1) * unit = size * unit - unit /\ (size - 1) * unit >= 0
  OBVIOUS
<1>2. QED
  BY <1>1 DEF Clamped

LEMMA Units ==
  /\ Unit \in Nat \ {0} /\ UnitY \in Nat \ {0}
  /\ MOUSE_NORMAL_SPEED \in Nat \ {0}
  /\ DEFAULT_SCREEN_WIDTH \in Nat \ {0} /\ DEFAULT_SCREEN_HEIGHT \in Nat \ {0}
  /\ Bytes \subseteq [bit3 : BOOLEAN, delta : Int]
  BY PointerAssumption DEF Unit, UnitY, PointerAssumption

(* Whatever a caller asks for, a screen has a column and a row.            *)
LEMMA AskedIsASize ==
  ASSUME NEW size \in Sizes
  PROVE  /\ Asked(size) \in Widths \X Heights
         /\ Asked(size)[1] \in Nat \ {0} /\ Asked(size)[2] \in Nat \ {0}
<1>1. size \in Int \X Int /\ MIN_SCREEN_SIZE \in Nat \ {0}
  BY PointerAssumption DEF PointerAssumption
<1>2. Asked(size) \in Int \X Int /\ Asked(size)[1] \in Nat \ {0} /\ Asked(size)[2] \in Nat \ {0}
  BY <1>1, Units DEF Asked
<1>3. Asked(size)[1] \in Widths /\ Asked(size)[2] \in Heights
  BY DEF Widths, Heights
<1> DEFINE a == Asked(size)
<1> HIDE DEF a
<1>4. a \in Int \X Int /\ a[1] \in Widths /\ a[2] \in Heights => a \in Widths \X Heights
  OBVIOUS
<1>5. QED
  BY <1>2, <1>3, <1>4 DEF a

LEMMA SizesArePositive ==
  /\ Widths \subseteq Nat \ {0} /\ Heights \subseteq Nat \ {0}
  /\ DEFAULT_SCREEN_WIDTH \in Widths /\ DEFAULT_SCREEN_HEIGHT \in Heights
  BY AskedIsASize, Units DEF Widths, Heights

(* A screen's memory is among the cells, the text's too. *)
LEMMA ScreenIsCells ==
  /\ \A w \in Widths, h \in Heights : Screen(w, h) \subseteq Cells
  /\ Text \subseteq Cells
<1>1. \A w \in Widths, h \in Heights : Screen(w, h) \subseteq Cells
  BY DEF Cells
<1>2. QED
  BY <1>1, SizesArePositive DEF Text

LEMMA IsOnScreen ==
  ASSUME NEW w, NEW h, NEW x \in 0 .. w - 1, NEW y \in 0 .. h - 1
  PROVE  Address(x, y) \in Screen(w, h)
  BY DEF Screen

-----------------------------------------------------------------------------
(* The operators on the driver's variables keep their types. *)

LEMMA SpotIsACell ==
  ASSUME NEW s \in State
  PROVE  Spot(s) \in Cells
  BY DEF State, Cursor, Spot

LEMMA RestoreType ==
  ASSUME NEW s \in State
  PROVE  Restore(s) \in State /\ Restore(s).mouse = s.mouse /\ Restore(s).cursor = s.cursor
  BY DEF State, Cursor, Restore

LEMMA SaveType ==
  ASSUME NEW s \in State, NEW at \in Cells
  PROVE  Save(s, at) \in State /\ Save(s, at).mouse = s.mouse /\ Save(s, at).cursor.at = s.cursor.at
  BY DEF State, Cursor, Save

LEMMA FaceType ==
  ASSUME NEW c \in Cursor
  PROVE  Face(c) \in Character
  BY DEF Cursor, Face, Character, swap_colors, Shapes, Normal, Own, CURSOR_DEFAULT

LEMMA DrawType ==
  ASSUME NEW s \in State, NEW at \in Cells
  PROVE  Draw(s, at) \in State /\ Draw(s, at).mouse = s.mouse /\ Draw(s, at).cursor = s.cursor
<1>1. Face(s.cursor) \in Character
  BY FaceType DEF State
<1>2. QED
  BY <1>1 DEF State, Draw

LEMMA PlaceType ==
  ASSUME NEW s \in State, NEW at \in Cells
  PROVE  Place(s, at) \in State /\ Place(s, at).mouse = s.mouse /\ Place(s, at).cursor.at = at
  BY DEF State, Cursor, Place

LEMMA MoveType ==
  ASSUME NEW s \in State, NEW at \in Cells
  PROVE  /\ cursor_move(s, at) \in State /\ cursor_move(s, at).mouse = s.mouse
         /\ cursor_move(s, at).cursor.at = at
<1> DEFINE r == Restore(s)
           v == Save(r, at)
           d == Draw(v, at)
<1>1. r \in State /\ r.mouse = s.mouse
  BY RestoreType
<1>2. v \in State /\ v.mouse = s.mouse
  BY <1>1, SaveType
<1>3. d \in State /\ d.mouse = s.mouse
  BY <1>2, DrawType
<1>4. cursor_move(s, at) = Place(d, at) \/ cursor_move(s, at) = Place(s, at)
  BY DEF cursor_move
<1>5. QED
  BY <1>3, <1>4, PlaceType

LEMMA InitType ==
  ASSUME NEW s \in State
  PROVE  /\ cursor_init(s) \in State /\ cursor_init(s).mouse = s.mouse
         /\ cursor_init(s).cursor.at \in Text
<1> DEFINE at == Middle(DEFAULT_SCREEN_WIDTH, DEFAULT_SCREEN_HEIGHT)
           p  == Place(s, at)
<1>1. at \in Text
  BY Half, Units, IsOnScreen DEF Middle, Text
<1>2. p \in State /\ p.mouse = s.mouse /\ p.cursor.at = at
  BY <1>1, ScreenIsCells, PlaceType
<1>3. cursor_init(s) = [p EXCEPT !.cursor.type = CURSOR_DEFAULT, !.cursor.visible = FALSE]
  BY DEF cursor_init
<1> HIDE DEF p
<1> DEFINE c == [p.cursor EXCEPT !.type = CURSOR_DEFAULT, !.visible = FALSE]
<1>4. p.cursor \in Cursor
  BY <1>2 DEF State
<1>5. c \in Cursor /\ c.at = p.cursor.at
  BY <1>4 DEF Cursor, Shapes
<1>6. cursor_init(s) = [p EXCEPT !.cursor = c]
  BY <1>2, <1>3, <1>4 DEF State, Cursor
<1> HIDE DEF c, at
<1>7. QED
  BY <1>1, <1>2, <1>5, <1>6 DEF State

-----------------------------------------------------------------------------
(* A packet. *)

SameSize(m, n) == m.width = n.width /\ m.height = n.height /\ m.handler = n.handler
Inside(m) == m.x < m.width * Unit /\ m.y < m.height * UnitY

LEMMA PositionsAreNumbers == XPositions \subseteq Nat /\ YPositions \subseteq Nat
  BY DEF XPositions, YPositions

LEMMA MovedType ==
  ASSUME NEW m \in Mouse, NEW dx \in Int, NEW dy \in Int
  PROVE  Moved(m, dx, dy) \in Mouse /\ SameSize(Moved(m, dx, dy), m) /\ Inside(Moved(m, dx, dy))
<1> DEFINE vx == m.x + dx * m.speed * m.width
           vy == m.y + Negated(dy) * m.speed * m.height
           x  == Clamped(vx, m.width, Unit)
           y  == Clamped(vy, m.height, UnitY)
<1>1. m.width \in Nat \ {0} /\ m.height \in Nat \ {0} /\ m.speed \in Int /\ m.x \in Int /\ m.y \in Int
  <2>1. m.width \in Nat \ {0} /\ m.height \in Nat \ {0}
    BY SizesArePositive DEF Mouse
  <2>2. m.speed \in Int
    BY Units DEF Mouse
  <2>3. m.x \in Int /\ m.y \in Int
    <3>1. m.x \in XPositions /\ m.y \in YPositions
      BY DEF Mouse
    <3>2. XPositions \subseteq Nat /\ YPositions \subseteq Nat
      BY PositionsAreNumbers
    <3>3. m.x \in Nat /\ m.y \in Nat
      BY <3>1, <3>2
    <3>4. QED
      BY <3>3
  <2>4. QED
    BY <2>1, <2>2, <2>3
<1>2. Negated(dy) \in Int
  BY DEF Negated
<1>3. vx \in Int /\ vy \in Int
  BY <1>1, <1>2
<1>4. x \in 0 .. m.width * Unit - 1 /\ y \in 0 .. m.height * UnitY - 1
  <2> HIDE DEF vx, vy
  <2>1. QED
    BY <1>1, <1>3, ClampedIsInside, Units
<1>5. m.width \in Widths /\ m.height \in Heights
  BY DEF Mouse
<1>6. m.width * Unit \in Int /\ m.height * UnitY \in Int
  BY <1>1, Units
<1>7. x \in XPositions /\ y \in YPositions
  <2> HIDE DEF x, y
  <2>1. QED
    BY <1>4, <1>5 DEF XPositions, YPositions
<1>8. Moved(m, dx, dy) = [m EXCEPT !.x = x, !.y = y]
  BY DEF Moved
<1>9. QED
  <2> DEFINE n == [m EXCEPT !.x = x, !.y = y]
  <2> HIDE DEF x, y
  <2>1. n \in Mouse
    BY <1>7 DEF Mouse
  <2>2. n.x = x /\ n.y = y /\ n.width = m.width /\ n.height = m.height /\ n.handler = m.handler
    BY DEF Mouse
  <2>3. Inside(n)
    <3> HIDE DEF n
    <3>1. QED
      BY <1>4, <1>6, <2>2 DEF Inside
  <2>4. QED
    <3> HIDE DEF n
    <3>1. QED
      BY <1>8, <2>1, <2>2, <2>3 DEF SameSize, n

LEMMA AtIsACell ==
  ASSUME NEW m \in Mouse, Inside(m)
  PROVE  At(m) \in Screen(m.width, m.height) /\ At(m) \in Cells
<1>1. m.x \in Nat /\ m.y \in Nat
  BY PositionsAreNumbers DEF Mouse
<1>2. m.width \in Widths /\ m.height \in Heights
  BY DEF Mouse
<1>3. m.width \in Nat \ {0} /\ m.height \in Nat \ {0}
  BY <1>2, SizesArePositive
<1>4. m.x < m.width * Unit /\ m.y < m.height * UnitY
  BY DEF Inside
<1>5. m.x \div Unit \in 0 .. m.width - 1
  BY <1>1, <1>3, <1>4, CellOfPosition, Units
<1>6. m.y \div UnitY \in 0 .. m.height - 1
  BY <1>1, <1>3, <1>4, CellOfPosition, Units
<1>7. At(m) \in Screen(m.width, m.height)
  BY <1>5, <1>6, IsOnScreen DEF At
<1>8. QED
  BY <1>2, <1>7, ScreenIsCells

(* Whatever the byte, the size stays, and a position that changes becomes  *)
(* one on the screen.                                                      *)
LEMMA PacketType ==
  ASSUME NEW s \in State, NEW b \in Bytes
  PROVE  LET m == mouse_handle_data(s, b).mouse
         IN  /\ mouse_handle_data(s, b) \in State
             /\ SameSize(m, s.mouse)
             /\ \/ Inside(m) /\ mouse_handle_data(s, b).cursor.at \in Screen(m.width, m.height)
                \/ /\ m.x = s.mouse.x /\ m.y = s.mouse.y
                   /\ mouse_handle_data(s, b).cursor = s.cursor
<1> DEFINE got == Append(s.mouse.buffer, b)
           now == mouse_handle_data(s, b)
<1>1. got \in Seq(Bytes) /\ Len(got) \in 1 .. 3
  BY DEF State, Mouse
<1>2. CASE Len(got) < 3
  <2>1. now = [s EXCEPT !.mouse.buffer = got]
    BY <1>2 DEF mouse_handle_data
  <2>2. QED
    BY <1>1, <1>2, <2>1 DEF State, Mouse, SameSize
<1>3. CASE Len(got) = 3 /\ ~got[1].bit3
  <2>1. now = [s EXCEPT !.mouse.buffer = << >>]
    BY <1>3 DEF mouse_handle_data
  <2>2. << >> \in Seq(Bytes) /\ Len(<< >>) < 3
    OBVIOUS
  <2>3. QED
    BY <2>1, <2>2 DEF State, Mouse, SameSize
<1>4. CASE Len(got) = 3 /\ got[1].bit3
  <2> DEFINE v  == Moved(s.mouse, got[2].delta, got[3].delta)
             m  == [v EXCEPT !.buffer = << >>]
             s2 == [s EXCEPT !.mouse = m]
  <2>1. got[2] \in Bytes /\ got[3] \in Bytes
    BY <1>1, <1>4
  <2>2. got[2].delta \in Int /\ got[3].delta \in Int
    BY <2>1, Units
  <2>3. s.mouse \in Mouse
    BY DEF State
  <2>4. v \in Mouse /\ SameSize(v, s.mouse) /\ Inside(v)
    BY <2>2, <2>3, MovedType
  <2>5. m \in Mouse /\ SameSize(m, s.mouse) /\ Inside(m)
    <3>1. << >> \in Seq(Bytes) /\ Len(<< >>) < 3
      OBVIOUS
    <3>2. QED
      <4> HIDE DEF v
      <4>1. QED
        BY <2>4, <3>1 DEF Mouse, SameSize, Inside
  <2>6. s2 \in State /\ s2.mouse = m
    <3> HIDE DEF m
    <3>1. QED
      BY <2>5 DEF State
  <2>7. now = cursor_move(s2, At(m))
    BY <1>4 DEF mouse_handle_data
  <2> HIDE DEF m, s2, now
  <2>8. now \in State /\ now.mouse = m /\ now.cursor.at = At(m)
    BY <2>5, <2>6, <2>7, AtIsACell, MoveType
  <2>9. /\ now.mouse.x = m.x /\ now.mouse.y = m.y /\ SameSize(now.mouse, s.mouse) /\ Inside(now.mouse)
        /\ now.cursor.at \in Screen(now.mouse.width, now.mouse.height)
    BY <2>5, <2>8, AtIsACell
  <2>10. QED
    BY <2>8, <2>9 DEF now
<1>5. QED
  BY <1>1, <1>2, <1>3, <1>4

-----------------------------------------------------------------------------
(* Sequences: what a step put in front of others leaves, and a literal     *)
(* sequence taken apart.                                                   *)

LEMMA BeforeProperties ==
  ASSUME NEW S, NEW x \in S, NEW s \in Seq(S)
  PROVE  /\ Before(x, s) \in Seq(S) /\ Before(x, s) # << >>
         /\ Len(Before(x, s)) = 1 + Len(s) /\ Before(x, s)[1] = x
         /\ \A i \in 1 .. Len(s) : Before(x, s)[i + 1] = s[i]
         /\ Head(Before(x, s)) = x /\ << >> \o Tail(Before(x, s)) = s
<1> DEFINE b == Before(x, s)
<1>1. <<x>> \in Seq(S)
  OBVIOUS
<1>2. b \in Seq(S)
  BY <1>1 DEF Before
<1>3. Len(b) = 1 + Len(s)
  BY <1>1 DEF Before
<1>4. b[1] = x
  BY <1>1 DEF Before
<1>5. \A i \in 1 .. Len(s) : b[i + 1] = s[i]
  BY <1>1 DEF Before
<1> HIDE DEF b
<1>6. b # << >>
  BY <1>2, <1>3
<1>7. Tail(b) \in Seq(S) /\ Len(Tail(b)) = Len(s)
  BY <1>2, <1>3, <1>6
<1>8. \A i \in 1 .. Len(s) : Tail(b)[i] = s[i]
  BY <1>2, <1>3, <1>5, <1>6
<1>9. Tail(b) = s
  BY <1>7, <1>8, SeqEqual
<1>10. Head(b) = x
  BY <1>2, <1>3, <1>4
<1>11. << >> \o s = s
  BY ConcatEmptySeq
<1>12. QED
  BY <1>2, <1>3, <1>4, <1>5, <1>6, <1>9, <1>10, <1>11 DEF b

LEMMA Pair ==
  ASSUME NEW S, NEW x \in S, NEW y \in S
  PROVE  <<x>> \o <<y>> = <<x, y>>
<1>1. <<x>> \in Seq(S) /\ <<y>> \in Seq(S)
  OBVIOUS
<1>2. <<x, y>> \in Seq(S) /\ Len(<<x, y>>) = 2
  OBVIOUS
<1>3. \A i \in 1 .. 2 : (<<x>> \o <<y>>)[i] = <<x, y>>[i]
  BY <1>1
<1>4. Len(<<x>> \o <<y>>) = 2 /\ <<x>> \o <<y>> \in Seq(S)
  BY <1>1
<1>5. QED
  BY <1>2, <1>3, <1>4, SeqEqual

LEMMA Triple ==
  ASSUME NEW S, NEW x \in S, NEW y \in S, NEW z \in S
  PROVE  <<x>> \o <<y, z>> = <<x, y, z>>
<1>1. <<x>> \in Seq(S) /\ <<y, z>> \in Seq(S)
  OBVIOUS
<1>2. <<x, y, z>> \in Seq(S) /\ Len(<<x, y, z>>) = 3
  OBVIOUS
<1>3. \A i \in 1 .. 3 : (<<x>> \o <<y, z>>)[i] = <<x, y, z>>[i]
  BY <1>1
<1>4. Len(<<x>> \o <<y, z>>) = 3 /\ <<x>> \o <<y, z>> \in Seq(S)
  BY <1>1
<1>5. QED
  BY <1>2, <1>3, <1>4, SeqEqual

LEMMA Quadruple ==
  ASSUME NEW S, NEW w \in S, NEW x \in S, NEW y \in S, NEW z \in S
  PROVE  <<w>> \o <<x, y, z>> = <<w, x, y, z>>
<1>1. <<w>> \in Seq(S) /\ <<x, y, z>> \in Seq(S)
  OBVIOUS
<1>2. <<w, x, y, z>> \in Seq(S) /\ Len(<<w, x, y, z>>) = 4
  OBVIOUS
<1>3. \A i \in 1 .. 4 : (<<w>> \o <<x, y, z>>)[i] = <<w, x, y, z>>[i]
  BY <1>1
<1>4. Len(<<w>> \o <<x, y, z>>) = 4 /\ <<w>> \o <<x, y, z>> \in Seq(S)
  BY <1>1
<1>5. QED
  BY <1>2, <1>3, <1>4, SeqEqual

LEMMA QuadrupleFromEnd ==
  ASSUME NEW S, NEW w \in S, NEW x \in S, NEW y \in S, NEW z \in S
  PROVE  <<w, x, y>> \o <<z>> = <<w, x, y, z>>
<1>1. <<z>> \in Seq(S) /\ <<w, x, y>> \in Seq(S)
  OBVIOUS
<1>2. <<w, x, y, z>> \in Seq(S) /\ Len(<<w, x, y, z>>) = 4
  OBVIOUS
<1>3. \A i \in 1 .. 4 : (<<w, x, y>> \o <<z>>)[i] = <<w, x, y, z>>[i]
  BY <1>1
<1>4. Len(<<w, x, y>> \o <<z>>) = 4 /\ <<w, x, y>> \o <<z>> \in Seq(S)
  BY <1>1
<1>5. QED
  BY <1>2, <1>3, <1>4, SeqEqual

-----------------------------------------------------------------------------
(* What is left of a call after its next step. *)

StepNames == {"handler", "width", "height", "x", "y", "reset", "init", "save", "show", "move"}

LEMMA StepNamed ==
  /\ "handler" \in StepNames /\ "width" \in StepNames /\ "height" \in StepNames
  /\ "x" \in StepNames /\ "y" \in StepNames /\ "reset" \in StepNames /\ "init" \in StepNames
  /\ "save" \in StepNames /\ "show" \in StepNames
  BY DEF StepNames

LEMMA InFront ==
  ASSUME NEW x \in StepNames, NEW T \in SUBSET Seq(StepNames), NEW t \in {Before(x, u) : u \in T}
  PROVE  t \in Seq(StepNames) /\ t # << >> /\ Head(t) = x /\ << >> \o Tail(t) \in T
<1>1. PICK u \in T : t = Before(x, u)
  OBVIOUS
<1>2. u \in Seq(StepNames)
  OBVIOUS
<1> DEFINE b == Before(x, u)
<1>3. b \in Seq(StepNames) /\ b # << >>
  BY <1>2, BeforeProperties
<1>4. Head(b) = x
  BY <1>2, BeforeProperties
<1>5. << >> \o Tail(b) = u
  BY <1>2, BeforeProperties
<1>6. QED
  <2> HIDE DEF b
  <2>1. t = b
    BY <1>1 DEF b
  <2>2. QED
    BY <1>3, <1>4, <1>5, <2>1

LEMMA SizingSequences ==
  /\ Rests \subseteq Seq(StepNames) /\ AtY \subseteq Seq(StepNames) /\ AtX \subseteq Seq(StepNames)
  /\ AtHeight \subseteq Seq(StepNames) /\ AtWidth \subseteq Seq(StepNames)
<1>1. Rests \subseteq Seq(StepNames)
  BY DEF Rests, StepNames
<1>2. AtY \subseteq Seq(StepNames)
  BY <1>1, InFront, StepNamed DEF AtY
<1>3. AtX \subseteq Seq(StepNames)
  BY <1>2, InFront, StepNamed DEF AtX
<1>4. AtHeight \subseteq Seq(StepNames)
  BY <1>3, InFront, StepNamed DEF AtHeight
<1>5. AtWidth \subseteq Seq(StepNames)
  BY <1>4, InFront, StepNamed DEF AtWidth
<1>6. QED
  BY <1>1, <1>2, <1>3, <1>4, <1>5

LEMMA SizingTail ==
  ASSUME NEW t
  PROVE  /\ t \in AtHandler => t # << >> /\ Head(t) = "handler" /\ << >> \o Tail(t) \in AtWidth
         /\ t \in AtWidth => t # << >> /\ Head(t) = "width" /\ << >> \o Tail(t) \in AtHeight
         /\ t \in AtHeight => t # << >> /\ Head(t) = "height" /\ << >> \o Tail(t) \in AtX
         /\ t \in AtX => t # << >> /\ Head(t) = "x" /\ << >> \o Tail(t) \in AtY
         /\ t \in AtY => t # << >> /\ Head(t) = "y" /\ << >> \o Tail(t) \in Resized
<1>1. t \in AtHandler => t # << >> /\ Head(t) = "handler" /\ << >> \o Tail(t) \in AtWidth
  BY SizingSequences, InFront, StepNamed DEF AtHandler
<1>2. t \in AtWidth => t # << >> /\ Head(t) = "width" /\ << >> \o Tail(t) \in AtHeight
  BY SizingSequences, InFront, StepNamed DEF AtWidth
<1>3. t \in AtHeight => t # << >> /\ Head(t) = "height" /\ << >> \o Tail(t) \in AtX
  BY SizingSequences, InFront, StepNamed DEF AtHeight
<1>4. t \in AtX => t # << >> /\ Head(t) = "x" /\ << >> \o Tail(t) \in AtY
  BY SizingSequences, InFront, StepNamed DEF AtX
<1>5. t \in AtY => t # << >> /\ Head(t) = "y" /\ << >> \o Tail(t) \in Resized
  BY SizingSequences, InFront, StepNamed DEF AtY, Resized
<1>6. QED
  BY <1>1, <1>2, <1>3, <1>4, <1>5

(* The steps of cursor_move, the target of which is fixed. *)
LEMMA MovingTail ==
  ASSUME NEW t \in Moving
  PROVE  /\ t # << >>
         /\ \/ Head(t) \in {"restore", "save_to", "draw_to"} /\ << >> \o Tail(t) \in Moving
            \/ Head(t) = "place" /\ << >> \o Tail(t) \in Showing
<1>1. CASE t = <<"restore", "save_to", "draw_to", "place">>
  <2>1. Head(t) = "restore" /\ << >> \o Tail(t) = <<"save_to", "draw_to", "place">>
    BY <1>1
  <2>2. QED
    BY <1>1, <2>1 DEF Moving
<1>2. CASE t = <<"save_to", "draw_to", "place">>
  <2>1. Head(t) = "save_to" /\ << >> \o Tail(t) = <<"draw_to", "place">>
    BY <1>2
  <2>2. QED
    BY <1>2, <2>1 DEF Moving
<1>3. CASE t = <<"draw_to", "place">>
  <2>1. Head(t) = "draw_to" /\ << >> \o Tail(t) = <<"place">>
    BY <1>3
  <2>2. QED
    BY <1>3, <2>1 DEF Moving
<1>4. CASE t = <<"place">>
  <2>1. Head(t) = "place" /\ << >> \o Tail(t) = << >>
    BY <1>4
  <2>2. QED
    BY <1>4, <2>1 DEF Showing
<1>5. QED
  BY <1>1, <1>2, <1>3, <1>4 DEF Moving

LEMMA Single ==
  ASSUME NEW x
  PROVE  Head(<<x>>) = x /\ Tail(<<x>>) = << >> /\ << >> \o Tail(<<x>>) = << >>
<1>1. Head(<<x>>) = x
  OBVIOUS
<1>2. Tail(<<x>>) = << >>
  OBVIOUS
<1>3. << >> \o << >> = << >>
  OBVIOUS
<1>4. QED
  BY <1>1, <1>2, <1>3

(* After the size is set; move decides by the cursor what is left. *)
LEMMA ResizedTail ==
  ASSUME NEW t \in Resized
  PROVE  /\ t # << >>
         /\ \/ Head(t) = "move" /\ Tail(t) = << >>
            \/ Head(t) = "reset" /\ << >> \o Tail(t) \in Resized
            \/ Head(t) = "init" /\ << >> \o Tail(t) \in Showing
<1>1. CASE t = <<"reset", "init", "save", "show">>
  <2>1. Head(t) = "reset" /\ << >> \o Tail(t) = <<"init", "save", "show">>
    BY <1>1
  <2>2. QED
    BY <1>1, <2>1 DEF Resized
<1>2. CASE t = <<"move">>
  BY <1>2, Single
<1>3. CASE t = <<"init", "save", "show">>
  <2>1. Head(t) = "init" /\ << >> \o Tail(t) = <<"save", "show">>
    BY <1>3
  <2>2. QED
    BY <1>3, <2>1 DEF Showing
<1>4. QED
  BY <1>1, <1>2, <1>3 DEF Resized, Rests

(* All others: three more of the steps decide. *)
Deciding == {"show", "hide", "colors"}
LEMMA ShowingTail ==
  ASSUME NEW t \in Showing, t # << >>
  PROVE  \/ Head(t) \in Deciding /\ Tail(t) = << >>
         \/ /\ Head(t) \in {"save", "draw", "visible", "restore", "invisible"}
            /\ << >> \o Tail(t) \in Showing
<1>1. CASE t = <<"save", "show">>
  <2>1. Head(t) = "save" /\ << >> \o Tail(t) = <<"show">>
    BY <1>1
  <2>2. QED
    BY <2>1 DEF Showing
<1>2. CASE t \in {<<"show">>, <<"hide">>, <<"colors">>}
  <2>1. CASE t = <<"show">>
    BY <2>1, Single DEF Deciding
  <2>2. CASE t = <<"hide">>
    BY <2>2, Single DEF Deciding
  <2>3. CASE t = <<"colors">>
    BY <2>3, Single DEF Deciding
  <2>4. QED
    BY <1>2, <2>1, <2>2, <2>3
<1>3. CASE t = <<"save", "draw", "visible">>
  <2>1. Head(t) = "save" /\ << >> \o Tail(t) = <<"draw", "visible">>
    BY <1>3
  <2>2. QED
    BY <2>1 DEF Showing
<1>4. CASE t = <<"draw", "visible">>
  <2>1. Head(t) = "draw" /\ << >> \o Tail(t) = <<"visible">>
    BY <1>4
  <2>2. QED
    BY <2>1 DEF Showing
<1>5. CASE t = <<"restore", "invisible">>
  <2>1. Head(t) = "restore" /\ << >> \o Tail(t) = <<"invisible">>
    BY <1>5
  <2>2. QED
    BY <2>1 DEF Showing
<1>6. CASE t \in {<<"visible">>, <<"invisible">>, <<"draw">>}
  <2>1. CASE t = <<"visible">>
    BY <2>1, Single DEF Showing
  <2>2. CASE t = <<"invisible">>
    BY <2>2, Single DEF Showing
  <2>3. CASE t = <<"draw">>
    BY <2>3, Single DEF Showing
  <2>4. QED
    BY <1>6, <2>1, <2>2, <2>3
<1>7. QED
  BY <1>1, <1>2, <1>3, <1>4, <1>5, <1>6 DEF Showing

LEMMA DecidedSteps ==
  /\ << >> \o << >> \in Showing
  /\ <<"save", "draw", "visible">> \o << >> \in Showing
  /\ <<"restore", "invisible">> \o << >> \in Showing
  /\ <<"draw">> \o << >> \in Showing
  /\ <<"restore", "save_to", "draw_to", "place">> \o << >> \in Moving
  /\ <<"place">> \o << >> \in Moving
<1>1. << >> \o << >> = << >>
  OBVIOUS
<1>2. <<"save", "draw", "visible">> \o << >> = <<"save", "draw", "visible">>
  OBVIOUS
<1>3. <<"restore", "invisible">> \o << >> = <<"restore", "invisible">>
  OBVIOUS
<1>4. <<"draw">> \o << >> = <<"draw">>
  OBVIOUS
<1>5. <<"restore", "save_to", "draw_to", "place">> \o << >> = <<"restore", "save_to", "draw_to", "place">>
  OBVIOUS
<1>6. <<"place">> \o << >> = <<"place">>
  OBVIOUS
<1>7. QED
  BY <1>1, <1>2, <1>3, <1>4, <1>5, <1>6 DEF Showing, Moving

LEMMA Joined ==
  ASSUME NEW S, NEW a \in Seq(S), NEW b \in Seq(S)
  PROVE  a \o b \in Seq(S)
  BY ConcatProperties

LEMMA Regroup ==
  ASSUME NEW a \in Seq(StepNames), NEW b \in Seq(StepNames), NEW c \in Seq(StepNames)
  PROVE  (a \o b) \o c = a \o (b \o c)
  BY ConcatAssociative

(* The calls that set the size begin where they should. *)
LEMMA SizeStepsInFront ==
  ASSUME NEW t \in Rests
  PROVE  SizeSteps \o t \in AtWidth
<1> DEFINE w == Before("width", Before("height", Before("x", Before("y", t))))
<1>1. w \in AtWidth
  BY DEF AtWidth, AtHeight, AtX, AtY
<1>2. t \in Seq(StepNames)
  BY SizingSequences
<1>3. SizeSteps = <<"width">> \o (<<"height">> \o (<<"x">> \o <<"y">>))
  BY StepNamed, Pair, Triple, Quadruple DEF SizeSteps
<1> DEFINE y == <<"y">>
           x == <<"x">>
           h == <<"height">>
           v == <<"width">>
<1>4. y \in Seq(StepNames) /\ x \in Seq(StepNames) /\ h \in Seq(StepNames) /\ v \in Seq(StepNames)
  BY StepNamed
<1>5. (v \o (h \o (x \o y))) \o t = v \o (h \o (x \o (y \o t)))
  <2> HIDE DEF v, h, x, y
  <2> DEFINE xy  == x \o y
             hxy == h \o xy
  <2>1. xy \in Seq(StepNames)
    BY <1>4, Joined
  <2>2. xy \o t = x \o (y \o t)
    BY <1>2, <1>4, Regroup, SMTT(40)
  <2> HIDE DEF xy
  <2>3. hxy \in Seq(StepNames)
    BY <1>4, <2>1, Joined
  <2>4. hxy \o t = h \o (xy \o t)
    BY <1>2, <1>4, <2>1, Regroup, SMTT(40)
  <2> HIDE DEF hxy
  <2>5. (v \o hxy) \o t = v \o (hxy \o t)
    BY <1>2, <1>4, <2>3, Regroup, SMTT(40)
  <2>6. QED
    BY <2>2, <2>4, <2>5 DEF hxy, xy
<1>6. SizeSteps \o t = w
  BY <1>3, <1>5 DEF Before
<1>7. QED
  BY <1>1, <1>6

(* mouse_init's and mouse_set_screen_size's lists of steps. *)
LEMMA CallsBegin ==
  /\ <<"handler">> \o SizeSteps \o <<"reset", "init", "save">> \o ShowSteps \in AtHandler
  /\ SizeSteps \o <<"move">> \in AtWidth
<1> DEFINE h == <<"handler">>
           r == <<"reset", "init", "save">>
           t == <<"reset", "init", "save", "show">>
<1>1. SizeSteps \o <<"move">> \in AtWidth
  BY SizeStepsInFront DEF Rests
<1>2. SizeSteps \o t \in AtWidth
  BY SizeStepsInFront DEF Rests
<1>3. h \in Seq(StepNames) /\ SizeSteps \in Seq(StepNames)
  BY StepNamed DEF SizeSteps
<1>4. r \in Seq(StepNames) /\ ShowSteps \in Seq(StepNames)
  BY DEF StepNames, ShowSteps
<1>5. r \o ShowSteps = t
  BY StepNamed, QuadrupleFromEnd DEF ShowSteps
<1>6. ((h \o SizeSteps) \o r) \o ShowSteps = h \o (SizeSteps \o t)
  <2> HIDE DEF h, r, t
  <2> DEFINE hs == h \o SizeSteps
  <2>1. hs \in Seq(StepNames)
    BY <1>3
  <2>2. t \in Seq(StepNames)
    <3>1. r \o ShowSteps \in Seq(StepNames)
      BY <1>4
    <3>2. QED
      BY <1>5, <3>1
  <2>3. hs \o t = h \o (SizeSteps \o t)
    BY <1>3, <2>2, Regroup
  <2> HIDE DEF hs
  <2>4. (hs \o r) \o ShowSteps = hs \o (r \o ShowSteps)
    BY <1>4, <2>1, Regroup
  <2>5. QED
    BY <1>5, <2>3, <2>4 DEF hs
<1>7. h \o (SizeSteps \o t) \in AtHandler
  BY <1>2 DEF AtHandler, Before
<1>8. QED
  BY <1>1, <1>6, <1>7

-----------------------------------------------------------------------------
(* The steps of the specification. *)

LEMMA NowType == TypeOK <=> Now \in State
  BY DEF TypeOK, Now, State, Mouse, Cursor, XPositions, YPositions

LEMMA BecomesType ==
  ASSUME NEW s \in State, Becomes(s)
  PROVE  TypeOK'
<1>1. mouse' \in Mouse /\ cursor' \in Cursor /\ cell' \in [Cells -> Character]
  BY DEF Becomes, State
<1>2. QED
  BY <1>1 DEF TypeOK, Mouse, Cursor, XPositions, YPositions

(* A rest of a call tells its stage. *)
LEMMA StageOf ==
  ASSUME Stage
  PROVE  /\ todo \in AtHandler \union AtWidth => Sizing /\ OnX /\ OnY /\ OnScreen
         /\ todo \in AtHeight => Sizing /\ mouse.width = args[1] /\ OnY
         /\ todo \in AtX => Sizing /\ mouse.width = args[1] /\ mouse.height = args[2]
         /\ todo \in AtY => Sizing /\ mouse.height = args[2] /\ OnX
         /\ todo = << >> => OnX /\ OnY /\ OnScreen
<1>1. /\ todo \in AtHandler => todo # << >> /\ Head(todo) = "handler"
      /\ todo \in AtWidth => todo # << >> /\ Head(todo) = "width"
      /\ todo \in AtHeight => todo # << >> /\ Head(todo) = "height"
      /\ todo \in AtX => todo # << >> /\ Head(todo) = "x"
      /\ todo \in AtY => todo # << >> /\ Head(todo) = "y"
  BY SizingTail
<1>2. todo \in Moving => todo # << >> /\ Head(todo) \in {"restore", "save_to", "draw_to", "place"}
  BY MovingTail
<1>3. todo = <<"type">> => todo # << >> /\ Head(todo) = "type"
  BY Single
<1>4. todo \in Resized => todo # << >> /\ Head(todo) \in {"move", "reset", "init"}
  BY ResizedTail
<1>5. todo \in Showing => todo = << >> \/ Head(todo) \in {"show", "hide", "colors", "save", "draw", "visible",
                                                          "restore", "invisible"}
  BY ShowingTail DEF Deciding
<1>6. QED
  BY <1>1, <1>2, <1>3, <1>4, <1>5 DEF Stage

LEMMA InitIInv == PointerInit => IInv
<1> SUFFICES ASSUME PointerInit PROVE IInv
  OBVIOUS
<1>1. mouse \in Mouse
  <2>1. /\ (DEFAULT_SCREEN_WIDTH \div 2) * Unit \in 0 .. DEFAULT_SCREEN_WIDTH * Unit - 1
        /\ (DEFAULT_SCREEN_HEIGHT \div 2) * UnitY \in 0 .. DEFAULT_SCREEN_HEIGHT * UnitY - 1
    BY Half, Units
  <2>2. << >> \in {s \in Seq(Bytes) : Len(s) < 3}
    OBVIOUS
  <2>3. QED
    BY <2>1, <2>2, SizesArePositive DEF PointerInit, Mouse, XPositions, YPositions
<1>2. cursor \in Cursor /\ cursor.at \in Text
  <2>1. 0 \in 0 .. DEFAULT_SCREEN_WIDTH - 1 /\ 0 \in 0 .. DEFAULT_SCREEN_HEIGHT - 1
    BY Units
  <2>2. Address(0, 0) \in Text
    BY <2>1, IsOnScreen DEF Text
  <2>3. QED
    BY <2>2, ScreenIsCells DEF PointerInit, Cursor, Character, Shapes, CURSOR_DEFAULT, Normal
<1>3. cell \in [Cells -> Character]
  <2>1. \A c \in Cells : [ch |-> IF c % 2 = 0 THEN "even" ELSE "odd", attr |-> Normal] \in Character
    BY DEF Character, Normal
  <2>2. QED
    BY <2>1 DEF PointerInit
<1>4. TypeOK
  BY <1>1, <1>2, <1>3 DEF TypeOK, Mouse, Cursor, XPositions, YPositions
<1>5. OnX /\ OnY
  <2>1. /\ (DEFAULT_SCREEN_WIDTH \div 2) * Unit < DEFAULT_SCREEN_WIDTH * Unit
        /\ (DEFAULT_SCREEN_HEIGHT \div 2) * UnitY < DEFAULT_SCREEN_HEIGHT * UnitY
    BY Half, Units
  <2>2. QED
    BY <2>1 DEF PointerInit, OnX, OnY
<1>6. todo \in Showing
  BY DEF PointerInit, Showing
<1>7. QED
  BY <1>2, <1>4, <1>5, <1>6 DEF IInv, Stage, OnScreen

LEMMA PacketStep ==
  ASSUME IInv, NEW b \in Bytes, isr_mouse(b)
  PROVE  IInv'
<1> DEFINE s == IF mouse.handler THEN mouse_handle_data(Now, b) ELSE Now
<1>1. Now \in State /\ Now.mouse = mouse
  BY NowType DEF IInv, Now
<1>2. /\ s \in State /\ SameSize(s.mouse, mouse)
      /\ \/ Inside(s.mouse) /\ s.cursor.at \in Screen(s.mouse.width, s.mouse.height)
         \/ s.mouse.x = mouse.x /\ s.mouse.y = mouse.y /\ s.cursor = cursor
  <2>1. CASE mouse.handler
    BY <1>1, <2>1, PacketType DEF Now
  <2>2. CASE ~mouse.handler
    BY <1>1, <2>2 DEF SameSize, Now
  <2>3. QED
    BY <2>1, <2>2
<1>3. Becomes(s) /\ UNCHANGED <<todo, args>>
  BY DEF isr_mouse
<1> HIDE DEF s
<1>4. TypeOK'
  BY <1>2, <1>3, BecomesType
<1>5. mouse'.width = mouse.width /\ mouse'.height = mouse.height
  BY <1>2, <1>3 DEF Becomes, SameSize
<1>6. (OnX => OnX') /\ (OnY => OnY')
  BY <1>2, <1>3, <1>5 DEF Becomes, Inside, OnX, OnY
<1>7. OnScreen => OnScreen'
  BY <1>2, <1>3, <1>5 DEF Becomes, OnScreen
<1>8. Stage'
  BY <1>3, <1>5, <1>6, <1>7 DEF IInv, Stage, Sizing
<1>9. QED
  BY <1>4, <1>8 DEF IInv

(* A call leaves the driver's variables as they are. *)
LEMMA CallStep ==
  ASSUME IInv, NEW steps, NEW a, Call(steps, a),
         \/ steps \in AtHandler \union AtWidth /\ a \in Widths \X Heights
         \/ steps = <<"type">> /\ a \in Shapes
         \/ steps \in Showing
  PROVE  IInv'
<1>1. UNCHANGED <<mouse, cursor, cell>> /\ todo' = steps /\ args' = a
  BY DEF Call
<1>2. TypeOK'
  BY <1>1 DEF IInv, TypeOK
<1>3. OnX /\ OnY /\ OnScreen
  BY StageOf DEF IInv, Call
<1>4. OnX' /\ OnY' /\ OnScreen'
  BY <1>1, <1>3 DEF OnX, OnY, OnScreen
<1>5. Stage'
  BY <1>1, <1>4 DEF Stage, Sizing
<1>6. QED
  BY <1>2, <1>5 DEF IInv

LEMMA WriteStep ==
  ASSUME IInv, Write
  PROVE  IInv'
<1>1. UNCHANGED <<mouse, cursor, todo, args>>
  BY DEF Write
<1>2. cell' \in [Cells -> Character]
  <2>1. [ch |-> "new", attr |-> Normal] \in Character
    BY DEF Character, Normal
  <2>2. QED
    BY <2>1, ScreenIsCells DEF Write, IInv, TypeOK
<1>3. TypeOK'
  BY <1>1, <1>2 DEF IInv, TypeOK
<1>4. Stage'
  BY <1>1 DEF IInv, Stage, Sizing, OnX, OnY, OnScreen
<1>5. QED
  BY <1>3, <1>4 DEF IInv

LEMMA MainStep ==
  ASSUME IInv, PointerMain
  PROVE  IInv'
<1>1. CASE mouse_init
  BY <1>1, CallStep, CallsBegin, AskedIsASize DEF mouse_init
<1>2. CASE mouse_set_screen_size
  BY <1>2, CallStep, CallsBegin, AskedIsASize DEF mouse_set_screen_size
<1>3. CASE cursor_show
  BY <1>3, CallStep DEF cursor_show, ShowSteps, Showing
<1>4. CASE cursor_hide
  BY <1>4, CallStep DEF cursor_hide, Showing
<1>5. CASE cursor_set_type
  BY <1>5, CallStep DEF cursor_set_type
<1>6. CASE cursor_set_colors
  BY <1>6, CallStep DEF cursor_set_colors, Showing
<1>7. CASE Write
  BY <1>7, WriteStep
<1>8. QED
  BY <1>1, <1>2, <1>3, <1>4, <1>5, <1>6, <1>7 DEF PointerMain

-----------------------------------------------------------------------------
(* One step of the main program's call.  While the size is being set:      *)

LEMMA SizeProceeds ==
  ASSUME Proceed
  PROVE  /\ Step = "handler" => UNCHANGED args /\ Then([Now EXCEPT !.mouse.handler = TRUE], << >>)
         /\ Step = "width"   => UNCHANGED args /\ Then([Now EXCEPT !.mouse.width = args[1]], << >>)
         /\ Step = "height"  => UNCHANGED args /\ Then([Now EXCEPT !.mouse.height = args[2]], << >>)
         /\ Step = "x" => UNCHANGED args /\ Then([Now EXCEPT !.mouse.x = (args[1] \div 2) * Unit], << >>)
         /\ Step = "y" => UNCHANGED args /\ Then([Now EXCEPT !.mouse.y = (args[2] \div 2) * UnitY], << >>)
  BY DEF Proceed, SizeStep, CursorStep, MoveStep
LEMMA MoveProceeds ==
  ASSUME Proceed
  PROVE  /\ Step = "save_to" => UNCHANGED args /\ Then(Save(Now, args), << >>)
         /\ Step = "draw_to" => UNCHANGED args /\ Then(Draw(Now, args), << >>)
         /\ Step = "place"   => UNCHANGED args /\ Then(Place(Now, args), << >>)
         /\ Step = "move" =>
              args' = At(mouse) /\ Then(Now, IF cursor.visible THEN <<"restore", "save_to", "draw_to", "place">>
                                                             ELSE <<"place">>)
  BY DEF Proceed, SizeStep, CursorStep, MoveStep
LEMMA CursorProceeds ==
  ASSUME Proceed, Step \notin {"handler", "width", "height", "x", "y", "save_to", "draw_to", "place", "move"}
  PROVE  /\ UNCHANGED args
         /\ CursorStep \/ (Step = "reset" /\ SizeStep)
  BY DEF Proceed, SizeStep, CursorStep, MoveStep

LEMMA MouseType ==
  ASSUME TypeOK, mouse' \in Mouse, UNCHANGED <<cursor, cell>>
  PROVE  TypeOK'
  BY DEF TypeOK, Mouse, XPositions, YPositions

LEMMA SizingStep ==
  ASSUME IInv, Proceed, todo \in AtHandler \union AtWidth \union AtHeight \union AtX \union AtY
  PROVE  IInv'
<1>1. mouse \in Mouse
  BY DEF IInv, TypeOK, Mouse, XPositions, YPositions
<1>2. CASE todo \in AtHandler
  <2>1. Step = "handler" /\ << >> \o Tail(todo) \in AtWidth
    BY <1>2, SizingTail DEF Step
  <2>2. mouse' = [mouse EXCEPT !.handler = TRUE] /\ UNCHANGED <<cursor, cell, args>> /\ todo' \in AtWidth
    BY <2>1, SizeProceeds DEF Then, Becomes, Now
  <2>3. mouse' \in Mouse /\ mouse'.width = mouse.width /\ mouse'.height = mouse.height
        /\ mouse'.x = mouse.x /\ mouse'.y = mouse.y
    BY <1>1, <2>2 DEF Mouse
  <2>4. TypeOK'
    BY <2>2, <2>3, MouseType DEF IInv
  <2>5. Sizing /\ OnX /\ OnY /\ OnScreen
    BY <1>2, StageOf DEF IInv
  <2>6. QED
    BY <2>2, <2>3, <2>4, <2>5 DEF IInv, Stage, Sizing, OnX, OnY, OnScreen
<1>3. CASE todo \in AtWidth
  <2>1. Step = "width" /\ << >> \o Tail(todo) \in AtHeight
    BY <1>3, SizingTail DEF Step
  <2>2. mouse' = [mouse EXCEPT !.width = args[1]] /\ UNCHANGED <<cursor, cell, args>> /\ todo' \in AtHeight
    BY <2>1, SizeProceeds DEF Then, Becomes, Now
  <2>3. Sizing /\ OnX /\ OnY
    BY <1>3, StageOf DEF IInv
  <2>4. mouse' \in Mouse /\ mouse'.width = args[1] /\ mouse'.height = mouse.height /\ mouse'.y = mouse.y
    BY <1>1, <2>2, <2>3 DEF Mouse, Sizing
  <2>5. TypeOK'
    BY <2>2, <2>4, MouseType DEF IInv
  <2>6. QED
    BY <2>2, <2>3, <2>4, <2>5 DEF IInv, Stage, Sizing, OnY
<1>4. CASE todo \in AtHeight
  <2>1. Step = "height" /\ << >> \o Tail(todo) \in AtX
    BY <1>4, SizingTail DEF Step
  <2>2. mouse' = [mouse EXCEPT !.height = args[2]] /\ UNCHANGED <<cursor, cell, args>> /\ todo' \in AtX
    BY <2>1, SizeProceeds DEF Then, Becomes, Now
  <2>3. Sizing /\ mouse.width = args[1]
    BY <1>4, StageOf DEF IInv
  <2>4. mouse' \in Mouse /\ mouse'.height = args[2] /\ mouse'.width = mouse.width
    BY <1>1, <2>2, <2>3 DEF Mouse, Sizing
  <2>5. TypeOK'
    BY <2>2, <2>4, MouseType DEF IInv
  <2>6. QED
    BY <2>2, <2>3, <2>4, <2>5 DEF IInv, Stage, Sizing
<1>5. CASE todo \in AtX
  <2> DEFINE x == (args[1] \div 2) * Unit
  <2>1. Step = "x" /\ << >> \o Tail(todo) \in AtY
    BY <1>5, SizingTail DEF Step
  <2>2. mouse' = [mouse EXCEPT !.x = x] /\ UNCHANGED <<cursor, cell, args>> /\ todo' \in AtY
    BY <2>1, SizeProceeds DEF Then, Becomes, Now
  <2>3. Sizing /\ mouse.width = args[1] /\ mouse.height = args[2]
    BY <1>5, StageOf DEF IInv
  <2>4. args[1] \in Widths /\ args[1] \in Nat \ {0}
    BY <2>3, SizesArePositive DEF Sizing
  <2>5. x \in 0 .. args[1] * Unit - 1 /\ args[1] * Unit \in Int
    BY <2>4, Half, Units
  <2> HIDE DEF x
  <2>6. x \in XPositions /\ x < args[1] * Unit
    BY <2>4, <2>5 DEF XPositions
  <2>7. mouse' \in Mouse /\ mouse'.x = x /\ mouse'.width = mouse.width /\ mouse'.height = mouse.height
    BY <1>1, <2>2, <2>6 DEF Mouse
  <2>8. TypeOK'
    BY <2>2, <2>7, MouseType DEF IInv
  <2>9. OnX'
    BY <2>3, <2>6, <2>7 DEF OnX
  <2>10. QED
    BY <2>2, <2>3, <2>7, <2>8, <2>9 DEF IInv, Stage, Sizing
<1>6. CASE todo \in AtY
  <2> DEFINE y == (args[2] \div 2) * UnitY
  <2>1. Step = "y" /\ << >> \o Tail(todo) \in Resized
    BY <1>6, SizingTail DEF Step
  <2>2. mouse' = [mouse EXCEPT !.y = y] /\ UNCHANGED <<cursor, cell, args>> /\ todo' \in Resized
    BY <2>1, SizeProceeds DEF Then, Becomes, Now
  <2>3. Sizing /\ OnX /\ mouse.height = args[2]
    BY <1>6, StageOf DEF IInv
  <2>4. args[2] \in Heights /\ args[2] \in Nat \ {0}
    BY <2>3, SizesArePositive DEF Sizing
  <2>5. y \in 0 .. args[2] * UnitY - 1 /\ args[2] * UnitY \in Int
    BY <2>4, Half, Units
  <2> HIDE DEF y
  <2>6. y \in YPositions /\ y < args[2] * UnitY
    BY <2>4, <2>5 DEF YPositions
  <2>7. mouse' \in Mouse /\ mouse'.y = y /\ mouse'.x = mouse.x /\ mouse'.width = mouse.width
        /\ mouse'.height = mouse.height
    BY <1>1, <2>2, <2>6 DEF Mouse
  <2>8. TypeOK'
    BY <2>2, <2>7, MouseType DEF IInv
  <2>9. OnX' /\ OnY'
    BY <2>3, <2>6, <2>7 DEF OnX, OnY
  <2>10. QED
    BY <2>2, <2>8, <2>9 DEF IInv, Stage
<1>7. QED
  BY <1>2, <1>3, <1>4, <1>5, <1>6

(* Where the position is on the screen, and stays there. *)
Settled == OnX /\ OnY
LEMMA StaysSettled ==
  ASSUME Settled, mouse'.x = mouse.x, mouse'.y = mouse.y, mouse'.width = mouse.width,
         mouse'.height = mouse.height
  PROVE  Settled'
  BY DEF Settled, OnX, OnY

LEMMA MovingStep ==
  ASSUME IInv, Proceed, todo \in Moving, args \in Screen(mouse.width, mouse.height), Settled
  PROVE  IInv'
<1>1. Now \in State /\ Now.mouse = mouse /\ Now.cursor = cursor
  BY NowType DEF IInv, Now
<1>2. args \in Cells
  BY <1>1, ScreenIsCells DEF State, Mouse
<1>3. PICK s \in State : /\ s.mouse = mouse /\ Becomes(s) /\ UNCHANGED args
                         /\ todo' \in Moving \/ (todo' \in Showing /\ s.cursor.at = args)
  <2>1. CASE Step = "restore"
    <3>1. UNCHANGED args /\ Then(Restore(Now), << >>)
      BY <2>1, CursorProceeds DEF CursorStep
    <3>2. QED
      BY <1>1, <2>1, <3>1, RestoreType, MovingTail DEF Then, Step
  <2>2. CASE Step = "save_to"
    BY <1>1, <1>2, <2>2, MoveProceeds, SaveType, MovingTail DEF Then, Step
  <2>3. CASE Step = "draw_to"
    BY <1>1, <1>2, <2>3, MoveProceeds, DrawType, MovingTail DEF Then, Step
  <2>4. CASE Step = "place"
    BY <1>1, <1>2, <2>4, MoveProceeds, PlaceType, MovingTail DEF Then, Step
  <2>5. QED
    BY <2>1, <2>2, <2>3, <2>4, MovingTail DEF Step
<1>4. TypeOK'
  BY <1>3, BecomesType
<1>5. Settled' /\ mouse' = mouse /\ args' = args
  BY <1>3, StaysSettled DEF Becomes
<1>6. CASE todo' \in Moving
  BY <1>4, <1>5, <1>6 DEF IInv, Stage, Settled
<1>7. CASE todo' \in Showing /\ s.cursor.at = args
  <2>1. OnScreen'
    BY <1>3, <1>5, <1>7 DEF Becomes, OnScreen
  <2>2. QED
    BY <1>4, <1>5, <1>7, <2>1 DEF IInv, Stage, Settled
<1>8. QED
  BY <1>3, <1>6, <1>7

LEMMA TypeStep ==
  ASSUME IInv, Proceed, todo = <<"type">>, args \in Shapes, Settled, OnScreen
  PROVE  IInv'
<1> DEFINE s == [Now EXCEPT !.cursor.type = args]
<1>1. Now \in State /\ Now.mouse = mouse
  BY NowType DEF IInv, Now
<1>2. s \in State /\ s.mouse = mouse /\ s.cursor.at = cursor.at
  BY <1>1 DEF State, Cursor, Now
<1>3. Step = "type" /\ Tail(todo) = << >>
  BY Single DEF Step
<1>4. UNCHANGED args /\ Then(s, IF cursor.visible THEN <<"draw">> ELSE << >>)
  BY <1>3, CursorProceeds DEF CursorStep
<1>5. Becomes(s) /\ todo' \in Showing
  BY <1>3, <1>4, DecidedSteps DEF Then
<1> HIDE DEF s
<1>6. TypeOK'
  BY <1>2, <1>5, BecomesType
<1>7. Settled' /\ OnScreen'
  BY <1>2, <1>5, StaysSettled DEF Becomes, OnScreen
<1>8. QED
  BY <1>5, <1>6, <1>7 DEF IInv, Stage, Settled

(* The steps that only change what the cursor looks like or covers.        *)
LEMMA PlainSteps ==
  ASSUME Now \in State, Proceed,
         Step \in {"reset", "init", "save", "draw", "visible", "restore", "invisible"}
  PROVE  \E s \in State : /\ Then(s, << >>) /\ UNCHANGED args
                          /\ s.mouse.x = mouse.x /\ s.mouse.y = mouse.y
                          /\ s.mouse.width = mouse.width /\ s.mouse.height = mouse.height
                          /\ IF Step = "init" THEN s.cursor.at \in Text ELSE s.cursor.at = cursor.at
<1>1. Now.mouse = mouse /\ Now.cursor = cursor /\ Spot(Now) \in Cells
  BY SpotIsACell DEF Now
<1>2. UNCHANGED args
  BY CursorProceeds
<1>3. CASE Step = "reset"
  <2> DEFINE s == [Now EXCEPT !.mouse.buffer = << >>, !.mouse.speed = 2 * MOUSE_NORMAL_SPEED]
  <2>1. Then(s, << >>)
    BY <1>3, CursorProceeds DEF SizeStep, CursorStep
  <2>2. << >> \in {q \in Seq(Bytes) : Len(q) < 3}
    OBVIOUS
  <2>3. s \in State
    BY <2>2 DEF State, Mouse
  <2>4. s.mouse.x = Now.mouse.x /\ s.mouse.y = Now.mouse.y /\ s.mouse.width = Now.mouse.width
        /\ s.mouse.height = Now.mouse.height /\ s.cursor.at = Now.cursor.at
    BY DEF State, Mouse
  <2> HIDE DEF s
  <2>5. QED
    BY <1>1, <1>2, <1>3, <2>1, <2>3, <2>4
<1>4. CASE Step = "init"
  <2>1. Then(cursor_init(Now), << >>)
    BY <1>4, CursorProceeds DEF CursorStep
  <2>2. QED
    BY <1>1, <1>2, <1>4, <2>1, InitType
<1>5. CASE Step = "save"
  <2>1. Then(Save(Now, Spot(Now)), << >>)
    BY <1>5, CursorProceeds DEF CursorStep
  <2>2. QED
    BY <1>1, <1>2, <1>5, <2>1, SaveType
<1>6. CASE Step = "draw"
  <2>1. Then(Draw(Now, Spot(Now)), << >>)
    BY <1>6, CursorProceeds DEF CursorStep
  <2>2. QED
    BY <1>1, <1>2, <1>6, <2>1, DrawType
<1>7. CASE Step = "restore"
  <2>1. Then(Restore(Now), << >>)
    BY <1>7, CursorProceeds DEF CursorStep
  <2>2. QED
    BY <1>1, <1>2, <1>7, <2>1, RestoreType
<1>8. CASE Step = "visible"
  <2> DEFINE s == [Now EXCEPT !.cursor.visible = TRUE]
  <2>1. Then(s, << >>)
    BY <1>8, CursorProceeds DEF CursorStep
  <2>2. s \in State /\ s.mouse = Now.mouse /\ s.cursor.at = Now.cursor.at
    BY DEF State, Cursor
  <2>3. QED
    BY <1>1, <1>2, <1>8, <2>1, <2>2
<1>9. CASE Step = "invisible"
  <2> DEFINE s == [Now EXCEPT !.cursor.visible = FALSE]
  <2>1. Then(s, << >>)
    BY <1>9, CursorProceeds DEF CursorStep
  <2>2. s \in State /\ s.mouse = Now.mouse /\ s.cursor.at = Now.cursor.at
    BY DEF State, Cursor
  <2>3. QED
    BY <1>1, <1>2, <1>9, <2>1, <2>2
<1>10. QED
  BY <1>3, <1>4, <1>5, <1>6, <1>7, <1>8, <1>9

LEMMA PlainStep ==
  ASSUME IInv, Proceed, Settled,
         Step \in {"reset", "init", "save", "draw", "visible", "restore", "invisible"},
         \/ << >> \o Tail(todo) \in Resized
         \/ << >> \o Tail(todo) \in Showing /\ (OnScreen \/ Step = "init")
  PROVE  IInv'
<1>1. Now \in State
  BY NowType DEF IInv
<1>2. PICK s \in State : /\ Then(s, << >>) /\ UNCHANGED args
                         /\ s.mouse.x = mouse.x /\ s.mouse.y = mouse.y
                         /\ s.mouse.width = mouse.width /\ s.mouse.height = mouse.height
                         /\ IF Step = "init" THEN s.cursor.at \in Text ELSE s.cursor.at = cursor.at
  BY <1>1, PlainSteps
<1>3. Becomes(s) /\ todo' = << >> \o Tail(todo)
  BY <1>2 DEF Then
<1>4. TypeOK'
  BY <1>3, BecomesType
<1>5. Settled'
  BY <1>2, <1>3, StaysSettled DEF Becomes
<1>6. (OnScreen \/ Step = "init") => OnScreen'
  BY <1>2, <1>3 DEF Becomes, OnScreen
<1>7. QED
  BY <1>3, <1>4, <1>5, <1>6 DEF IInv, Stage, Settled

(* The steps that decide what the call has left to do. *)
LEMMA MoveStarts ==
  ASSUME IInv, Proceed, Step = "move", Tail(todo) = << >>, Settled
  PROVE  IInv'
<1>1. Now \in State /\ Now.mouse = mouse
  BY NowType DEF IInv, Now
<1>2. args' = At(mouse) /\ Becomes(Now) /\ todo' \in Moving
  BY MoveProceeds, DecidedSteps DEF Then
<1>3. mouse' = mouse
  BY <1>1, <1>2 DEF Becomes
<1>4. At(mouse) \in Screen(mouse.width, mouse.height)
  <2>1. mouse \in Mouse /\ Inside(mouse)
    BY <1>1 DEF State, Settled, OnX, OnY, Inside
  <2>2. QED
    BY <2>1, AtIsACell
<1>5. TypeOK'
  BY <1>1, <1>2, BecomesType
<1>6. Settled'
  BY <1>3, StaysSettled
<1>7. QED
  BY <1>2, <1>3, <1>4, <1>5, <1>6 DEF IInv, Stage, Settled

LEMMA DecidingStep ==
  ASSUME IInv, Proceed, Step \in Deciding, Tail(todo) = << >>, Settled, OnScreen
  PROVE  IInv'
<1>1. Now \in State /\ Now.mouse = mouse /\ Now.cursor = cursor
  BY NowType DEF IInv, Now
<1>2. Becomes(Now) /\ todo' \in Showing
  <2>1. CursorStep
    BY CursorProceeds DEF Deciding
  <2>2. CASE Step = "show"
    BY <2>1, <2>2, DecidedSteps DEF CursorStep, Then
  <2>3. CASE Step = "hide"
    BY <2>1, <2>3, DecidedSteps DEF CursorStep, Then
  <2>4. CASE Step = "colors"
    BY <2>1, <2>4, DecidedSteps DEF CursorStep, Then
  <2>5. QED
    BY <2>2, <2>3, <2>4 DEF Deciding
<1>3. TypeOK'
  BY <1>1, <1>2, BecomesType
<1>4. Settled' /\ OnScreen'
  BY <1>1, <1>2, StaysSettled DEF Becomes, OnScreen
<1>5. QED
  BY <1>2, <1>3, <1>4 DEF IInv, Stage, Settled

LEMMA ProceedStep ==
  ASSUME IInv, Proceed
  PROVE  IInv'
<1>1. CASE todo \in AtHandler \union AtWidth \union AtHeight \union AtX \union AtY
  BY <1>1, SizingStep
<1>2. CASE todo \in Moving /\ args \in Screen(mouse.width, mouse.height) /\ Settled
  BY <1>2, MovingStep
<1>3. CASE todo = <<"type">> /\ args \in Shapes /\ Settled /\ OnScreen
  BY <1>3, TypeStep
<1>4. CASE todo \in Resized /\ Settled
  <2>1. CASE Step = "move" /\ Tail(todo) = << >>
    BY <1>4, <2>1, MoveStarts
  <2>2. CASE Step = "reset" /\ << >> \o Tail(todo) \in Resized
    BY <1>4, <2>2, PlainStep
  <2>3. CASE Step = "init" /\ << >> \o Tail(todo) \in Showing
    BY <1>4, <2>3, PlainStep
  <2>4. QED
    BY <1>4, <2>1, <2>2, <2>3, ResizedTail DEF Step
<1>5. CASE todo \in Showing /\ Settled /\ OnScreen
  <2>1. todo # << >>
    BY DEF Proceed
  <2>2. CASE Step \in Deciding /\ Tail(todo) = << >>
    BY <1>5, <2>2, DecidingStep
  <2>3. CASE Step \in {"save", "draw", "visible", "restore", "invisible"} /\ << >> \o Tail(todo) \in Showing
    BY <1>5, <2>3, PlainStep
  <2>4. QED
    BY <1>5, <2>1, <2>2, <2>3, ShowingTail DEF Step
<1>6. QED
  BY <1>1, <1>2, <1>3, <1>4, <1>5 DEF IInv, Stage, Settled

-----------------------------------------------------------------------------
LEMMA NextIInv == IInv /\ [(\E b \in Bytes : isr_mouse(b)) \/ PointerMain \/ Proceed]_pointer_vars => IInv'
<1>1. ASSUME IInv, UNCHANGED pointer_vars PROVE IInv'
  BY <1>1 DEF IInv, TypeOK, Stage, Sizing, OnX, OnY, OnScreen, pointer_vars
<1>2. QED
  BY <1>1, PacketStep, MainStep, ProceedStep

(* The inductive invariant: what is stored has its type, and each rest of *)
(* a call tells which of the new measures are already in place.            *)
THEOREM PointerInvariant == PointerSpec => []IInv
<1>1. QED
  BY InitIInv, NextIInv, PTL DEF PointerSpec

(* Whatever packets come between whatever steps of mouse_init,             *)
(* mouse_set_screen_size and the cursor's calls, and whatever size these   *)
(* ask for, larger than the text screen or not: whenever no call is under  *)
(* way, the position is on the screen of the size last set and the cursor  *)
(* in that screen's memory or in the text's.                               *)
THEOREM PointerStaysOnScreen == PointerSpec => []PointerIsOnScreen
<1>1. IInv => PointerIsOnScreen
  BY StageOf DEF IInv, PointerIsOnScreen, OnX, OnY, OnScreen
<1>2. QED
  BY <1>1, PointerInvariant, PTL

(* Where no size asked for is larger than the text screen, the cursor is   *)
(* in the text's memory at every step: the driver does not ask for this,   *)
(* its callers have to.                                                    *)
THEOREM CursorStaysInText ==
  ASSUME \A size \in Sizes : size[1] =< DEFAULT_SCREEN_WIDTH /\ size[2] =< DEFAULT_SCREEN_HEIGHT
  PROVE  PointerSpec => [](cursor.at \in Text)
<1>1. /\ \A w \in Widths : w =< DEFAULT_SCREEN_WIDTH
      /\ \A h \in Heights : h =< DEFAULT_SCREEN_HEIGHT
  BY Units DEF Widths, Heights, Asked
<1>2. ASSUME NEW w \in Widths, NEW h \in Heights
      PROVE  Screen(w, h) \subseteq Text
  <2>1. 0 .. w - 1 \subseteq 0 .. DEFAULT_SCREEN_WIDTH - 1 /\ 0 .. h - 1 \subseteq 0 .. DEFAULT_SCREEN_HEIGHT - 1
    BY <1>1, SizesArePositive, Units
  <2>2. QED
    BY <2>1 DEF Text, Screen
<1>3. Cells \subseteq Text
  BY <1>2 DEF Cells
<1>4. IInv => cursor.at \in Text
  BY <1>3 DEF IInv, TypeOK
<1>5. QED
  BY <1>4, PointerInvariant, PTL
-----------------------------------------------------------------------------
(* The text under the cursor.                                              *)
(*                                                                         *)
(* CursorIsTransparent speaks of the rest between two calls, so what is    *)
(* kept is said of every stage of a call.  Of a call that no packet        *)
(* interrupted, Exact tells where the text is bare, where the cursor's     *)
(* face lies and what it keeps.  Of one that was interrupted, Safe tells   *)
(* enough: a cell nothing changed since the call began still shows its     *)
(* text or is the one the cursor keeps, and at the end every other cell    *)
(* is counted as spoilt.                                                   *)

(* How far a call is: its next step, and a drawing anew by its own name. *)
Mark(w) == IF w = << >> THEN "rest" ELSE IF w = <<"draw">> THEN "redraw" ELSE Head(w)

(* The marks of the steps that run while the cursor's face is off the text *)
(* (Lifted), that run only on a hidden cursor (Unseen) or a shown one      *)
(* (Seen), and before which the cursor and the text are not as at rest.    *)
Lifted  == {"save_to", "draw_to", "place", "invisible"}
Unseen  == {"save", "draw", "visible"}
Seen    == {"restore", "save_to", "draw_to", "invisible", "redraw"}
Special == Lifted \union {"draw", "visible", "redraw"}

(* Which mark comes after which, where the step does not decide it. *)
SizeMarks == {"handler", "width", "height", "x", "y", "reset"}
Follows(m, n) ==
    \/ m \in SizeMarks /\ n \in SizeMarks \union {"init", "move"}
    \/ m = "init" /\ n = "save"
    \/ m = "save" /\ n \in {"show", "draw"}
    \/ m = "draw" /\ n = "visible"
    \/ m = "restore" /\ n \in {"save_to", "invisible"}
    \/ m = "save_to" /\ n = "draw_to"
    \/ m = "draw_to" /\ n = "place"
    \/ m \in {"place", "visible", "invisible", "redraw"} /\ n = "rest"
DecidingMarks == {"show", "hide", "move", "colors", "type"}

LEMMA MarkIsHead ==
  ASSUME NEW t, t # << >>, Head(t) # "draw"
  PROVE  Mark(t) = Head(t)
<1>1. t # <<"draw">>
  BY Single
<1>2. QED
  BY <1>1 DEF Mark

LEMMA MarksOfLists ==
  /\ Mark(<< >>) = "rest" /\ Mark(<<"draw">>) = "redraw"
  /\ Mark(<<"draw", "visible">>) = "draw" /\ Mark(<<"visible">>) = "visible"
  /\ Mark(<<"save", "draw", "visible">>) = "save"
  /\ Mark(<<"restore", "invisible">>) = "restore" /\ Mark(<<"invisible">>) = "invisible"
  /\ Mark(<<"restore", "save_to", "draw_to", "place">>) = "restore"
  /\ Mark(<<"save_to", "draw_to", "place">>) = "save_to"
  /\ Mark(<<"draw_to", "place">>) = "draw_to" /\ Mark(<<"place">>) = "place"
  /\ Mark(<<"show">>) = "show" /\ Mark(<<"hide">>) = "hide" /\ Mark(<<"colors">>) = "colors"
  /\ Mark(<<"type">>) = "type" /\ Mark(<<"move">>) = "move"
  /\ Mark(<<"reset", "init", "save", "show">>) = "reset"
  /\ Mark(<<"init", "save", "show">>) = "init" /\ Mark(<<"save", "show">>) = "save"
<1>1. Mark(<< >>) = "rest" /\ Mark(<<"draw">>) = "redraw"
  BY DEF Mark
<1>2. Mark(<<"draw", "visible">>) = "draw"
  <2>1. <<"draw", "visible">> # <<"draw">> /\ <<"draw", "visible">> # << >>
    OBVIOUS
  <2>2. Head(<<"draw", "visible">>) = "draw"
    OBVIOUS
  <2>3. QED
    BY <2>1, <2>2 DEF Mark
<1>3. /\ Mark(<<"visible">>) = "visible" /\ Mark(<<"invisible">>) = "invisible"
      /\ Mark(<<"place">>) = "place" /\ Mark(<<"show">>) = "show" /\ Mark(<<"hide">>) = "hide"
      /\ Mark(<<"colors">>) = "colors" /\ Mark(<<"type">>) = "type" /\ Mark(<<"move">>) = "move"
  <2>1. \A x : <<x>> # << >> /\ (x # "draw" => Mark(<<x>>) = x)
    BY Single, MarkIsHead
  <2>2. QED
    BY <2>1
<1>4. Mark(<<"save", "draw", "visible">>) = "save"
  BY MarkIsHead
<1>5. Mark(<<"restore", "invisible">>) = "restore"
  BY MarkIsHead
<1>6. Mark(<<"restore", "save_to", "draw_to", "place">>) = "restore"
  BY MarkIsHead
<1>7. Mark(<<"save_to", "draw_to", "place">>) = "save_to"
  BY MarkIsHead
<1>8. Mark(<<"draw_to", "place">>) = "draw_to"
  BY MarkIsHead
<1>9. Mark(<<"reset", "init", "save", "show">>) = "reset"
  BY MarkIsHead
<1>10. Mark(<<"init", "save", "show">>) = "init"
  BY MarkIsHead
<1>11. Mark(<<"save", "show">>) = "save"
  BY MarkIsHead
<1>12. QED
  BY <1>1, <1>2, <1>3, <1>4, <1>5, <1>6, <1>7, <1>8, <1>9, <1>10, <1>11

LEMMA TailsOfLists ==
  /\ << >> \o Tail(<<"draw", "visible">>) = <<"visible">>
  /\ << >> \o Tail(<<"save", "draw", "visible">>) = <<"draw", "visible">>
  /\ << >> \o Tail(<<"restore", "invisible">>) = <<"invisible">>
  /\ << >> \o Tail(<<"restore", "save_to", "draw_to", "place">>) = <<"save_to", "draw_to", "place">>
  /\ << >> \o Tail(<<"save_to", "draw_to", "place">>) = <<"draw_to", "place">>
  /\ << >> \o Tail(<<"draw_to", "place">>) = <<"place">>
  /\ << >> \o Tail(<<"reset", "init", "save", "show">>) = <<"init", "save", "show">>
  /\ << >> \o Tail(<<"init", "save", "show">>) = <<"save", "show">>
  /\ << >> \o Tail(<<"save", "show">>) = <<"show">>
<1>1. << >> \o Tail(<<"draw", "visible">>) = <<"visible">>
  OBVIOUS
<1>2. << >> \o Tail(<<"save", "draw", "visible">>) = <<"draw", "visible">>
  OBVIOUS
<1>3. << >> \o Tail(<<"restore", "invisible">>) = <<"invisible">>
  OBVIOUS
<1>4. << >> \o Tail(<<"restore", "save_to", "draw_to", "place">>) = <<"save_to", "draw_to", "place">>
  OBVIOUS
<1>5. << >> \o Tail(<<"save_to", "draw_to", "place">>) = <<"draw_to", "place">>
  OBVIOUS
<1>6. << >> \o Tail(<<"draw_to", "place">>) = <<"place">>
  OBVIOUS
<1>7. << >> \o Tail(<<"reset", "init", "save", "show">>) = <<"init", "save", "show">>
  OBVIOUS
<1>8. << >> \o Tail(<<"init", "save", "show">>) = <<"save", "show">>
  OBVIOUS
<1>9. << >> \o Tail(<<"save", "show">>) = <<"show">>
  OBVIOUS
<1>10. QED
  BY <1>1, <1>2, <1>3, <1>4, <1>5, <1>6, <1>7, <1>8, <1>9

(* Every rest of a call is one of these. *)
Courses == AtHandler \union AtWidth \union AtHeight \union AtX \union AtY
           \union Resized \union Moving \union Showing \union {<<"type">>}

Course(t) ==
    /\ Head(t) = IF Mark(t) = "redraw" THEN "draw" ELSE Mark(t)
    /\ Mark(t) # "rest"
    /\ \/ /\ Follows(Mark(t), Mark(<< >> \o Tail(t)))
          /\ << >> \o Tail(t) = << >> <=> Mark(<< >> \o Tail(t)) = "rest"
       \/ Mark(t) \in DecidingMarks /\ Tail(t) = << >>

LEMMA SizingMarked ==
  ASSUME NEW t
  PROVE  /\ t \in AtHandler => t # << >> /\ Mark(t) = "handler" /\ Head(t) = "handler"
         /\ t \in AtWidth => t # << >> /\ Mark(t) = "width" /\ Head(t) = "width"
         /\ t \in AtHeight => t # << >> /\ Mark(t) = "height" /\ Head(t) = "height"
         /\ t \in AtX => t # << >> /\ Mark(t) = "x" /\ Head(t) = "x"
         /\ t \in AtY => t # << >> /\ Mark(t) = "y" /\ Head(t) = "y"
         /\ t \in Rests => t # << >> /\ Mark(t) \in {"reset", "move"}
<1>1. t \in Rests => t # << >> /\ Mark(t) \in {"reset", "move"}
  <2>1. <<"reset", "init", "save", "show">> # << >>
    OBVIOUS
  <2>2. <<"move">> # << >>
    OBVIOUS
  <2>3. QED
    BY <2>1, <2>2, MarksOfLists DEF Rests
<1>2. QED
  BY <1>1, SizingTail, MarkIsHead

LEMMA SizingCourse ==
  ASSUME NEW t \in AtHandler \union AtWidth \union AtHeight \union AtX \union AtY
  PROVE  t # << >> /\ Course(t)
<1> DEFINE u == << >> \o Tail(t)
<1>1. CASE t \in AtHandler
  <2>1. u \in AtWidth
    BY <1>1, SizingTail
  <2> HIDE DEF u
  <2>2. Mark(u) = "width" /\ u # << >>
    BY <2>1, SizingMarked
  <2>3. QED
    BY <1>1, <2>2, SizingMarked DEF Course, Follows, SizeMarks, u
<1>2. CASE t \in AtWidth
  <2>1. u \in AtHeight
    BY <1>2, SizingTail
  <2> HIDE DEF u
  <2>2. Mark(u) = "height" /\ u # << >>
    BY <2>1, SizingMarked
  <2>3. QED
    BY <1>2, <2>2, SizingMarked DEF Course, Follows, SizeMarks, u
<1>3. CASE t \in AtHeight
  <2>1. u \in AtX
    BY <1>3, SizingTail
  <2> HIDE DEF u
  <2>2. Mark(u) = "x" /\ u # << >>
    BY <2>1, SizingMarked
  <2>3. QED
    BY <1>3, <2>2, SizingMarked DEF Course, Follows, SizeMarks, u
<1>4. CASE t \in AtX
  <2>1. u \in AtY
    BY <1>4, SizingTail
  <2> HIDE DEF u
  <2>2. Mark(u) = "y" /\ u # << >>
    BY <2>1, SizingMarked
  <2>3. QED
    BY <1>4, <2>2, SizingMarked DEF Course, Follows, SizeMarks, u
<1>5. CASE t \in AtY
  <2>1. u \in Rests
    BY <1>5, SizingSequences, InFront, StepNamed DEF AtY
  <2> HIDE DEF u
  <2>2. Mark(u) \in {"reset", "move"} /\ u # << >>
    BY <2>1, SizingMarked
  <2>3. QED
    BY <1>5, <2>2, SizingMarked DEF Course, Follows, SizeMarks, u
<1>6. QED
  BY <1>1, <1>2, <1>3, <1>4, <1>5

LEMMA ListedCourse ==
  ASSUME NEW t \in Resized \union Moving \union Showing \union {<<"type">>}, t # << >>
  PROVE  Course(t)
<1> USE MarksOfLists DEF Course, Follows, DecidingMarks, SizeMarks
<1>1. CASE t = <<"reset", "init", "save", "show">>
  BY <1>1, TailsOfLists
<1>2. CASE t = <<"init", "save", "show">>
  BY <1>2, TailsOfLists
<1>3. CASE t = <<"save", "show">>
  BY <1>3, TailsOfLists
<1>4. CASE t = <<"restore", "save_to", "draw_to", "place">>
  BY <1>4, TailsOfLists
<1>5. CASE t = <<"save_to", "draw_to", "place">>
  BY <1>5, TailsOfLists
<1>6. CASE t = <<"draw_to", "place">>
  BY <1>6, TailsOfLists
<1>7. CASE t = <<"place">>
  BY <1>7, Single
<1>8. CASE t = <<"save", "draw", "visible">>
  BY <1>8, TailsOfLists
<1>9. CASE t = <<"draw", "visible">>
  BY <1>9, TailsOfLists
<1>10. CASE t = <<"visible">>
  BY <1>10, Single
<1>11. CASE t = <<"restore", "invisible">>
  BY <1>11, TailsOfLists
<1>12. CASE t = <<"invisible">>
  BY <1>12, Single
<1>13. CASE t = <<"draw">>
  BY <1>13, Single
<1>14. CASE t = <<"show">>
  BY <1>14, Single
<1>15. CASE t = <<"hide">>
  BY <1>15, Single
<1>16. CASE t = <<"colors">>
  BY <1>16, Single
<1>17. CASE t = <<"type">>
  BY <1>17, Single
<1>18. CASE t = <<"move">>
  BY <1>18, Single
<1>19. QED
  BY <1>1, <1>2, <1>3, <1>4, <1>5, <1>6, <1>7, <1>8, <1>9, <1>10, <1>11, <1>12, <1>13, <1>14, <1>15, <1>16, <1>17, <1>18 DEF Resized, Rests, Moving, Showing

LEMMA EveryCourse ==
  ASSUME Stage, todo # << >>
  PROVE  Course(todo)
<1>1. todo \in Courses
  BY DEF Stage, Courses
<1>2. QED
  BY <1>1, SizingCourse, ListedCourse DEF Courses

-----------------------------------------------------------------------------
(* What each step does to the cursor and the screen, and what is next.     *)

Dress(type, c) == IF type = CURSOR_DEFAULT THEN [ch |-> c.ch, attr |-> swap_colors(c.attr)]
                  ELSE [ch |-> type, attr |-> Own]
Spotted == cursor.at

Same       == UNCHANGED <<cursor, cell>>
Restored   == cursor' = cursor /\ cell' = [cell EXCEPT ![Spotted] = cursor.last]
Saved(at)  == cell' = cell /\ cursor' = [cursor EXCEPT !.last = cell[at]]
Drawn(at)  == cursor' = cursor /\ cell' = [cell EXCEPT ![at] = Dress(cursor.type, cursor.last)]
Placed(at) == cell' = cell /\ cursor' = [cursor EXCEPT !.at = at]
Turned(on) == cell' = cell /\ cursor' = [cursor EXCEPT !.visible = on]

LEMMA FaceIsDress ==
  ASSUME NEW c \in Cursor
  PROVE  /\ Face(c) = Dress(c.type, c.last)
         /\ \A v : Face([c EXCEPT !.last = v]) = Dress(c.type, v)
  BY DEF Face, Dress, Cursor

LEMMA NowIs ==
  /\ Now.mouse = mouse /\ Now.cursor = cursor /\ Now.cell = cell /\ Spot(Now) = Spotted
  /\ Becomes(Now) => Same
  BY DEF Now, Spot, Spotted, Becomes, Same

LEMMA RestoreIs == Becomes(Restore(Now)) => Restored
  BY DEF Restore, Becomes, Now, Spot, Spotted, Restored
LEMMA SaveIs == ASSUME NEW at PROVE Becomes(Save(Now, at)) => Saved(at)
  BY DEF Save, Becomes, Now, Saved
LEMMA DrawIs ==
  ASSUME cursor \in Cursor, NEW at
  PROVE  Becomes(Draw(Now, at)) => Drawn(at)
  BY FaceIsDress DEF Draw, Becomes, Now, Drawn
LEMMA PlaceIs == ASSUME NEW at PROVE Becomes(Place(Now, at)) => Placed(at)
  BY DEF Place, Becomes, Now, Placed

LEMMA AfterStep ==
  ASSUME Stage, Proceed, Mark(todo) \notin DecidingMarks, NEW s, Then(s, << >>)
  PROVE  /\ Becomes(s) /\ Follows(Mark(todo), Mark(todo'))
         /\ todo' = << >> <=> Mark(todo') = "rest"
  BY EveryCourse DEF Proceed, Then, Course

LEMMA StepIsMark ==
  ASSUME Stage, todo # << >>
  PROVE  Step = IF Mark(todo) = "redraw" THEN "draw" ELSE Mark(todo)
  BY EveryCourse DEF Course, Step

LEMMA SizeEffect ==
  ASSUME Stage, Proceed, Mark(todo) \in SizeMarks
  PROVE  /\ Same /\ Mark(todo') \in SizeMarks \union {"init", "move"} /\ todo' # << >>
<1>1. Step = Mark(todo) /\ Mark(todo) \notin DecidingMarks
  BY StepIsMark DEF Proceed, SizeMarks, DecidingMarks
<1>2. \E s : Then(s, << >>) /\ s.cursor = cursor /\ s.cell = cell
  <2>1. CASE Step = "reset"
    <3> DEFINE s == [Now EXCEPT !.mouse.buffer = << >>, !.mouse.speed = 2 * MOUSE_NORMAL_SPEED]
    <3>1. Then(s, << >>)
      BY <2>1, CursorProceeds DEF SizeStep, CursorStep
    <3>2. s.cursor = cursor /\ s.cell = cell
      BY DEF Now
    <3>3. QED
      BY <3>1, <3>2
  <2>2. CASE Step # "reset"
    <3>1. \E m : Then([Now EXCEPT !.mouse = m], << >>)
      <4>1. \A h : [Now EXCEPT !.mouse.handler = h] = [Now EXCEPT !.mouse = [mouse EXCEPT !.handler = h]]
        BY DEF Now
      <4>2. \A w : [Now EXCEPT !.mouse.width = w] = [Now EXCEPT !.mouse = [mouse EXCEPT !.width = w]]
        BY DEF Now
      <4>3. \A w : [Now EXCEPT !.mouse.height = w] = [Now EXCEPT !.mouse = [mouse EXCEPT !.height = w]]
        BY DEF Now
      <4>4. \A x : [Now EXCEPT !.mouse.x = x] = [Now EXCEPT !.mouse = [mouse EXCEPT !.x = x]]
        BY DEF Now
      <4>5. \A y : [Now EXCEPT !.mouse.y = y] = [Now EXCEPT !.mouse = [mouse EXCEPT !.y = y]]
        BY DEF Now
      <4>6. QED
        BY <1>1, <2>2, <4>1, <4>2, <4>3, <4>4, <4>5, SizeProceeds DEF SizeMarks
    <3>2. PICK m : Then([Now EXCEPT !.mouse = m], << >>)
      BY <3>1
    <3>3. [Now EXCEPT !.mouse = m].cursor = cursor /\ [Now EXCEPT !.mouse = m].cell = cell
      BY DEF Now
    <3>4. QED
      BY <3>2, <3>3
  <2>3. QED
    BY <2>1, <2>2
<1>3. PICK s : Then(s, << >>) /\ s.cursor = cursor /\ s.cell = cell
  BY <1>2
<1>4. QED
  BY <1>1, <1>3, AfterStep DEF Becomes, Same, Follows, SizeMarks

LEMMA InitEffect ==
  ASSUME IInv, Proceed, Mark(todo) = "init"
  PROVE  cell' = cell /\ ~cursor'.visible /\ Mark(todo') = "save" /\ todo' # << >>
<1>1. Step = "init"
  BY StepIsMark DEF IInv, Proceed
<1>2. Then(cursor_init(Now), << >>)
  BY <1>1, CursorProceeds DEF CursorStep
<1>3. Becomes(cursor_init(Now)) /\ Mark(todo') = "save" /\ todo' # << >>
  BY <1>2, AfterStep DEF IInv, Follows, SizeMarks, DecidingMarks
<1>4. cursor_init(Now).cell = cell
  BY DEF cursor_init, Place, Now
<1>5. ~cursor_init(Now).cursor.visible
  <2>1. cursor \in Cursor
    BY DEF IInv, TypeOK, Cursor
  <2>2. QED
    BY <2>1 DEF cursor_init, Place, Now, Cursor
<1>6. QED
  BY <1>3, <1>4, <1>5 DEF Becomes

(* The steps of the cursor that leave their successors. *)
LEMMA CursorEffects ==
  ASSUME IInv, Proceed
  PROVE  /\ Mark(todo) = "restore" => Restored /\ Mark(todo') \in {"save_to", "invisible"}
         /\ Mark(todo) = "save" => Saved(Spotted) /\ Mark(todo') \in {"show", "draw"}
         /\ Mark(todo) = "draw" => Drawn(Spotted) /\ Mark(todo') = "visible"
         /\ Mark(todo) = "redraw" => Drawn(Spotted) /\ Mark(todo') = "rest"
         /\ Mark(todo) = "visible" => Turned(TRUE) /\ Mark(todo') = "rest"
         /\ Mark(todo) = "invisible" => Turned(FALSE) /\ Mark(todo') = "rest"
         /\ Mark(todo) = "save_to" => Saved(args) /\ Mark(todo') = "draw_to" /\ UNCHANGED args
         /\ Mark(todo) = "draw_to" => Drawn(args) /\ Mark(todo') = "place" /\ UNCHANGED args
         /\ Mark(todo) = "place" => Placed(args) /\ Mark(todo') = "rest"
<1>1. Stage /\ cursor \in Cursor /\ todo # << >>
  BY DEF IInv, TypeOK, Cursor, Proceed
<1>2. Step = IF Mark(todo) = "redraw" THEN "draw" ELSE Mark(todo)
  BY <1>1, StepIsMark
<1>3. Spot(Now) = Spotted
  BY NowIs
<1> USE <1>1, <1>2, <1>3 DEF Follows, DecidingMarks, SizeMarks
<1>4. Mark(todo) = "restore" => Restored /\ Mark(todo') \in {"save_to", "invisible"}
  BY CursorProceeds, AfterStep, RestoreIs DEF CursorStep
<1>5. Mark(todo) = "save" => Saved(Spotted) /\ Mark(todo') \in {"show", "draw"}
  BY CursorProceeds, AfterStep, SaveIs DEF CursorStep
<1>6. Mark(todo) = "draw" => Drawn(Spotted) /\ Mark(todo') = "visible"
  BY CursorProceeds, AfterStep, DrawIs DEF CursorStep
<1>7. Mark(todo) = "redraw" => Drawn(Spotted) /\ Mark(todo') = "rest"
  BY CursorProceeds, AfterStep, DrawIs DEF CursorStep
<1>8. Mark(todo) = "visible" => Turned(TRUE) /\ Mark(todo') = "rest"
  <2>1. Becomes([Now EXCEPT !.cursor.visible = TRUE]) => Turned(TRUE)
    BY DEF Becomes, Now, Turned
  <2>2. QED
    BY <2>1, CursorProceeds, AfterStep DEF CursorStep
<1>9. Mark(todo) = "invisible" => Turned(FALSE) /\ Mark(todo') = "rest"
  <2>1. Becomes([Now EXCEPT !.cursor.visible = FALSE]) => Turned(FALSE)
    BY DEF Becomes, Now, Turned
  <2>2. QED
    BY <2>1, CursorProceeds, AfterStep DEF CursorStep
<1>10. Mark(todo) = "save_to" => Saved(args) /\ Mark(todo') = "draw_to" /\ UNCHANGED args
  BY MoveProceeds, AfterStep, SaveIs
<1>11. Mark(todo) = "draw_to" => Drawn(args) /\ Mark(todo') = "place" /\ UNCHANGED args
  BY MoveProceeds, AfterStep, DrawIs
<1>12. Mark(todo) = "place" => Placed(args) /\ Mark(todo') = "rest"
  BY MoveProceeds, AfterStep, PlaceIs
<1>13. QED
  BY <1>4, <1>5, <1>6, <1>7, <1>8, <1>9, <1>10, <1>11, <1>12

(* Those that look at the cursor and decide. *)
LEMMA DecidedMarks ==
  /\ Mark(<< >> \o << >>) = "rest" /\ Mark(<<"save", "draw", "visible">> \o << >>) = "save"
  /\ Mark(<<"restore", "invisible">> \o << >>) = "restore" /\ Mark(<<"draw">> \o << >>) = "redraw"
  /\ Mark(<<"restore", "save_to", "draw_to", "place">> \o << >>) = "restore"
  /\ Mark(<<"place">> \o << >>) = "place"
<1>1. << >> \o << >> = << >>
  OBVIOUS
<1>2. <<"save", "draw", "visible">> \o << >> = <<"save", "draw", "visible">>
  OBVIOUS
<1>3. <<"restore", "invisible">> \o << >> = <<"restore", "invisible">>
  OBVIOUS
<1>4. <<"draw">> \o << >> = <<"draw">>
  OBVIOUS
<1>5. <<"restore", "save_to", "draw_to", "place">> \o << >> = <<"restore", "save_to", "draw_to", "place">>
  OBVIOUS
<1>6. <<"place">> \o << >> = <<"place">>
  OBVIOUS
<1>7. QED
  BY <1>1, <1>2, <1>3, <1>4, <1>5, <1>6, MarksOfLists

LEMMA DecidingEffects ==
  ASSUME IInv, Proceed, Mark(todo) \in DecidingMarks
  PROVE  /\ Mark(todo) # "type" => Same
         /\ Mark(todo) = "type" => cell' = cell /\ cursor' = [cursor EXCEPT !.type = args]
         /\ Mark(todo) = "show" => Mark(todo') = IF cursor.visible THEN "rest" ELSE "save"
         /\ Mark(todo) = "hide" => Mark(todo') = IF cursor.visible THEN "restore" ELSE "rest"
         /\ Mark(todo) = "type" => Mark(todo') = IF cursor.visible THEN "redraw" ELSE "rest"
         /\ Mark(todo) = "colors" => Mark(todo') = "rest" \/ (cursor.visible /\ Mark(todo') = "redraw")
         /\ Mark(todo) = "move" => Mark(todo') = IF cursor.visible THEN "restore" ELSE "place"
<1>1. Stage /\ todo # << >>
  BY DEF IInv, Proceed
<1>2. Step = Mark(todo) /\ Tail(todo) = << >>
  BY <1>1, EveryCourse DEF Course, Step, Follows, DecidingMarks, SizeMarks
<1> USE <1>2, DecidedMarks, NowIs
<1>3. Mark(todo) = "show" => Same /\ Mark(todo') = IF cursor.visible THEN "rest" ELSE "save"
  BY CursorProceeds DEF CursorStep, Then
<1>4. Mark(todo) = "hide" => Same /\ Mark(todo') = IF cursor.visible THEN "restore" ELSE "rest"
  BY CursorProceeds DEF CursorStep, Then
<1>5. Mark(todo) = "colors" => Same /\ (Mark(todo') = "rest" \/ (cursor.visible /\ Mark(todo') = "redraw"))
  BY CursorProceeds DEF CursorStep, Then
<1>6. Mark(todo) = "move" => Same /\ Mark(todo') = IF cursor.visible THEN "restore" ELSE "place"
  BY MoveProceeds DEF Then
<1>7. Mark(todo) = "type" => /\ cell' = cell /\ cursor' = [cursor EXCEPT !.type = args]
                            /\ Mark(todo') = IF cursor.visible THEN "redraw" ELSE "rest"
  <2>1. Becomes([Now EXCEPT !.cursor.type = args]) => cell' = cell /\ cursor' = [cursor EXCEPT !.type = args]
    BY DEF Becomes, Now
  <2>2. QED
    BY <2>1, CursorProceeds DEF CursorStep, Then
<1>8. QED
  BY <1>3, <1>4, <1>5, <1>6, <1>7 DEF DecidingMarks

-----------------------------------------------------------------------------
(* The sheet, as the stages of a call have it.  Shown: the text is there,  *)
(* or the cursor keeps it.  Exact: what is known of each stage of a call   *)
(* that no packet interrupted.                                             *)

Shown(c) == \/ cell[c] = text[c]
            \/ /\ Mark(todo) \notin Lifted /\ cursor.visible
               /\ c = Spotted /\ cursor.last = text[c]

Around(at) == \A c \in Cells \ spoilt : c # at => cell[c] = text[c]
Bare       == \A c \in Cells \ spoilt : cell[c] = text[c]
Sheet(at)  == Around(at) /\ (at \notin spoilt => cell[at] = Dress(cursor.type, text[at]))
Kept(at)   == at \notin spoilt => cursor.last = text[at]
Laid(at)   == /\ cursor.visible => Sheet(at) /\ Kept(at)
              /\ ~cursor.visible => Bare

Exact ==
    /\ Mark(todo) \in {"save_to", "invisible"} => Bare
    /\ Mark(todo) = "draw_to" => Bare /\ Kept(args)
    /\ Mark(todo) = "place" => Laid(args)
    /\ Mark(todo) = "draw" => Bare /\ Kept(Spotted)
    /\ Mark(todo) = "visible" => Sheet(Spotted) /\ Kept(Spotted)
    /\ Mark(todo) = "redraw" => Around(Spotted) /\ Kept(Spotted)
    /\ Mark(todo) \notin Special => Laid(Spotted)

Safe  == \A c \in Cells \ (touched \union spoilt) : Shown(c)
Fresh == todo = << >> => touched = {} /\ ~raced
Look  == /\ Mark(todo) \in Unseen => ~cursor.visible
         /\ Mark(todo) \in Seen => cursor.visible
Texts == text \in [Cells -> Character]

SheetInv == IInv /\ Texts /\ Safe /\ Fresh /\ Look /\ (raced \/ Exact)

LEMMA RestIsMarked ==
  ASSUME Stage
  PROVE  todo = << >> <=> Mark(todo) = "rest"
  BY EveryCourse, MarksOfLists DEF Course

(* The marks there are. *)
LEMMA MarkOfStep ==
  ASSUME Stage, Proceed
  PROVE  Mark(todo) \in SizeMarks \union DecidingMarks
            \union {"init", "restore", "save", "draw", "redraw", "visible", "invisible",
                    "save_to", "draw_to", "place"}
  BY EveryCourse DEF Course, Follows, Proceed

(* The steps of cursor_move have their target. *)
LEMMA MoveTarget ==
  ASSUME IInv, Mark(todo) \in {"save_to", "draw_to", "place"}
  PROVE  args \in Cells
<1>1. todo \notin AtHandler \union AtWidth \union AtHeight \union AtX \union AtY
  BY SizingMarked
<1>2. todo \notin Resized \union Showing \union {<<"type">>}
  BY MarksOfLists DEF Resized, Rests, Showing
<1>3. args \in Screen(mouse.width, mouse.height)
  BY <1>1, <1>2 DEF IInv, Stage
<1>4. mouse.width \in Widths /\ mouse.height \in Heights
  BY DEF IInv, TypeOK
<1>5. QED
  BY <1>3, <1>4, ScreenIsCells

LEMMA LookProceeds ==
  ASSUME IInv, Look, Proceed
  PROVE  Look'
<1>1. cursor \in Cursor /\ Stage
  BY DEF IInv, TypeOK, Cursor
<1> USE <1>1 DEF Look, Unseen, Seen
<1>2. CASE Mark(todo) \in SizeMarks
  BY <1>2, SizeEffect DEF Same, SizeMarks
<1>3. CASE Mark(todo) = "init"
  BY <1>3, InitEffect
<1>4. CASE Mark(todo) \in DecidingMarks
  BY <1>4, DecidingEffects DEF Same, Cursor, DecidingMarks
<1>5. CASE Mark(todo) \in {"restore", "save", "draw", "redraw"}
  BY <1>5, CursorEffects DEF Restored, Saved, Drawn, Cursor
<1>6. CASE Mark(todo) \in {"visible", "invisible", "save_to", "draw_to", "place"}
  BY <1>6, CursorEffects DEF Saved, Drawn, Turned, Placed, Cursor
<1>7. QED
  BY <1>2, <1>3, <1>4, <1>5, <1>6, MarkOfStep

(* A cell that a step leaves alone stays shown. *)
LEMMA ShownProceeds ==
  ASSUME IInv, Look, Proceed, NEW c \in Cells, Shown(c), cell'[c] = cell[c],
         ~(Mark(todo) = "init" /\ cursor.visible /\ c = Spotted)
  PROVE  Shown(c)'
<1>1. cursor \in Cursor /\ cell \in [Cells -> Character] /\ Stage /\ text' = text
  BY DEF IInv, TypeOK, Cursor, Proceed
<1>2. CASE cell[c] = text[c]
  BY <1>1, <1>2 DEF Shown
<1>3. CASE cell[c] # text[c]
  <2>1. Mark(todo) \notin Lifted /\ cursor.visible /\ c = Spotted /\ cursor.last = text[c]
    BY <1>3 DEF Shown
  <2>2. Mark(todo) \notin Unseen
    BY <2>1 DEF Look
  <2>3. CASE Mark(todo) \in SizeMarks
    BY <1>1, <2>1, <2>3, SizeEffect DEF Same, SizeMarks, Shown, Lifted, Spotted
  <2>4. CASE Mark(todo) \in DecidingMarks
    BY <1>1, <2>1, <2>4, DecidingEffects DEF Same, Cursor, DecidingMarks, Shown, Lifted, Spotted
  <2>5. CASE Mark(todo) = "restore"
    BY <1>1, <2>1, <2>5, CursorEffects DEF Restored, Shown
  <2>6. CASE Mark(todo) = "redraw"
    BY <1>1, <2>1, <2>6, CursorEffects DEF Drawn, Shown, Spotted, Lifted
  <2>7. QED
    BY <2>1, <2>2, <2>3, <2>4, <2>5, <2>6, MarkOfStep, <1>1 DEF Lifted, Unseen
<1>4. QED
  BY <1>2, <1>3

LeftBehind == IF Mark(todo) = "init" /\ cursor.visible THEN {Spotted} ELSE {}

LEMMA ExactProceeds ==
  ASSUME IInv, Texts, Look, Exact, Proceed, spoilt' = spoilt \union LeftBehind
  PROVE  Exact'
<1>1. cursor \in Cursor /\ cell \in [Cells -> Character] /\ Stage /\ text' = text
  BY DEF IInv, TypeOK, Cursor, Proceed
<1>2. Spotted \in Cells
  BY <1>1 DEF Cursor, Spotted
<1>3. Mark(todo) # "init" => spoilt' = spoilt
  BY DEF LeftBehind
<1>4. CASE Mark(todo) \in SizeMarks
  <2>1. Laid(Spotted)
    BY <1>4 DEF Exact, Special, Lifted, SizeMarks
  <2>2. Laid(Spotted)'
    BY <1>1, <1>3, <1>4, <2>1, SizeEffect DEF Same, SizeMarks, Laid, Sheet, Around, Kept, Bare, Spotted
  <2>3. QED
    BY <1>1, <1>4, <2>2, SizeEffect DEF Exact, SizeMarks
<1>5. CASE Mark(todo) = "init"
  <2>1. Laid(Spotted)
    BY <1>5 DEF Exact, Special, Lifted
  <2>2. Bare'
    BY <1>1, <1>5, <2>1, InitEffect DEF Laid, Bare, Sheet, Around, LeftBehind
  <2>3. QED
    BY <1>5, <2>2, InitEffect DEF Exact, Laid
<1>6. CASE Mark(todo) \in {"show", "hide", "move", "colors"}
  <2>1. Laid(Spotted)
    BY <1>6 DEF Exact, Special, Lifted
  <2>2. Laid(Spotted)' /\ UNCHANGED <<cursor, cell, text, spoilt>>
    BY <1>1, <1>3, <1>6, <2>1, DecidingEffects DEF Same, DecidingMarks, Laid, Sheet, Around, Kept, Bare, Spotted
  <2>3. ~cursor.visible => Laid(args)'
    BY <1>1, <2>1, <2>2 DEF Laid, Bare
  <2>4. cursor.visible => (Around(Spotted) /\ Kept(Spotted))'
    BY <2>2 DEF Laid, Sheet
  <2>5. QED
    BY <1>1, <1>6, <2>2, <2>3, <2>4, DecidingEffects DEF Exact, DecidingMarks
<1>7. CASE Mark(todo) = "type"
  <2>1. Laid(Spotted)
    BY <1>7 DEF Exact, Special, Lifted
  <2>2. /\ cell' = cell /\ cursor'.last = cursor.last /\ cursor'.visible = cursor.visible
        /\ Spotted' = Spotted /\ spoilt' = spoilt
        /\ Mark(todo') = IF cursor.visible THEN "redraw" ELSE "rest"
    BY <1>1, <1>3, <1>7, DecidingEffects DEF DecidingMarks, Cursor, Spotted
  <2>3. cursor.visible => (Around(Spotted) /\ Kept(Spotted))'
    BY <1>1, <2>1, <2>2 DEF Laid, Sheet, Around, Kept
  <2>4. ~cursor.visible => Laid(Spotted)'
    BY <1>1, <2>1, <2>2 DEF Laid, Bare
  <2>5. QED
    BY <2>2, <2>3, <2>4 DEF Exact, Special, Lifted
<1>8. CASE Mark(todo) = "restore"
  <2>1. Laid(Spotted) /\ cursor.visible
    BY <1>8 DEF Exact, Special, Lifted, Look, Seen
  <2>2. Bare'
    BY <1>1, <1>2, <1>3, <1>8, <2>1, CursorEffects DEF Restored, Laid, Sheet, Around, Kept, Bare
  <2>3. QED
    BY <1>8, <2>2, CursorEffects DEF Exact, Special, Lifted
<1>9. CASE Mark(todo) = "save"
  <2>1. Laid(Spotted) /\ ~cursor.visible
    BY <1>9 DEF Exact, Special, Lifted, Look, Unseen
  <2>2. Bare
    BY <2>1 DEF Laid
  <2>3. /\ cell' = cell /\ cursor'.last = cell[Spotted] /\ ~cursor'.visible
        /\ Spotted' = Spotted /\ spoilt' = spoilt
    BY <1>1, <1>3, <1>9, <2>1, CursorEffects DEF Saved, Cursor, Spotted
  <2>4. Bare' /\ Kept(Spotted)' /\ Laid(Spotted)'
    BY <1>1, <1>2, <2>2, <2>3 DEF Bare, Kept, Laid
  <2>5. QED
    BY <1>9, <2>4, CursorEffects DEF Exact, Special, Lifted
<1>10. CASE Mark(todo) \in {"draw", "redraw"}
  <2>1. Around(Spotted) /\ Kept(Spotted)
    BY <1>10 DEF Exact, Bare, Around
  <2>2. Drawn(Spotted) /\ spoilt' = spoilt /\ Spotted' = Spotted
    BY <1>3, <1>10, CursorEffects DEF Drawn, Spotted
  <2>3. Sheet(Spotted)' /\ Kept(Spotted)'
    BY <1>1, <1>2, <2>1, <2>2 DEF Drawn, Sheet, Around, Kept
  <2>4. CASE Mark(todo) = "draw"
    BY <2>3, <2>4, CursorEffects DEF Exact, Special, Lifted
  <2>5. CASE Mark(todo) = "redraw"
    <3>1. cursor'.visible
      BY <2>2, <2>5 DEF Look, Seen, Drawn
    <3>2. Laid(Spotted)'
      BY <2>3, <3>1 DEF Laid
    <3>3. QED
      BY <2>5, <3>2, CursorEffects DEF Exact, Special, Lifted
  <2>6. QED
    BY <1>10, <2>4, <2>5
<1>11. CASE Mark(todo) = "visible"
  <2>1. Sheet(Spotted) /\ Kept(Spotted)
    BY <1>11 DEF Exact
  <2>2. /\ cell' = cell /\ cursor'.last = cursor.last /\ cursor'.type = cursor.type
        /\ cursor'.visible /\ Spotted' = Spotted /\ spoilt' = spoilt
    BY <1>1, <1>3, <1>11, CursorEffects DEF Turned, Cursor, Spotted
  <2>3. Laid(Spotted)'
    BY <1>1, <2>1, <2>2 DEF Laid, Sheet, Around, Kept
  <2>4. QED
    BY <1>11, <2>3, CursorEffects DEF Exact, Special, Lifted
<1>12. CASE Mark(todo) = "invisible"
  <2>1. Bare
    BY <1>12 DEF Exact
  <2>2. cell' = cell /\ ~cursor'.visible /\ spoilt' = spoilt
    BY <1>1, <1>3, <1>12, CursorEffects DEF Turned, Cursor
  <2>3. Laid(Spotted)'
    BY <1>1, <2>1, <2>2 DEF Laid, Bare
  <2>4. QED
    BY <1>12, <2>3, CursorEffects DEF Exact, Special, Lifted
<1>13. args \in Cells \/ Mark(todo) \notin {"save_to", "draw_to", "place"}
  BY <1>1, MoveTarget
<1>14. CASE Mark(todo) = "save_to" /\ args \in Cells
  <2>1. Bare
    BY <1>14 DEF Exact
  <2>2. cell' = cell /\ cursor'.last = cell[args] /\ spoilt' = spoilt /\ args' = args
    BY <1>1, <1>3, <1>14, CursorEffects DEF Saved, Cursor
  <2>3. Bare' /\ Kept(args)'
    BY <1>1, <1>14, <2>1, <2>2 DEF Bare, Kept
  <2>4. QED
    BY <1>14, <2>3, CursorEffects DEF Exact, Special, Lifted
<1>15. CASE Mark(todo) = "draw_to" /\ args \in Cells
  <2>1. Bare /\ Kept(args) /\ cursor.visible
    BY <1>15 DEF Exact, Look, Seen
  <2>2. Drawn(args) /\ spoilt' = spoilt /\ args' = args
    BY <1>3, <1>15, CursorEffects
  <2>3. Laid(args)'
    BY <1>1, <1>15, <2>1, <2>2 DEF Drawn, Laid, Sheet, Around, Kept, Bare
  <2>4. QED
    BY <1>15, <2>3, CursorEffects DEF Exact, Special, Lifted
<1>16. CASE Mark(todo) = "place" /\ args \in Cells
  <2>1. Laid(args)
    BY <1>16 DEF Exact
  <2>2. /\ cell' = cell /\ cursor'.last = cursor.last /\ cursor'.type = cursor.type
        /\ cursor'.visible = cursor.visible /\ Spotted' = args /\ spoilt' = spoilt
    BY <1>1, <1>3, <1>16, CursorEffects DEF Placed, Cursor, Spotted
  <2>3. Laid(Spotted)'
    BY <1>1, <2>1, <2>2 DEF Laid, Sheet, Around, Kept, Bare
  <2>4. QED
    BY <1>16, <2>3, CursorEffects DEF Exact, Special, Lifted
<1>17. QED
  BY <1>4, <1>5, <1>6, <1>7, <1>8, <1>9, <1>10, <1>11, <1>12, <1>13, <1>14, <1>15, <1>16,
     <1>1, MarkOfStep DEF DecidingMarks

(* Where a call is not under way, every cell is shown if the sheet lies.   *)
LEMMA LaidIsSafe ==
  ASSUME Mark(todo') = "rest", Laid(Spotted)', NEW c \in Cells, c \notin spoilt'
  PROVE  Shown(c)'
  BY DEF Laid, Sheet, Around, Bare, Kept, Shown, Lifted

(* The inductive invariant is kept by a step of a call, by a packet, by    *)
(* the beginning of a call and by a character.                             *)
LEMMA ProceedSheetInv ==
  ASSUME SheetInv, Proceed
  PROVE  SheetInv'
<1> DEFINE t == touched \union {c \in Cells : cell'[c] # cell[c]}
<1>1. IInv'
  BY ProceedStep DEF SheetInv
<1>2. Texts' /\ text' = text
  BY DEF SheetInv, Texts, Proceed
<1>3. Look'
  BY LookProceeds DEF SheetInv
<1>4. LeftBehind = IF Step = "init" /\ cursor.visible THEN {Spot(Now)} ELSE {}
  <2>1. Step = "init" <=> Mark(todo) = "init"
    BY StepIsMark DEF SheetInv, IInv, Proceed
  <2>2. QED
    BY <2>1, NowIs DEF LeftBehind
<1>5. \A c \in Cells : c \notin t /\ c \notin spoilt /\ c \notin LeftBehind => Shown(c)'
  <2> SUFFICES ASSUME NEW c \in Cells, c \notin t, c \notin spoilt, c \notin LeftBehind
               PROVE  Shown(c)'
    OBVIOUS
  <2>1. Shown(c) /\ cell'[c] = cell[c]
    BY DEF SheetInv, Safe
  <2>2. ~(Mark(todo) = "init" /\ cursor.visible /\ c = Spotted)
    BY DEF LeftBehind
  <2>3. QED
    BY <2>1, <2>2, ShownProceeds DEF SheetInv
<1>6. ~raced => spoilt' = spoilt \union LeftBehind
  BY <1>4 DEF Proceed
<1>7. ~raced => Exact'
  BY <1>6, ExactProceeds DEF SheetInv
<1>8. CASE todo' # << >>
  <2>1. touched' = t /\ raced' = raced /\ spoilt' = spoilt \union LeftBehind
    BY <1>4, <1>8 DEF Proceed
  <2> HIDE DEF t
  <2>2. Safe'
    BY <1>5, <2>1 DEF Safe
  <2>3. QED
    BY <1>1, <1>2, <1>3, <1>7, <1>8, <2>1, <2>2 DEF SheetInv, Fresh
<1>9. CASE todo' = << >>
  <2>1. touched' = {} /\ raced' = FALSE
    BY <1>9 DEF Proceed
  <2>2. Mark(todo') = "rest"
    BY <1>9, MarksOfLists
  <2>3. Laid(Spotted)'
    <3>1. CASE ~raced
      BY <1>7, <2>2, <3>1 DEF Exact, Special, Lifted
    <3>2. CASE raced
      <4>1. spoilt' = spoilt \union LeftBehind \union (t \union {Spotted'})
        BY <1>4, <1>9, <3>2 DEF Proceed, Spotted
      <4> HIDE DEF t
      <4>2. \A c \in Cells \ spoilt' : Shown(c)' /\ c # Spotted'
        BY <1>5, <4>1
      <4>3. Bare' /\ Spotted' \in spoilt'
        BY <4>1, <4>2 DEF Bare, Shown
      <4>4. QED
        BY <4>3 DEF Laid, Sheet, Around, Kept, Bare
    <3>3. QED
      BY <3>1, <3>2
  <2>4. Safe'
    BY <2>1, <2>2, <2>3, LaidIsSafe DEF Safe
  <2>5. Exact'
    BY <2>2, <2>3 DEF Exact
  <2>6. QED
    BY <1>1, <1>2, <1>3, <2>1, <2>4, <2>5 DEF SheetInv, Fresh
<1>10. QED
  BY <1>8, <1>9

-----------------------------------------------------------------------------
(* A packet: the handler's cursor_move. *)

Bared == [cell EXCEPT ![Spotted] = cursor.last]
MovedTo(at) ==
    /\ cursor.visible =>
         /\ cursor'.visible /\ Spotted' = at /\ cursor'.type = cursor.type
         /\ cursor'.last = Bared[at]
         /\ cell' = [Bared EXCEPT ![at] = Dress(cursor.type, Bared[at])]
    /\ ~cursor.visible => ~cursor'.visible /\ cell' = cell

LEMMA MoveEffect ==
  ASSUME cursor \in Cursor, cell \in [Cells -> Character], NEW s \in State, NEW at \in Cells,
         s.cursor = cursor, s.cell = cell, Becomes(cursor_move(s, at))
  PROVE  MovedTo(at)
<1>1. CASE cursor.visible
  <2> DEFINE r == Restore(s)
             v == Save(r, at)
             d == Draw(v, at)
  <2>1. r \in State /\ r.cursor = cursor /\ r.cell = Bared
    BY RestoreType DEF Restore, Spot, Spotted, Bared, State
  <2> HIDE DEF r
  <2>2. v \in State /\ v.cell = Bared /\ v.cursor = [cursor EXCEPT !.last = Bared[at]]
    BY <2>1, SaveType DEF Save, State
  <2> HIDE DEF v
  <2>3. v.cursor.last = Bared[at] /\ v.cursor.type = cursor.type /\ v.cursor.visible
    BY <1>1, <2>2 DEF Cursor
  <2>4. v.cursor \in Cursor
    BY <2>2 DEF State
  <2>5. /\ d \in State /\ d.cursor = v.cursor
        /\ d.cell = [Bared EXCEPT ![at] = Dress(cursor.type, Bared[at])]
    <3>1. Face(v.cursor) = Dress(cursor.type, Bared[at])
      BY <2>3, <2>4, FaceIsDress
    <3>2. QED
      BY <2>2, <3>1, DrawType DEF Draw, State
  <2> HIDE DEF d
  <2>6. cursor_move(s, at) = Place(d, at)
    BY <1>1 DEF cursor_move, d, v, r
  <2>7. Place(d, at).cell = d.cell /\ Place(d, at).cursor = [v.cursor EXCEPT !.at = at]
    BY <2>5 DEF Place, State
  <2>8. cursor' = [v.cursor EXCEPT !.at = at] /\ cell' = d.cell
    BY <2>6, <2>7 DEF Becomes
  <2>9. cursor'.at = at /\ cursor'.last = Bared[at]
        /\ cursor'.type = cursor.type /\ cursor'.visible
    BY <2>3, <2>4, <2>8 DEF Cursor
  <2>10. QED
    BY <1>1, <2>5, <2>8, <2>9 DEF MovedTo, Spotted
<1>2. CASE ~cursor.visible
  <2>1. cursor_move(s, at) = Place(s, at)
    BY <1>2 DEF cursor_move
  <2>2. Place(s, at).cell = cell /\ Place(s, at).cursor = [cursor EXCEPT !.at = at]
    BY DEF Place, State
  <2>3. QED
    BY <1>2, <2>1, <2>2 DEF Becomes, MovedTo, Cursor
<1>3. QED
  BY <1>1, <1>2

LEMMA LengthBeforeThird ==
  ASSUME NEW s \in Seq(Bytes), NEW b \in Bytes, Len(Append(s, b)) = 3
  PROVE  Len(s) = 2
<1>1. Len(s) \in Nat /\ Len(s) + 1 = 3
  BY AppendProperties
<1>2. \A n \in Nat : n + 1 = 3 => n = 2
  OBVIOUS
<1>3. QED
  BY <1>1, <1>2

LEMMA PacketEffect ==
  ASSUME IInv, NEW b \in Bytes, isr_mouse(b)
  PROVE  Same \/ (Completes /\ \E at \in Cells : MovedTo(at))
<1> DEFINE got == Append(mouse.buffer, b)
           now == mouse_handle_data(Now, b)
<1>1. cursor \in Cursor /\ cell \in [Cells -> Character] /\ Now \in State /\ mouse \in Mouse
  BY NowType DEF IInv, TypeOK, Cursor, Mouse, XPositions, YPositions
<1>2. CASE ~mouse.handler
  BY <1>2, NowIs DEF isr_mouse
<1>3. CASE mouse.handler
  <2>1. Becomes(now)
    BY <1>3 DEF isr_mouse
  <2>2. mouse.buffer \in Seq(Bytes) /\ Len(mouse.buffer) < 3 /\ Now.mouse = mouse
    BY <1>1 DEF Mouse, Now
  <2>3. got \in Seq(Bytes) /\ Len(got) = Len(mouse.buffer) + 1 /\ Len(got) \in 1 .. 3
    BY <2>2
  <2>4. CASE Len(got) < 3
    <3>1. now = [Now EXCEPT !.mouse.buffer = got]
      BY <2>2, <2>4 DEF mouse_handle_data
    <3>2. QED
      BY <2>1, <3>1 DEF Becomes, Now, Same
  <2>5. CASE Len(got) = 3 /\ ~got[1].bit3
    <3>1. now = [Now EXCEPT !.mouse.buffer = << >>]
      BY <2>2, <2>5 DEF mouse_handle_data
    <3>2. QED
      BY <2>1, <3>1 DEF Becomes, Now, Same
  <2>6. CASE Len(got) = 3 /\ got[1].bit3
    <3> DEFINE v == Moved(mouse, got[2].delta, got[3].delta)
               m == [v EXCEPT !.buffer = << >>]
               s == [Now EXCEPT !.mouse = m]
    <3>1. got[2].delta \in Int /\ got[3].delta \in Int
      <4>1. got[2] \in Bytes /\ got[3] \in Bytes
        BY <2>3, <2>6
      <4>2. QED
        BY <4>1, Units
    <3>2. v \in Mouse /\ Inside(v)
      BY <1>1, <3>1, MovedType
    <3>3. m \in Mouse /\ Inside(m)
      <4>1. << >> \in {q \in Seq(Bytes) : Len(q) < 3}
        OBVIOUS
      <4>2. QED
        <5> HIDE DEF v
        <5>1. QED
          BY <3>2, <4>1 DEF Mouse, Inside
    <3>4. now = cursor_move(s, At(m))
      BY <2>2, <2>6 DEF mouse_handle_data
    <3> HIDE DEF m
    <3>5. s \in State /\ s.cursor = cursor /\ s.cell = cell
      BY <1>1, <3>3 DEF State, Now
    <3> HIDE DEF s, now
    <3>6. At(m) \in Cells
      BY <3>3, AtIsACell
    <3>7. MovedTo(At(m))
      BY <1>1, <2>1, <3>4, <3>5, <3>6, MoveEffect
    <3>8. Len(mouse.buffer) = 2 /\ got[1] = mouse.buffer[1]
      <4>1. Len(mouse.buffer) = 2
        BY <2>2, <2>6, LengthBeforeThird
      <4>2. QED
        BY <2>2, <4>1, AppendProperties
    <3>9. QED
      BY <1>3, <2>6, <3>6, <3>7, <3>8 DEF Completes
  <2>7. QED
    BY <2>3, <2>4, <2>5, <2>6
<1>4. QED
  BY <1>2, <1>3

LEMMA PacketShows ==
  ASSUME IInv, NEW at \in Cells, MovedTo(at), UNCHANGED <<todo, text>>,
         NEW c \in Cells, Shown(c), cell'[c] = cell[c]
  PROVE  Shown(c)'
<1>1. cell \in [Cells -> Character] /\ cursor \in Cursor
  BY DEF IInv, TypeOK, Cursor
<1>2. CASE cell[c] = text[c]
  BY <1>2 DEF Shown
<1>3. CASE cell[c] # text[c]
  <2>1. Mark(todo) \notin Lifted /\ cursor.visible /\ c = Spotted /\ cursor.last = text[c]
    BY <1>3 DEF Shown
  <2>2. Bared[c] = text[c]
    BY <1>1, <2>1 DEF Bared
  <2>3. CASE at = c
    BY <2>1, <2>2, <2>3 DEF MovedTo, Shown
  <2>4. CASE at # c
    <3>1. cell'[c] = Bared[c]
      BY <1>1, <2>1, <2>4 DEF MovedTo, Bared
    <3>2. QED
      BY <2>2, <3>1 DEF Shown
  <2>5. QED
    BY <2>3, <2>4
<1>4. QED
  BY <1>2, <1>3

LEMMA PacketLays ==
  ASSUME IInv, NEW at \in Cells, MovedTo(at), UNCHANGED <<text, spoilt>>, Laid(Spotted)
  PROVE  Laid(Spotted)'
<1>1. cell \in [Cells -> Character] /\ cursor \in Cursor
  BY DEF IInv, TypeOK, Cursor
<1>2. Spotted \in Cells
  BY <1>1 DEF Cursor, Spotted
<1>3. CASE ~cursor.visible
  BY <1>3 DEF MovedTo, Laid, Bare
<1>4. CASE cursor.visible
  <2>1. \A c \in Cells \ spoilt : Bared[c] = text[c]
    BY <1>1, <1>2, <1>4 DEF Laid, Sheet, Around, Kept, Bared
  <2>2. DOMAIN Bared = Cells
    BY <1>1 DEF Bared
  <2>3. /\ cursor'.visible /\ Spotted' = at /\ cursor'.type = cursor.type /\ cursor'.last = Bared[at]
        /\ cell' = [Bared EXCEPT ![at] = Dress(cursor.type, Bared[at])]
    BY <1>4 DEF MovedTo
  <2>4. cell'[at] = Dress(cursor.type, Bared[at]) /\ \A c \in Cells : c # at => cell'[c] = Bared[c]
    BY <1>1, <2>2, <2>3 DEF Bared
  <2>5. QED
    BY <2>1, <2>3, <2>4 DEF Laid, Sheet, Around, Kept
<1>5. QED
  BY <1>3, <1>4

LEMMA PacketSheetInv ==
  ASSUME SheetInv, NEW b \in Bytes, isr_mouse(b)
  PROVE  SheetInv'
<1>1. IInv'
  BY PacketStep DEF SheetInv
<1>2. UNCHANGED <<todo, args, text, spoilt>> /\ Texts'
  BY DEF isr_mouse, SheetInv, Texts
<1>3. /\ todo = << >> => UNCHANGED <<touched, raced>>
      /\ todo # << >> => /\ touched' = touched \union {c \in Cells : cell'[c] # cell[c]}
                         /\ raced' = (raced \/ Completes)
  BY DEF isr_mouse, Becomes, Changed
<1>4. CASE Same
  <2>1. Look' /\ Fresh'
    BY <1>2, <1>3, <1>4 DEF Same, SheetInv, Look, Fresh
  <2>2. Exact => Exact'
    BY <1>2, <1>4 DEF Same, Exact, Bare, Kept, Laid, Sheet, Around, Spotted
  <2>3. Safe'
    BY <1>2, <1>3, <1>4 DEF Same, SheetInv, Safe, Shown, Spotted
  <2>4. (raced \/ Exact)'
    <3>1. raced => raced'
      BY <1>3
    <3>2. raced \/ Exact
      BY DEF SheetInv
    <3>3. QED
      BY <2>2, <3>1, <3>2
  <2>5. QED
    BY <1>1, <1>2, <2>1, <2>3, <2>4 DEF SheetInv
<1>5. ASSUME Completes, NEW at \in Cells, MovedTo(at) PROVE SheetInv'
  <2>1. Look' /\ Fresh'
    BY <1>2, <1>3, <1>5 DEF MovedTo, SheetInv, Look, Fresh
  <2>2. CASE todo = << >>
    <3>1. Mark(todo) = "rest" /\ ~raced /\ Exact /\ touched = {}
      BY <2>2, MarksOfLists DEF SheetInv, Fresh
    <3>2. Laid(Spotted)
      BY <3>1 DEF Exact, Special, Lifted
    <3>3. Laid(Spotted)'
      BY <1>2, <1>5, <3>2, PacketLays DEF SheetInv
    <3>4. Mark(todo') = "rest"
      BY <1>2, <3>1
    <3>5. Exact'
      BY <3>3, <3>4 DEF Exact
    <3>6. Safe'
      BY <3>3, <3>4, LaidIsSafe DEF Safe
    <3>7. QED
      BY <1>1, <1>2, <2>1, <3>5, <3>6 DEF SheetInv
  <2>3. CASE todo # << >>
    <3>1. raced'
      BY <1>3, <1>5, <2>3
    <3>2. \A c \in Cells : c \notin touched' /\ c \notin spoilt' => cell'[c] = cell[c] /\ Shown(c)
      BY <1>2, <1>3, <2>3 DEF SheetInv, Safe
    <3>3. Safe'
      BY <1>2, <1>5, <3>2, PacketShows DEF SheetInv, Safe
    <3>4. QED
      BY <1>1, <1>2, <2>1, <3>1, <3>3 DEF SheetInv
  <2>4. QED
    BY <2>2, <2>3
<1>6. QED
  BY <1>4, <1>5, PacketEffect DEF SheetInv

-----------------------------------------------------------------------------
(* The main program's calls and characters. *)

LEMMA CallSheetInv ==
  ASSUME SheetInv, NEW steps, NEW a, Call(steps, a),
         \/ steps \in AtHandler \union AtWidth
         \/ steps \in {<<"show">>, <<"hide">>, <<"type">>, <<"colors">>},
         IInv'
  PROVE  SheetInv'
<1>1. UNCHANGED <<mouse, cursor, cell, text, touched, raced, spoilt>> /\ todo' = steps /\ todo = << >>
  BY DEF Call
<1>2. Mark(todo') \in {"handler", "width", "show", "hide", "type", "colors"}
  BY <1>1, SizingMarked, MarksOfLists
<1>3. Laid(Spotted) /\ touched = {} /\ ~raced
  BY <1>1, MarksOfLists DEF SheetInv, Fresh, Exact, Special, Lifted
<1>4. Laid(Spotted)'
  BY <1>1, <1>3 DEF Laid, Sheet, Around, Kept, Bare, Spotted
<1>5. Exact' /\ Look'
  BY <1>2, <1>4 DEF Exact, Look, Special, Lifted, Unseen, Seen
<1>6. Safe'
  BY <1>1, <1>2, <1>3, MarksOfLists DEF SheetInv, Safe, Shown, Lifted, Spotted
<1>7. Fresh' /\ Texts'
  BY <1>1, <1>3 DEF SheetInv, Fresh, Texts
<1>8. QED
  BY <1>5, <1>6, <1>7 DEF SheetInv

LEMMA WriteSheetInv ==
  ASSUME SheetInv, Write
  PROVE  SheetInv'
<1>1. IInv'
  BY WriteStep DEF SheetInv
<1>2. cell \in [Cells -> Character] /\ text \in [Cells -> Character]
  BY DEF SheetInv, IInv, TypeOK, Texts
<1> DEFINE new == [ch |-> "new", attr |-> Normal]
<1>3. PICK at \in Cells :
         /\ cell' = [cell EXCEPT ![at] = new] /\ text' = [text EXCEPT ![at] = new]
         /\ spoilt' = IF cursor.visible /\ at = Spot(Now) THEN spoilt \union {at} ELSE spoilt \ {at}
  BY ScreenIsCells DEF Write
<1>4. new \in Character
  BY DEF Character, Normal
<1> HIDE DEF new
<1>5. UNCHANGED <<mouse, cursor, todo, args, touched, raced>> /\ todo = << >> /\ Spot(Now) = Spotted
      /\ Spotted' = Spotted
  BY NowIs DEF Write, Spotted
<1>6. Mark(todo') = "rest" /\ Mark(todo) = "rest"
  BY <1>5, MarksOfLists
<1>7. Laid(Spotted) /\ touched = {} /\ ~raced
  BY <1>5, <1>6 DEF SheetInv, Fresh, Exact, Special, Lifted
<1>8. /\ cell'[at] = new /\ text'[at] = new
      /\ \A c \in Cells : c # at => cell'[c] = cell[c] /\ text'[c] = text[c]
  BY <1>2, <1>3
<1>9. Laid(Spotted)'
  <2>1. CASE ~cursor.visible
    <3>1. Bare'
      BY <1>3, <1>7, <1>8, <2>1 DEF Laid, Bare
    <3>2. QED
      BY <1>5, <2>1, <3>1 DEF Laid
  <2>2. CASE cursor.visible
    <3>1. Sheet(Spotted) /\ Kept(Spotted) /\ Spotted \in Cells
      BY <1>7, <2>2 DEF Laid, SheetInv, IInv, TypeOK, Spotted
    <3>2. Around(Spotted)'
      BY <1>3, <1>5, <1>8, <3>1 DEF Sheet, Around
    <3>3. at # Spotted => spoilt' = spoilt \ {at}
      BY <1>3, <1>5
    <3>4. at = Spotted => Spotted \in spoilt'
      BY <1>3, <1>5, <2>2
    <3>5. Sheet(Spotted)' /\ Kept(Spotted)'
      BY <1>5, <1>8, <3>1, <3>2, <3>3, <3>4 DEF Sheet, Kept
    <3>6. QED
      BY <1>5, <2>2, <3>5 DEF Laid
  <2>3. QED
    BY <2>1, <2>2
<1>10. Exact' /\ Safe'
  BY <1>6, <1>9, LaidIsSafe DEF Exact, Safe
<1>11. Look' /\ Fresh' /\ Texts'
  BY <1>2, <1>3, <1>4, <1>5, <1>6, <1>7 DEF Look, Unseen, Seen, Fresh, Texts
<1>12. QED
  BY <1>1, <1>10, <1>11 DEF SheetInv

LEMMA MainSheetInv ==
  ASSUME SheetInv, PointerMain
  PROVE  SheetInv'
<1>1. IInv'
  BY MainStep DEF SheetInv
<1>2. CASE mouse_init
  BY <1>1, <1>2, CallSheetInv, CallsBegin DEF mouse_init
<1>3. CASE mouse_set_screen_size
  BY <1>1, <1>3, CallSheetInv, CallsBegin DEF mouse_set_screen_size
<1>4. CASE cursor_show
  BY <1>1, <1>4, CallSheetInv DEF cursor_show, ShowSteps
<1>5. CASE cursor_hide
  BY <1>1, <1>5, CallSheetInv DEF cursor_hide
<1>6. CASE cursor_set_type
  BY <1>1, <1>6, CallSheetInv DEF cursor_set_type
<1>7. CASE cursor_set_colors
  BY <1>1, <1>7, CallSheetInv DEF cursor_set_colors
<1>8. CASE Write
  BY <1>8, WriteSheetInv
<1>9. QED
  BY <1>2, <1>3, <1>4, <1>5, <1>6, <1>7, <1>8 DEF PointerMain

LEMMA InitSheetInv == PointerInit => SheetInv
<1> SUFFICES ASSUME PointerInit PROVE SheetInv
  OBVIOUS
<1>1. IInv
  BY InitIInv
<1>2. text = cell /\ todo = << >> /\ touched = {} /\ raced = FALSE /\ ~cursor.visible
  BY DEF PointerInit
<1>3. Mark(todo) = "rest"
  BY <1>2, MarksOfLists
<1>4. Laid(Spotted)
  BY <1>2 DEF Laid, Bare
<1>5. Exact /\ Look
  BY <1>3, <1>4 DEF Exact, Look, Unseen, Seen
<1>6. Safe /\ Fresh /\ Texts
  BY <1>1, <1>2 DEF Safe, Shown, Fresh, Texts, IInv, TypeOK
<1>7. QED
  BY <1>1, <1>5, <1>6 DEF SheetInv

LEMMA NextSheetInv == SheetInv /\ [(\E b \in Bytes : isr_mouse(b)) \/ PointerMain \/ Proceed]_pointer_vars => SheetInv'
<1>1. ASSUME SheetInv, UNCHANGED pointer_vars PROVE SheetInv'
  BY <1>1 DEF SheetInv, IInv, TypeOK, Stage, Sizing, OnX, OnY, OnScreen, pointer_vars, Texts, Safe, Shown, Fresh,
              Look, Exact, Laid, Sheet, Around, Bare, Kept, Spotted
<1>2. QED
  BY <1>1, PacketSheetInv, MainSheetInv, ProceedSheetInv

(* Between two calls of the main program every cell of the text shows      *)
(* what was written to it, and the cell under a shown cursor what was      *)
(* written in the cursor's colours or shape, but for the cells the cursor  *)
(* is known to have damaged (Proceed and Write say when): drivers/cursor.c *)
(* and the mouse's interrupt, whatever packets come between whatever       *)
(* accesses of mouse_init, mouse_set_screen_size, cursor_show,             *)
(* cursor_hide, cursor_set_type and cursor_set_colors.                     *)
THEOREM TextShowsThroughCursor == PointerSpec => []CursorIsTransparent
<1>1. SheetInv => CursorIsTransparent
  <2> SUFFICES ASSUME SheetInv, todo = << >>, NEW c \in Text \ spoilt
               PROVE  cell[c] = IF cursor.visible /\ c = Spot(Now)
                                THEN Face([cursor EXCEPT !.last = text[c]]) ELSE text[c]
    BY DEF CursorIsTransparent
  <2>1. Laid(Spotted)
    BY MarksOfLists DEF SheetInv, Fresh, Exact, Special, Lifted
  <2>2. cursor \in Cursor /\ Spot(Now) = Spotted
    BY NowIs DEF SheetInv, IInv, TypeOK, Cursor
  <2>3. Face([cursor EXCEPT !.last = text[c]]) = Dress(cursor.type, text[c])
    BY <2>2, FaceIsDress
  <2>4. c \in Cells
    BY ScreenIsCells
  <2>5. QED
    BY <2>1, <2>2, <2>3, <2>4 DEF Laid, Sheet, Around, Bare
<1>2. QED
  BY <1>1, InitSheetInv, NextSheetInv, PTL DEF PointerSpec
=============================================================================
