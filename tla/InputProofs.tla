---------------------------- MODULE InputProofs ----------------------------
(***************************************************************************)
(* Proofs about what a user types: Keyboard, for every size of the buffer  *)
(* and any number of key movements, interrupts and calls, and Console, for *)
(* every size of the screen and its tabulators, all lines and corrections. *)
(*                                                                         *)
(* Keyboard has three parts.  The ring: RingInv says which accesses of a   *)
(* call are done, that the tail is the slot being copied or the one after  *)
(* it, and that the slots in between are the end of the log.  The wire:    *)
(* Decoded says how many strokes are handled, which of the rest each byte  *)
(* on the wire belongs to, and that the prefix and the modifier byte are   *)
(* those of the strokes handled.  The user: Chained says how the modifiers *)
(* of a stroke follow from those after the stroke before it.               *)
(*                                                                         *)
(* Console has two.  The screen: a character fills the places from the     *)
(* cursor to where Behind says, Stays, or does so at the end of the screen *)
(* and everything moves up a row, Moves.  The line: LineAt says where each *)
(* character of the buffer is, what is seen there, that the rest is blank, *)
(* and that a line whose beginning scrolled off the screen still has a TAB *)
(* on it, so that the cursor never comes back to the corner.               *)
(***************************************************************************)
EXTENDS Keyboard, Console, FiniteSetTheorems, SequenceTheorems, WellFoundedInduction, TLAPS

Event == [code : Nat, type : {"PRESS", "RELEASE"}, modifiers : SUBSET MOD]

-----------------------------------------------------------------------------
(* The ring *)

Logged == SubSeq(log, base + 1, Len(log))

(* A get_event, by the accesses it has made. *)
Getting ==
  /\ todo \in {{"event", "tail"}, {"event"}, {"tail"}}
  /\ "tail" \in todo => buffer_tail = at /\ ~ Empty
  /\ "tail" \notin todo => buffer_tail = Inc(at)
  /\ "event" \notin todo => event = buffer[at]

(* A clear_buffer: once the head is 0, and while the tail is not, the ring *)
(* is full before the head gets to the old tail.                           *)
Clearing ==
  \/ todo = {"head", "tail"} /\ Between(buffer_tail, buffer_head) = Logged
  \/ todo = {"tail"} /\ Between(0, buffer_head) = Logged /\ (buffer_tail = 0 \/ buffer_head < buffer_tail)
  \/ todo = {"head"} /\ buffer_tail = 0

RingInv ==
  /\ log \in Seq(Event)
  /\ handler <=> pc # "boot"
  /\ ~ handler => log = <<>> /\ modifiers = {} /\ ~ extended /\ Empty
  /\ pc \in {"boot", "main"} => todo = {}
  /\ pc = "get" => Getting
  /\ pc = "clear" => Clearing
  /\ RingIsLog

(* Which bytes can come, and that 48 or 1D comes after E0. *)
Plain == {30, 72, 42, 54, 29, 56, 58, 69}
Bytes == {224, 225} \cup Plain \cup {b + 128 : b \in Plain}

Prefixed(byte) == byte \in {72, 29, 200, 157}

WireInv ==
  /\ wire \in Seq(Bytes)
  /\ \A i \in DOMAIN wire : wire[i] = 224 => i < Len(wire) /\ Prefixed(wire[i + 1])
  /\ extended => wire # <<>> /\ Prefixed(Head(wire))

QInv == TypeOK /\ RingInv /\ WireInv

-----------------------------------------------------------------------------
(* The wire *)

(* The keys for which the driver does what is meant: only one of the two   *)
(* Shift keys (keyboard.c keeps one bit for both and drops it when either  *)
(* goes up), no Pause (its bytes are taken for Ctrl and Num Lock), and no  *)
(* lock key that repeats (each make code toggles).                         *)
Orderly ==
  /\ "PAUSE" \notin Keys /\ ~ {"LSHIFT", "RSHIFT"} \subseteq Keys
  /\ Repeating \cap {"CAPSLOCK", "NUMLOCK"} = {}

Stroke == [key : Keys, type : {"PRESS", "RELEASE", "REPEAT"}, modifiers : SUBSET MOD]

Code(s) == IF s.type = "RELEASE" THEN BreakCode(s.key) ELSE MakeCode[s.key]
LastByte(s) == Code(s)[Len(Code(s))]
Long(s) == Len(Code(s)) = 2

(* The modifiers once n strokes are over: a lock key's own stroke counts.  *)
After(n) ==
  IF n = 0 THEN {}
  ELSE LET s == struck[n]
       IN IF s.key \in {"CAPSLOCK", "NUMLOCK"} /\ s.type = "PRESS"
          THEN (s.modifiers \cup {s.key}) \ (s.modifiers \cap {s.key})
          ELSE s.modifiers

(* h gives each byte on the wire the stroke it belongs to; d are handled.  *)
OnWire(d, h) ==
  /\ wire = <<>> => d = Len(struck)
  /\ wire # <<>> => /\ h[1] = d + 1
                    /\ h[Len(wire)] = Len(struck)
                    /\ extended \/ (Long(struck[h[1]]) <=> wire[1] = 224)
  /\ \A i \in DOMAIN wire :
       /\ wire[i] = 224 => i < Len(wire) /\ h[i + 1] = h[i] /\ Long(struck[h[i]]) /\ wire[i + 1] # 224
       /\ wire[i] # 224 =>
            /\ wire[i] = LastByte(struck[h[i]])
            /\ i < Len(wire) => h[i + 1] = h[i] + 1 /\ (Long(struck[h[i + 1]]) <=> wire[i + 1] = 224)

(* f gives each event of the log its stroke. *)
Recorded(f) ==
  \A i \in DOMAIN log :
    /\ i > 1 => f[i - 1] < f[i]
    /\ LET s == struck[f[i]]
       IN /\ s.key \in DOMAIN Keycode
          /\ log[i] = [code |-> Keycode[s.key], modifiers |-> s.modifiers,
                       type |-> IF s.type = "RELEASE" THEN "RELEASE" ELSE "PRESS"]

Decoded ==
  \E d \in 0 .. Len(struck) :
    /\ \E h \in [DOMAIN wire -> 1 .. Len(struck)] : OnWire(d, h)
    /\ \E f \in [DOMAIN log -> 1 .. d] : Recorded(f)
    /\ modifiers = After(d)
    /\ extended => wire # <<>> /\ wire[1] # 224 /\ Long(struck[d + 1])

-----------------------------------------------------------------------------
(* The user *)

FlagOf ==
  [LSHIFT |-> "SHIFT", RSHIFT |-> "SHIFT", LCTRL |-> "CTRL", LALT |-> "ALT"]

(* The modifiers of stroke n, from those after the stroke before it. *)
Follows(n) ==
  LET s == struck[n]
  IN s.modifiers = IF s.key \notin DOMAIN FlagOf THEN After(n - 1)
                   ELSE IF s.type = "RELEASE" THEN After(n - 1) \ {FlagOf[s.key]}
                   ELSE After(n - 1) \cup {FlagOf[s.key]}

Chained ==
  /\ struck \in Seq(Stroke)
  /\ down \subseteq Keys
  /\ \A n \in DOMAIN struck :
       /\ Follows(n)
       /\ struck[n].type = "REPEAT" => struck[n].key \in Repeating
  /\ Meant(down, struck) = After(Len(struck))

IInv == QInv /\ Chained /\ (~ missed => Decoded)
-----------------------------------------------------------------------------
(* Indices of the ring *)

N == KEYBOARD_BUFFER_SIZE

Count(i, j) == IF j >= i THEN j - i ELSE j - i + N
Place(i, n) == IF i + n < N THEN i + n ELSE i + n - N

(* The contents of a ring b from i to j. *)
Run(b, i, j) == [n \in 1 .. Count(i, j) |-> b[Place(i, n - 1)]]

LEMMA Remainder ==
  ASSUME NEW m \in Nat \ {0}, NEW a \in Int
  PROVE  /\ 0 <= a /\ a < m => a % m = a
         /\ m <= a /\ a < 2 * m => a % m = a - m
         /\ 0 - m <= a /\ a < 0 => a % m = a + m
  OBVIOUS

LEMMA Size == N \in Nat \ {0, 1} /\ Slots = 0 .. N - 1
BY KeyboardAssumption DEF N, Slots

LEMMA CountIs ==
  ASSUME NEW i \in Slots, NEW j \in Slots
  PROVE  (j - i) % N = Count(i, j) /\ Count(i, j) \in 0 .. N - 1
<1>1. i \in Int /\ j \in Int /\ j - i \in Int /\ N \in Nat \ {0} /\ 0 - N <= j - i /\ j - i < N
  BY Size
<1>2. CASE j >= i
  <2>1. 0 <= j - i
    BY <1>1, <1>2
  <2>2. (j - i) % N = j - i
    BY <1>1, <2>1, Remainder
  <2>3. QED
    BY <1>1, <1>2, <2>2 DEF Count
<1>3. CASE ~ (j >= i)
  <2>1. j - i < 0
    BY <1>1, <1>3
  <2>2. (j - i) % N = j - i + N
    BY <1>1, <2>1, Remainder
  <2>3. QED
    BY <1>1, <1>3, <2>2 DEF Count
<1>4. QED
  BY <1>2, <1>3

LEMMA PlaceIs ==
  ASSUME NEW i \in Slots, NEW n \in 0 .. N - 1
  PROVE  (i + n) % N = Place(i, n) /\ Place(i, n) \in Slots
<1>1. i \in Int /\ i + n \in Int /\ N \in Nat \ {0} /\ 0 <= i + n /\ i + n < 2 * N
  BY Size
<1>2. CASE i + n < N
  <2>1. (i + n) % N = i + n
    BY <1>1, <1>2, Remainder
  <2>2. QED
    BY <1>1, <1>2, <2>1, Size DEF Place
<1>3. CASE ~ (i + n < N)
  <2>1. N <= i + n
    BY <1>1, <1>3
  <2>3. \A a \in Int : N <= a /\ a < 2 * N => a % N = a - N
    BY <1>1, Remainder
  <2>4. (i + n) % N = i + n - N
    BY <1>1, <2>1, <2>3
  <2>5. QED
    BY <1>1, <1>3, <2>4, Size DEF Place
<1>4. QED
  BY <1>2, <1>3

LEMMA IncIs ==
  ASSUME NEW i \in Slots
  PROVE  Inc(i) = (IF i = N - 1 THEN 0 ELSE i + 1) /\ Inc(i) \in Slots
<1>1. 1 \in 0 .. N - 1
  BY Size
<1>2. Inc(i) = Place(i, 1) /\ Place(i, 1) \in Slots
  BY <1>1, PlaceIs DEF Inc, N
<1>3. QED
  BY <1>2, Size DEF Place

(* The properties' Between is Run. *)
LEMMA BetweenIsRun ==
  ASSUME NEW b, NEW i \in Slots, NEW j \in Slots
  PROVE  [n \in 1 .. (j - i) % KEYBOARD_BUFFER_SIZE |-> b[(i + n - 1) % KEYBOARD_BUFFER_SIZE]] = Run(b, i, j)
<1>1. (j - i) % N = Count(i, j) /\ Count(i, j) \in 0 .. N - 1
  BY CountIs
<1>2. \A n \in 1 .. Count(i, j) : (i + n - 1) % N = Place(i, n - 1)
  <2>1. ASSUME NEW n \in 1 .. Count(i, j)
        PROVE  (i + n - 1) % N = Place(i, n - 1)
    <3>1. n - 1 \in 0 .. N - 1 /\ i + n - 1 = i + (n - 1)
      BY <1>1, Size
    <3>2. QED
      BY <3>1, PlaceIs
  <2>2. QED
    BY <2>1
<1>3. QED
  BY <1>1, <1>2 DEF Run, N

LEMMA RunType ==
  ASSUME NEW E, NEW b \in [Slots -> E], NEW i \in Slots, NEW j \in Slots
  PROVE  Run(b, i, j) \in Seq(E) /\ Len(Run(b, i, j)) = Count(i, j)
<1>1. Count(i, j) \in 0 .. N - 1 /\ \A n \in 0 .. N - 1 : Place(i, n) \in Slots
  BY CountIs, PlaceIs
<1>2. Run(b, i, j) \in [1 .. Count(i, j) -> E]
  BY <1>1, Size, SMTT(30) DEF Run
<1>3. QED
  BY <1>1, <1>2

(* A put: the slot at the head is free as long as the ring is not full.    *)
LEMMA RunPut ==
  ASSUME NEW E, NEW b \in [Slots -> E], NEW i \in Slots, NEW j \in Slots, NEW e \in E, Inc(j) # i
  PROVE  /\ Run([b EXCEPT ![j] = e], i, Inc(j)) = Append(Run(b, i, j), e)
         /\ Count(i, Inc(j)) = Count(i, j) + 1
<1> DEFINE c == [b EXCEPT ![j] = e]
<1>0. c \in [Slots -> E] /\ Inc(j) \in Slots
  BY IncIs
<1>a. Inc(j) = IF j = N - 1 THEN 0 ELSE j + 1
  BY IncIs
<1>1. Count(i, Inc(j)) = Count(i, j) + 1 /\ Place(i, Count(i, j)) = j
  BY <1>a, Size DEF Count, Place
<1>2. \A n \in 1 .. Count(i, j) : Place(i, n - 1) \in Slots \ {j}
  BY IncIs, Size DEF Count, Place
<1>3. Run(c, i, Inc(j)) \in Seq(E) /\ Len(Run(c, i, Inc(j))) = Count(i, j) + 1
  <2> HIDE DEF c
  <2>1. QED
    BY <1>0, <1>1, RunType
<1>4. Run(b, i, j) \in Seq(E) /\ Len(Run(b, i, j)) = Count(i, j) /\ Count(i, j) \in Nat
  <2>1. Run(b, i, j) \in Seq(E) /\ Len(Run(b, i, j)) = Count(i, j)
    BY RunType
  <2>2. QED
    BY <2>1, CountIs, Size
<1>5. \A n \in 1 .. Count(i, j) : Run(c, i, Inc(j))[n] = Run(b, i, j)[n]
  BY <1>1, <1>2, <1>4 DEF Run
<1>6. Run(c, i, Inc(j))[Count(i, j) + 1] = e
  BY <1>1, <1>4 DEF Run
<1> HIDE DEF c
<1>7. Run(c, i, Inc(j)) = Append(Run(b, i, j), e)
  <2>1. Append(Run(b, i, j), e) \in Seq(E) /\ Len(Append(Run(b, i, j), e)) = Count(i, j) + 1
    BY <1>4
  <2>2. \A n \in 1 .. Count(i, j) + 1 : Run(c, i, Inc(j))[n] = Append(Run(b, i, j), e)[n]
    BY <1>4, <1>5, <1>6
  <2>3. QED
    BY <1>3, <2>1, <2>2, SeqEqual
<1>8. QED
  BY <1>1, <1>7 DEF c

(* A take. *)
LEMMA RunTake ==
  ASSUME NEW E, NEW b \in [Slots -> E], NEW i \in Slots, NEW j \in Slots, i # j
  PROVE  /\ Run(b, i, j) = <<b[i]>> \o Run(b, Inc(i), j)
         /\ Count(i, j) = Count(Inc(i), j) + 1
<1>0. Inc(i) \in Slots
  BY IncIs
<1>a. Inc(i) = IF i = N - 1 THEN 0 ELSE i + 1
  BY IncIs
<1>1. Count(i, j) = Count(Inc(i), j) + 1 /\ Place(i, 0) = i
  BY <1>a, Size DEF Count, Place
<1>2. \A n \in 1 .. Count(Inc(i), j) : Place(i, n) = Place(Inc(i), n - 1)
  BY <1>a, Size DEF Count, Place
<1>3. Run(b, i, j) \in Seq(E) /\ Len(Run(b, i, j)) = Count(Inc(i), j) + 1
  BY <1>1, RunType
<1>4. Run(b, Inc(i), j) \in Seq(E) /\ Len(Run(b, Inc(i), j)) = Count(Inc(i), j) /\ Count(Inc(i), j) \in Nat
  <2>1. Run(b, Inc(i), j) \in Seq(E) /\ Len(Run(b, Inc(i), j)) = Count(Inc(i), j)
    BY <1>0, RunType
  <2>2. QED
    BY <1>0, <2>1, CountIs, Size
<1>5. \A n \in 1 .. Count(Inc(i), j) : Run(b, i, j)[n + 1] = Run(b, Inc(i), j)[n]
  BY <1>1, <1>2, <1>4 DEF Run
<1>6. Run(b, i, j)[1] = b[i]
  BY <1>1, <1>4 DEF Run
<1>7. Run(b, i, j) = <<b[i]>> \o Run(b, Inc(i), j)
  <2>1. b[i] \in E /\ <<b[i]>> \in Seq(E)
    OBVIOUS
  <2>2. <<b[i]>> \o Run(b, Inc(i), j) \in Seq(E) /\ Len(<<b[i]>> \o Run(b, Inc(i), j)) = Count(Inc(i), j) + 1
    BY <1>4, <2>1
  <2>3. \A n \in 1 .. Count(Inc(i), j) + 1 : Run(b, i, j)[n] = (<<b[i]>> \o Run(b, Inc(i), j))[n]
    <3>1. ASSUME NEW n \in 1 .. Count(Inc(i), j) + 1, n # 1
          PROVE  Run(b, i, j)[n] = (<<b[i]>> \o Run(b, Inc(i), j))[n]
      <4>1. n - 1 \in 1 .. Count(Inc(i), j) /\ n = (n - 1) + 1
        BY <1>4, <3>1
      <4>2. Run(b, i, j)[n] = Run(b, Inc(i), j)[n - 1]
        BY <1>5, <4>1
      <4>3. QED
        BY <1>4, <2>1, <4>1, <4>2
    <3>2. (<<b[i]>> \o Run(b, Inc(i), j))[1] = b[i]
      BY <1>4, <2>1
    <3>3. QED
      BY <1>6, <3>1, <3>2
  <2>4. QED
    BY <1>3, <2>2, <2>3, SeqEqual
<1>8. QED
  BY <1>1, <1>7

LEMMA RunEmpty ==
  ASSUME NEW b, NEW i \in Slots
  PROVE  Run(b, i, i) = << >>
<1>1. Count(i, i) = 0
  BY Size DEF Count
<1>2. QED
  BY <1>1 DEF Run

-----------------------------------------------------------------------------
(* What a byte does *)

Codes  == {Keycode[k] : k \in DOMAIN Keycode}
Events == [code : Codes, type : {"PRESS", "RELEASE"}, modifiers : SUBSET MOD]

(* An event is queued. *)
Queued(e) ==
  /\ handler /\ ~ Full
  /\ buffer' = [buffer EXCEPT ![buffer_head] = e]
  /\ buffer_head' = Inc(buffer_head) /\ buffer_tail' = buffer_tail
  /\ log' = Append(log, e)

LEMMA CodesAre == Codes = {30, 57416, 72}
BY DEF Codes, Keycode

LEMMA EventsAreEvents == Events \subseteq Event
BY CodesAre DEF Events, Event

LEMMA FirstByte ==
  ASSUME WireInv, wire # << >>
  PROVE  /\ Head(wire) = wire[1] /\ Head(wire) \in Bytes /\ Tail(wire) \in Seq(Bytes)
         /\ Len(Tail(wire)) = Len(wire) - 1
         /\ \A i \in DOMAIN Tail(wire) : Tail(wire)[i] = wire[i + 1] /\ i + 1 \in DOMAIN wire
         /\ 1 \in DOMAIN wire /\ Len(wire) \in Nat
<1>1. wire \in Seq(Bytes)
  BY DEF WireInv
<1>2. QED
  BY <1>1, HeadTailProperties

(* The byte after E0 is the arrow's or Ctrl's; every other one is plain.   *)
LEMMA Scancodes ==
  ASSUME WireInv, TypeOK, wire # << >>, Head(wire) # 224
  PROVE  LET s == Head(wire) % 128
         IN /\ extended => s \in {72, 29}
            /\ s \in Plain \cup {97}
            /\ \/ scancode_to_keycode(s) \in {KEY_UNKNOWN} \cup Codes
               \/ Flag(scancode_to_keycode(s)) # "none"
<1> DEFINE b == Head(wire)
<1>1. b \in Bytes /\ (extended => Prefixed(b))
  BY FirstByte DEF WireInv
<1>2. b # 224
  OBVIOUS
<1> HIDE DEF b
<1>3. b \in {225} \cup Plain \cup {c + 128 : c \in Plain}
  BY <1>1, <1>2 DEF Bytes
<1>4. b % 128 \in Plain \cup {97}
  BY <1>3 DEF Plain
<1>5. extended => b % 128 \in {72, 29}
  BY <1>1 DEF Prefixed
<1>6. ASSUME NEW s \in Plain \cup {97}, extended => s \in {72, 29}
      PROVE  scancode_to_keycode(s) \in {KEY_UNKNOWN} \cup Codes \/ Flag(scancode_to_keycode(s)) # "none"
  <2>1. CASE extended
    BY <1>6, <2>1, CodesAre, SMTT(30) DEF scancode_to_keycode, ExtendedKeys, KEY_UNKNOWN
  <2>2. CASE ~ extended
    <3>1. scancode_to_keycode(s) = IF s \in 1 .. 83 \cup {87, 88} THEN s ELSE KEY_UNKNOWN
      BY <1>6, <2>2 DEF scancode_to_keycode, scancode_table, Plain
    <3>2. scancode_to_keycode(s) = s \/ scancode_to_keycode(s) = KEY_UNKNOWN
      BY <3>1
    <3>3. s \in {30, 72, 97} \/ s \in {42, 54} \/ s = 29 \/ s = 56 \/ s = 58 \/ s = 69
      BY <1>6 DEF Plain
    <3>4. s = 97 => scancode_to_keycode(s) = KEY_UNKNOWN
      BY <3>1
    <3>5. s \in {42, 54, 29, 56, 58, 69} => Flag(s) # "none"
      BY DEF Flag
    <3>6. QED
      BY <3>2, <3>3, <3>4, <3>5, CodesAre
  <2>3. QED
    BY <2>1, <2>2
<1>7. QED
  BY <1>4, <1>5, <1>6 DEF b

LEMMA ByteQueues ==
  ASSUME QInv, isr_keyboard
  PROVE  /\ modifiers' \subseteq MOD /\ extended' \in BOOLEAN
         /\ extended' => handler /\ Head(wire) = 224
         /\ ~ handler => UNCHANGED <<modifiers, extended>>
         /\ UNCHANGED <<ring, log>> \/ \E x \in Events : Queued(x)
<1>0. wire # << >> /\ TypeOK /\ WireInv /\ modifiers \subseteq MOD /\ extended \in BOOLEAN /\ handler \in BOOLEAN
  BY DEF QInv, isr_keyboard, TypeOK
<1> DEFINE goal == /\ modifiers' \subseteq MOD /\ extended' \in BOOLEAN
                   /\ extended' => handler /\ Head(wire) = 224
                   /\ ~ handler => UNCHANGED <<modifiers, extended>>
                   /\ UNCHANGED <<ring, log>> \/ \E x \in Events : Queued(x)
<1>1. CASE ~ handler
  BY <1>0, <1>1 DEF decoder, ring, RingInv, QInv, isr_keyboard
<1>2. CASE handler /\ Head(wire) = 224
  BY <1>0, <1>2 DEF keyboard_handle_scancode, isr_keyboard
<1>3. CASE handler /\ Head(wire) # 224
  <2> DEFINE released == Head(wire) >= 128
             code == scancode_to_keycode(Head(wire) % 128)
             type == IF released THEN "RELEASE" ELSE "PRESS"
             e == [code |-> code, type |-> type, modifiers |-> modifiers]
  <2>1. code \in {KEY_UNKNOWN} \cup Codes \/ Flag(code) # "none"
    BY <1>0, <1>3, Scancodes
  <2>2. /\ extended' = FALSE
        /\ IF Flag(code) # "none"
           THEN modifiers' = Modified(Flag(code), released) /\ UNCHANGED <<ring, log>>
           ELSE /\ UNCHANGED modifiers
                /\ IF code = KEY_UNKNOWN THEN UNCHANGED <<ring, log>> ELSE queue_event(code, type)
    BY <1>3 DEF keyboard_handle_scancode, isr_keyboard
  <2> HIDE DEF code, released
  <2>7. extended' = FALSE
    BY <2>2
  <2>8. ASSUME modifiers' \subseteq MOD, UNCHANGED <<ring, log>> \/ \E x \in Events : Queued(x)
        PROVE  goal
    BY <1>3, <2>7, <2>8
  <2>3. CASE Flag(code) # "none"
    <3>1. Flag(code) \in MOD
      BY <2>3 DEF Flag, MOD
    <3>2. modifiers' \subseteq MOD
      BY <1>0, <2>2, <2>3, <3>1 DEF Modified
    <3>3. QED
      BY <2>2, <2>3, <2>8, <3>2
  <2>4. CASE Flag(code) = "none" /\ code = KEY_UNKNOWN
    BY <1>0, <2>2, <2>4, <2>8
  <2>5. CASE Flag(code) = "none" /\ code # KEY_UNKNOWN
    <3>1. code \in Codes
      BY <2>1, <2>5
    <3>2. e \in Events
      BY <1>0, <3>1 DEF Events
    <3>3. UNCHANGED <<ring, log>> \/ Queued(e)
      BY <1>3, <2>2, <2>5 DEF queue_event, Queued
    <3>4. modifiers' = modifiers
      BY <2>2, <2>5
    <3>5. QED
      BY <1>0, <2>8, <3>2, <3>3, <3>4
  <2>6. QED
    BY <2>3, <2>4, <2>5
<1>4. QED
  BY <1>1, <1>2, <1>3

(* The wire keeps its form. *)
LEMMA ByteWire ==
  ASSUME QInv, isr_keyboard
  PROVE  WireInv'
<1>0. WireInv /\ wire # << >> /\ wire' = Tail(wire)
  BY DEF QInv, isr_keyboard
<1>1. wire' \in Seq(Bytes)
  BY <1>0, FirstByte
<1>2. ASSUME NEW i \in DOMAIN wire', wire'[i] = 224
      PROVE  i < Len(wire') /\ Prefixed(wire'[i + 1])
  <2>1. wire[i + 1] = 224 /\ i + 1 \in DOMAIN wire /\ Len(wire') = Len(wire) - 1 /\ i \in 1 .. Len(wire')
    BY <1>0, <1>1, <1>2, FirstByte
  <2>2. i + 1 < Len(wire) /\ Prefixed(wire[i + 2])
    BY <1>0, <2>1 DEF WireInv
  <2>3. i + 1 \in DOMAIN wire'
    BY <1>1, <2>1, <2>2
  <2>4. QED
    BY <1>0, <2>1, <2>2, <2>3, FirstByte
<1>3. ASSUME extended'
      PROVE  wire' # << >> /\ Prefixed(Head(wire'))
  <2>2. Head(wire) = 224
    BY <1>3, ByteQueues
  <2>3. wire[1] = 224 /\ 1 \in DOMAIN wire
    BY <1>0, <2>2, FirstByte
  <2>4. 1 < Len(wire) /\ Prefixed(wire[2])
    BY <1>0, <2>3 DEF WireInv
  <2>5. Len(wire') = Len(wire) - 1 /\ 1 \in DOMAIN wire'
    BY <1>0, <1>1, <2>4, FirstByte
  <2>6. wire'[1] = wire[2]
    BY <1>0, <2>5, FirstByte
  <2>8. wire' # << >> /\ Head(wire') = wire'[1]
    BY <1>1, <2>4, <2>5
  <2>7. QED
    BY <2>4, <2>6, <2>8
<1>4. QED
  BY <1>0, <1>1, <1>2, <1>3 DEF WireInv

-----------------------------------------------------------------------------
(* The ring keeps its form, and is a queue *)

Step == [Queue!Next]_<<Waiting, ret>>

LEMMA BetweenNow ==
  ASSUME TypeOK
  PROVE  /\ Between(buffer_tail, buffer_head) = Run(buffer, buffer_tail, buffer_head)
         /\ Between(0, buffer_head) = Run(buffer, 0, buffer_head)
<1>1. buffer_tail \in Slots /\ buffer_head \in Slots /\ 0 \in Slots
  BY Size DEF TypeOK
<1>2. QED
  BY <1>1, BetweenIsRun DEF Between

LEMMA BetweenThen ==
  ASSUME TypeOK'
  PROVE  /\ Between(buffer_tail, buffer_head)' = Run(buffer', buffer_tail', buffer_head')
         /\ Between(0, buffer_head)' = Run(buffer', 0, buffer_head')
<1>1. buffer_tail' \in Slots /\ buffer_head' \in Slots /\ 0 \in Slots
  BY Size DEF TypeOK
<1>2. QED
  BY <1>1, BetweenIsRun DEF Between

LEMMA RingTypes ==
  ASSUME TypeOK
  PROVE  /\ buffer \in [Slots -> Event] /\ buffer_tail \in Slots /\ buffer_head \in Slots /\ at \in Slots
         /\ base \in Nat /\ Len(log) \in Nat /\ base <= Len(log)
  BY DEF TypeOK, Event

(* The rest of the log, after a put and after a take. *)
LEMMA LoggedPut ==
  ASSUME NEW E, NEW l \in Seq(E), NEW e \in E, NEW b \in 0 .. Len(l)
  PROVE  /\ SubSeq(Append(l, e), b + 1, Len(Append(l, e))) = Append(SubSeq(l, b + 1, Len(l)), e)
         /\ Append(l, e) \in Seq(E) /\ Len(Append(l, e)) = Len(l) + 1
<1> DEFINE m == Append(l, e)
           s == SubSeq(l, b + 1, Len(l))
           t == SubSeq(m, b + 1, Len(m))
<1>1. m \in Seq(E) /\ Len(m) = Len(l) + 1 /\ (\A i \in 1 .. Len(l) : m[i] = l[i]) /\ m[Len(l) + 1] = e
  BY AppendProperties
<1>2. b \in Nat /\ Len(l) \in Nat /\ b <= Len(l)
  OBVIOUS
<1> HIDE DEF m
<1>3. s \in Seq(E) /\ Len(s) = Len(l) - b /\ \A i \in 1 .. Len(l) - b : s[i] = l[b + i]
  BY <1>2
<1>4. t \in Seq(E) /\ Len(t) = Len(l) - b + 1 /\ \A i \in 1 .. Len(l) - b + 1 : t[i] = m[b + i]
  BY <1>1, <1>2
<1> HIDE DEF s, t
<1>5. Append(s, e) \in Seq(E) /\ Len(Append(s, e)) = Len(l) - b + 1
  BY <1>3
<1>6. \A i \in 1 .. Len(l) - b + 1 : t[i] = Append(s, e)[i]
  BY <1>1, <1>2, <1>3, <1>4, SMTT(30)
<1>7. t = Append(s, e)
  BY <1>4, <1>5, <1>6, SeqEqual
<1>8. QED
  BY <1>1, <1>7 DEF m, s, t

LEMMA LoggedTake ==
  ASSUME NEW E, NEW l \in Seq(E), NEW b \in Nat, NEW x \in E, NEW s \in Seq(E),
         SubSeq(l, b + 1, Len(l)) = <<x>> \o s
  PROVE  b + 1 <= Len(l) /\ SubSeq(l, b + 2, Len(l)) = s
<1>1. <<x>> \in Seq(E) /\ Len(<<x>> \o s) = Len(s) + 1 /\ Len(l) \in Nat
  OBVIOUS
<1>2. b + 1 <= Len(l)
  BY <1>1
<1>3. SubSeq(l, b + 2, Len(l)) \in Seq(E) /\ Len(SubSeq(l, b + 2, Len(l))) = Len(s)
  BY <1>1, <1>2
<1>4. \A i \in 1 .. Len(s) : SubSeq(l, b + 2, Len(l))[i] = s[i]
  <2>1. ASSUME NEW i \in 1 .. Len(s)
        PROVE  SubSeq(l, b + 2, Len(l))[i] = s[i]
    <3>1. SubSeq(l, b + 2, Len(l))[i] = l[b + 1 + i]
      BY <1>1, <1>2, <1>3
    <3>2. SubSeq(l, b + 1, Len(l))[i + 1] = l[b + 1 + i]
      BY <1>1, <1>2, <1>3
    <3>3. (<<x>> \o s)[i + 1] = s[i]
      BY <1>1
    <3>4. QED
      BY <3>1, <3>2, <3>3
  <2>2. QED
    BY <2>1
<1>5. QED
  BY <1>2, <1>3, <1>4, SeqEqual

(* Nothing that Waiting reads moves. *)
LEMMA Still ==
  ASSUME TypeOK, RingInv, UNCHANGED <<ring, log, base, caller>>
  PROVE  RingIsLog' /\ (pc = "get" => Getting') /\ (pc = "clear" => Clearing') /\ Step
<1> USE DEF ring, caller
<1>1. Waiting' = Waiting /\ ret' = ret
  BY DEF Waiting, Between
<1>2. QED
  BY <1>1 DEF Step, RingInv, RingIsLog, Getting, Clearing, Between, Logged, Empty, Inc

LEMMA RingInit ==
  ASSUME Init
  PROVE  QInv /\ Queue!Init
<1> USE DEF Init
<1>1. TypeOK
  <2>1. NoEvent \in Event /\ 0 \in Slots
    BY Size DEF NoEvent, Event, MOD, KEY_UNKNOWN
  <2>2. buffer \in [Slots -> Event]
    BY <2>1 DEF Slots
  <2>3. QED
    BY <2>1, <2>2 DEF TypeOK, Event
<1>2. Between(buffer_tail, buffer_head) = << >> /\ SubSeq(log, base + 1, Len(log)) = << >>
  BY <1>1, BetweenNow, RunEmpty, RingTypes
<1>3. RingInv
  <2>1. RingIsLog
    BY <1>2 DEF RingIsLog
  <2>2. log \in Seq(Event)
    OBVIOUS
  <2>3. QED
    BY <2>1, <2>2 DEF RingInv, Empty
<1>4. WireInv
  BY DEF WireInv
<1>5. Waiting = << >>
  BY <1>2 DEF Waiting
<1>6. QED
  BY <1>1, <1>3, <1>4, <1>5 DEF QInv, Queue!Init

LEMMA PutRing ==
  ASSUME TypeOK, RingInv, handler, handler', NEW e \in Events, Queued(e), UNCHANGED <<base, caller>>,
         modifiers' \subseteq MOD, extended' \in BOOLEAN
  PROVE  TypeOK' /\ RingInv' /\ Step
<1> DEFINE h == buffer_head
           old(i) == Run(buffer, i, h)
           new(i) == Run(buffer', i, buffer_head')
<1>1. /\ e \in Event /\ buffer' = [buffer EXCEPT ![h] = e] /\ buffer_head' = Inc(h)
      /\ buffer_tail' = buffer_tail /\ log' = Append(log, e) /\ Inc(h) # buffer_tail
      /\ pc' = pc /\ todo' = todo /\ at' = at /\ event' = event /\ ret' = ret /\ base' = base
  BY EventsAreEvents DEF Queued, Full, caller
<1>2. /\ buffer \in [Slots -> Event] /\ buffer_tail \in Slots /\ h \in Slots /\ at \in Slots
      /\ base \in 0 .. Len(log) /\ log \in Seq(Event) /\ pc # "boot"
  BY RingTypes DEF RingInv, TypeOK
<1>3. TypeOK'
  <2>1. buffer' \in [Slots -> Event] /\ buffer_head' \in Slots
    BY <1>1, <1>2, IncIs
  <2>2. base' \in 0 .. Len(log')
    BY <1>1, <1>2, LoggedPut
  <2>3. QED
    BY <1>1, <1>2, <2>1, <2>2 DEF TypeOK, Event
<1>4. Logged' = Append(Logged, e)
  <2>1. SubSeq(Append(log, e), base + 1, Len(Append(log, e))) = Append(SubSeq(log, base + 1, Len(log)), e)
    <3>1. log \in Seq(Event) /\ e \in Event /\ base \in 0 .. Len(log)
      BY <1>1, <1>2
    <3>2. QED
      BY <3>1, LoggedPut, ZenonT(30)
  <2>2. QED
    BY <1>1, <2>1 DEF Logged
<1>5. ASSUME NEW i \in Slots, Inc(h) # i
      PROVE  new(i) = Append(old(i), e) /\ Len(old(i)) < N - 1 /\ old(i) \in Seq(Event)
  <2>1. new(i) = Append(old(i), e) /\ Count(i, Inc(h)) = Count(i, h) + 1
    <3>1. /\ Run([buffer EXCEPT ![h] = e], i, Inc(h)) = Append(Run(buffer, i, h), e)
          /\ Count(i, Inc(h)) = Count(i, h) + 1
      <4>1. buffer \in [Slots -> Event] /\ h \in Slots /\ e \in Event /\ Inc(h) # i
        BY <1>1, <1>2, <1>5
      <4> HIDE DEF h, old, new
      <4>2. QED
        BY <4>1, RunPut, ZenonT(30)
    <3>2. QED
      BY <1>1, <3>1
  <2>2. Count(i, Inc(h)) \in 0 .. N - 1 /\ Count(i, h) \in 0 .. N - 1
    BY <1>2, <1>5, IncIs, CountIs
  <2>3. old(i) \in Seq(Event) /\ Len(old(i)) = Count(i, h)
    BY <1>2, RunType
  <2>4. QED
    BY <2>1, <2>2, <2>3, Size
<1> HIDE DEF h, old, new
<1>6. /\ Between(buffer_tail, buffer_head) = old(buffer_tail) /\ Between(0, buffer_head) = old(0)
      /\ Between(buffer_tail, buffer_head)' = new(buffer_tail) /\ Between(0, buffer_head)' = new(0)
  BY <1>1, <1>3, BetweenNow, BetweenThen DEF old, new, h
<1>7. new(buffer_tail) = Append(old(buffer_tail), e) /\ Len(old(buffer_tail)) < N - 1 /\ old(buffer_tail) \in Seq(Event)
  BY <1>1, <1>2, <1>5
<1>8. pc = "clear" /\ todo = {"tail"} =>
        new(0) = Append(old(0), e) /\ Len(old(0)) < N - 1 /\ (buffer_tail' = 0 \/ buffer_head' < buffer_tail')
  <2>1. ASSUME pc = "clear", todo = {"tail"}
        PROVE  Inc(h) # 0 /\ (buffer_tail = 0 \/ Inc(h) < buffer_tail)
    <3>1. buffer_tail = 0 \/ h < buffer_tail
      BY <2>1 DEF RingInv, Clearing, h
    <3>2. QED
      BY <1>1, <1>2, <3>1, IncIs, Size
  <2>2. 0 \in Slots
    BY Size
  <2>3. QED
    BY <1>1, <1>5, <2>1, <2>2
<1>9. RingIsLog'
  BY <1>1, <1>4, <1>6, <1>7 DEF RingIsLog, RingInv, Logged
<1>10. pc = "get" => Getting'
  <2>1. ASSUME pc = "get"
        PROVE  Getting'
    <3>1. Getting
      BY <2>1 DEF RingInv
    <3>2. at # h
      BY <1>1, <1>2, <3>1, IncIs DEF Getting, Empty, h
    <3>3. buffer'[at] = buffer[at]
      BY <1>1, <1>2, <3>2
    <3>4. Empty' = FALSE
      BY <1>1 DEF Empty
    <3>5. QED
      BY <1>1, <3>1, <3>3, <3>4 DEF Getting, Inc
  <2>2. QED
    BY <2>1
<1>11. pc = "clear" => Clearing'
  BY <1>1, <1>4, <1>6, <1>7, <1>8 DEF RingInv, Clearing
<1>12. RingInv'
  <2>1. log' \in Seq(Event)
    BY <1>1, <1>2, LoggedPut
  <2>2. QED
    BY <1>1, <1>2, <1>9, <1>10, <1>11, <2>1 DEF RingInv
<1>13. Step
  <2>1. CASE pc = "clear" /\ todo = {"head"}
    <3>1. Waiting = << >> /\ Waiting' = << >>
      BY <1>1, <2>1 DEF Waiting
    <3>2. QED
      BY <1>1, <3>1 DEF Step
  <2>2. ASSUME Waiting' = Append(Waiting, e), Len(Waiting) < N
        PROVE  Step
    BY <1>1, <2>2 DEF Step, Queue!Next, Queue!Put, N, Events, Codes
  <2>3. CASE pc = "clear" /\ todo = {"tail"}
    <3>1. Waiting = old(0) /\ Waiting' = new(0)
      BY <1>1, <1>6, <2>3 DEF Waiting
    <3>2. QED
      BY <1>8, <2>2, <2>3, <3>1, Size
  <2>4. CASE pc = "get" /\ "tail" \notin todo
    <3>1. Waiting = <<buffer[at]>> \o old(buffer_tail) /\ Waiting' = <<buffer'[at]>> \o new(buffer_tail)
      BY <1>1, <1>6, <2>4 DEF Waiting
    <3>2. buffer'[at] = buffer[at] /\ buffer[at] \in Event
      <4>1. at # h
        BY <1>1, <1>2, <2>4, IncIs DEF RingInv, Getting, h
      <4>2. QED
        BY <1>1, <1>2, <4>1
    <3>3. ASSUME NEW x \in Event, NEW s \in Seq(Event)
          PROVE  <<x>> \o Append(s, e) = Append(<<x>> \o s, e) /\ Len(<<x>> \o s) = Len(s) + 1
      BY <1>1
    <3>4. QED
      BY <1>7, <2>2, <3>1, <3>2, <3>3, Size
  <2>5. CASE pc # "clear" /\ ~ (pc = "get" /\ "tail" \notin todo)
    <3>1. Waiting = old(buffer_tail) /\ Waiting' = new(buffer_tail)
      BY <1>1, <1>6, <2>5 DEF Waiting
    <3>2. QED
      BY <1>7, <2>2, <3>1, Size
  <2>6. CASE pc = "clear" /\ todo = {"head", "tail"}
    <3>0. "head" \in todo /\ "tail" \in todo
      BY <2>6
    <3>a. todo # {"tail"} /\ todo # {"head"} /\ pc # "get"
      BY <2>6, <3>0
    <3>1. Waiting = old(buffer_tail) /\ Waiting' = new(buffer_tail)
      BY <1>1, <1>6, <3>a DEF Waiting
    <3>2. QED
      BY <1>7, <2>2, <3>1, Size
  <2>7. QED
    BY <2>1, <2>3, <2>4, <2>5, <2>6 DEF RingInv, Clearing
<1>14. QED
  BY <1>3, <1>12, <1>13

LEMMA InitRing ==
  ASSUME TypeOK, RingInv, keyboard_init
  PROVE  TypeOK' /\ RingInv' /\ Step
<1>1. /\ pc = "boot" /\ pc' = "main" /\ todo' = {} /\ buffer' = buffer /\ at' = at /\ base' = base /\ log' = log
      /\ buffer_head' = 0 /\ buffer_tail' = 0 /\ modifiers' = {} /\ extended' = FALSE /\ handler' = TRUE
      /\ ret' = ret /\ event' = event /\ todo = {}
  BY DEF keyboard_init, RingInv
<1>2. 0 \in Slots
  BY Size
<1>3. TypeOK'
  BY <1>1, <1>2 DEF TypeOK
<1>4. buffer_head = buffer_tail /\ log = << >> /\ base = 0
  BY <1>1 DEF RingInv, Empty, TypeOK
<1>5. Between(buffer_tail, buffer_head) = << >> /\ Between(buffer_tail, buffer_head)' = << >>
  BY <1>1, <1>2, <1>3, <1>4, BetweenNow, BetweenThen, RunEmpty, RingTypes
<1>6. SubSeq(log', base' + 1, Len(log')) = << >>
  BY <1>1, <1>4
<1>7. RingInv'
  BY <1>1, <1>5, <1>6 DEF RingInv, RingIsLog
<1>8. Waiting' = Waiting
  BY <1>1, <1>5 DEF Waiting
<1>9. QED
  BY <1>1, <1>3, <1>7, <1>8 DEF Step

LEMMA GetRing ==
  ASSUME TypeOK, RingInv, keyboard_get_event
  PROVE  TypeOK' /\ RingInv' /\ Step
<1>1. /\ pc = "main" /\ pc' = "get" /\ todo' = {"event", "tail"} /\ buffer' = buffer /\ at' = buffer_tail
      /\ base' = base /\ log' = log /\ buffer_head' = buffer_head /\ buffer_tail' = buffer_tail
      /\ modifiers' = modifiers /\ extended' = extended /\ handler' = handler /\ ret' = ret /\ ~ Empty
  BY DEF keyboard_get_event, ring, decoder
<1>2. TypeOK'
  BY <1>1 DEF TypeOK
<1>3. Getting' /\ RingIsLog'
  BY <1>1 DEF Getting, Empty, RingInv, RingIsLog, Between
<1>4. RingInv'
  BY <1>1, <1>3 DEF RingInv, Empty
<1>5. Waiting' = Waiting
  BY <1>1 DEF Waiting, Between
<1>6. QED
  BY <1>1, <1>2, <1>4, <1>5 DEF Step

LEMMA ClearRing ==
  ASSUME TypeOK, RingInv, keyboard_clear_buffer
  PROVE  TypeOK' /\ RingInv' /\ Step
<1>1. /\ pc = "main" /\ pc' = "clear" /\ todo' = {"head", "tail"} /\ buffer' = buffer /\ at' = at
      /\ base' = base /\ log' = log /\ buffer_head' = buffer_head /\ buffer_tail' = buffer_tail
      /\ modifiers' = modifiers /\ extended' = extended /\ handler' = handler /\ ret' = ret
  BY DEF keyboard_clear_buffer, ring, decoder
<1>2. TypeOK'
  BY <1>1 DEF TypeOK
<1>3. Clearing'
  BY <1>1 DEF Clearing, RingInv, RingIsLog, Between, Logged
<1>4. RingInv'
  BY <1>1, <1>3 DEF RingInv, RingIsLog, Empty
<1>5. "head" \in todo' /\ "tail" \in todo'
  BY <1>1
<1>6. Waiting' = Waiting
  BY <1>1, <1>5 DEF Waiting, Between
<1>7. QED
  BY <1>1, <1>2, <1>4, <1>6 DEF Step

(* The tail moves on; the event is copied before or after. *)
LEMMA GetStepRing ==
  ASSUME TypeOK, RingInv, NEW x \in todo, GetStep(x)
  PROVE  TypeOK' /\ RingInv' /\ Step
<1>1. /\ pc = "get" /\ todo' = todo \ {x} /\ buffer' = buffer /\ at' = at /\ log' = log
      /\ buffer_head' = buffer_head /\ modifiers' = modifiers /\ extended' = extended /\ handler' = handler
  BY DEF GetStep, decoder
<1>2. Getting /\ RingIsLog
  BY <1>1 DEF RingInv
<1>3. /\ buffer \in [Slots -> Event] /\ buffer_tail \in Slots /\ buffer_head \in Slots /\ at \in Slots
      /\ base \in Nat /\ Len(log) \in Nat /\ base <= Len(log) /\ log \in Seq(Event)
  BY RingTypes DEF RingInv
<1>4. IF todo' = {} THEN pc' = "main" /\ ret' = event' ELSE pc' = "get" /\ ret' = ret
  BY <1>1 DEF GetStep
<1> DEFINE rest == Run(buffer, Inc(at), buffer_head)
<1>5. rest \in Seq(Event) /\ Inc(at) \in Slots
  BY <1>3, IncIs, RunType
<1>6. CASE x = "tail"
  <2>1. buffer_tail' = Inc(at) /\ base' = base + 1 /\ event' = event /\ buffer_tail = at /\ at # buffer_head
    BY <1>2, <1>6 DEF GetStep, Getting, Empty
  <2>2. Run(buffer, at, buffer_head) = <<buffer[at]>> \o rest
    BY <1>3, <2>1, RunTake
  <2>3. Between(buffer_tail, buffer_head) = <<buffer[at]>> \o rest
    BY <2>1, <2>2, BetweenNow
  <2>4. base + 1 <= Len(log) /\ SubSeq(log, base + 2, Len(log)) = rest
    <3>1. SubSeq(log, base + 1, Len(log)) = <<buffer[at]>> \o rest /\ buffer[at] \in Event
      BY <1>1, <1>2, <1>3, <2>3 DEF RingIsLog
    <3> HIDE DEF rest
    <3>2. buffer[at] \in Event /\ log \in Seq(Event) /\ base \in Nat /\ rest \in Seq(Event)
      BY <1>3, <1>5, <3>1
    <3>3. \A b \in Nat : SubSeq(log, b + 1, Len(log)) = <<buffer[at]>> \o rest =>
                            b + 1 <= Len(log) /\ SubSeq(log, b + 2, Len(log)) = rest
      <4>1. ASSUME NEW b \in Nat, SubSeq(log, b + 1, Len(log)) = <<buffer[at]>> \o rest
            PROVE  b + 1 <= Len(log) /\ SubSeq(log, b + 2, Len(log)) = rest
        BY <3>2, <4>1, LoggedTake
      <4>2. QED
        BY <4>1
    <3>4. QED
      BY <3>1, <3>2, <3>3
  <2>5. TypeOK'
    BY <1>1, <1>3, <1>4, <1>5, <2>1, <2>4 DEF TypeOK
  <2>6. Between(buffer_tail, buffer_head)' = rest
    BY <1>1, <2>1, <2>5, BetweenThen
  <2>7. RingIsLog'
    <3>1. base' + 1 = base + 2
      BY <1>3, <2>1
    <3>2. QED
      BY <1>1, <2>4, <2>6, <3>1 DEF RingIsLog
  <2>8. todo' \in {{}, {"event"}} /\ (todo' = {} => event = buffer[at])
    BY <1>1, <1>2, <1>6 DEF Getting
  <2>9. todo' # {} => Getting'
    BY <1>1, <1>4, <2>1, <2>8 DEF Getting, Inc
  <2>10. RingInv'
    BY <1>1, <1>4, <2>7, <2>8, <2>9 DEF RingInv
  <2>11. Step
    <3>1. Waiting = <<buffer[at]>> \o rest
      BY <1>1, <1>6, <2>3 DEF Waiting
    <3>2. CASE todo' = {}
      <4>1. Waiting' = rest /\ ret' = buffer[at]
        BY <1>4, <2>1, <2>6, <2>8, <3>2 DEF Waiting
      <4>2. <<buffer[at]>> \o rest # << >> /\ Head(<<buffer[at]>> \o rest) = buffer[at] /\ Tail(<<buffer[at]>> \o rest) = rest
        <5> HIDE DEF rest
        <5>1. \A e \in Event : <<e>> \o rest # << >> /\ Head(<<e>> \o rest) = e /\ Tail(<<e>> \o rest) = rest
          BY <1>5
        <5>2. QED
          BY <1>3, <5>1
      <4>3. Queue!Take
        BY <3>1, <4>1, <4>2 DEF Queue!Take
      <4>4. QED
        BY <4>3 DEF Step, Queue!Next
    <3>3. CASE todo' # {}
      <4>1. Waiting' = <<buffer[at]>> \o rest /\ ret' = ret
        BY <1>1, <1>4, <2>6, <2>8, <3>3 DEF Waiting
      <4>2. QED
        BY <3>1, <4>1 DEF Step
    <3>4. QED
      BY <3>2, <3>3
  <2>12. QED
    BY <2>5, <2>10, <2>11
<1>7. CASE x = "event"
  <2>1. buffer_tail' = buffer_tail /\ base' = base /\ event' = buffer[at]
    BY <1>7 DEF GetStep
  <2>2. TypeOK'
    BY <1>1, <1>4, <2>1 DEF TypeOK
  <2>3. RingIsLog' /\ Between(buffer_tail, buffer_head)' = Between(buffer_tail, buffer_head)
    BY <1>1, <1>2, <2>1 DEF RingIsLog, Between
  <2>4. todo' \in {{}, {"tail"}} /\ (todo' = {} <=> "tail" \notin todo)
    BY <1>1, <1>2, <1>7 DEF Getting
  <2>5. todo' # {} => Getting'
    BY <1>1, <1>2, <2>1, <2>4 DEF Getting, Inc, Empty
  <2>6. RingInv'
    BY <1>1, <1>4, <2>3, <2>4, <2>5 DEF RingInv
  <2>7. Step
    <3>1. CASE todo' = {}
      <4>1. Waiting = <<buffer[at]>> \o rest
        BY <1>1, <1>2, <2>4, <3>1, BetweenNow DEF Waiting, Getting
      <4>2. Waiting' = rest /\ ret' = buffer[at]
        <5>1. Between(buffer_tail, buffer_head)' = rest
          BY <1>2, <2>3, <2>4, <3>1, BetweenNow DEF Getting
        <5>2. QED
          BY <1>4, <2>1, <3>1, <5>1 DEF Waiting
      <4>3. <<buffer[at]>> \o rest # << >> /\ Head(<<buffer[at]>> \o rest) = buffer[at] /\ Tail(<<buffer[at]>> \o rest) = rest
        <5> HIDE DEF rest
        <5>1. \A e \in Event : <<e>> \o rest # << >> /\ Head(<<e>> \o rest) = e /\ Tail(<<e>> \o rest) = rest
          BY <1>5
        <5>2. QED
          BY <1>3, <5>1
      <4>4. Queue!Take
        BY <4>1, <4>2, <4>3 DEF Queue!Take
      <4>5. QED
        BY <4>4 DEF Step, Queue!Next
    <3>2. CASE todo' # {}
      <4>1. Waiting' = Waiting /\ ret' = ret
        BY <1>1, <1>4, <2>3, <2>4, <3>2 DEF Waiting
      <4>2. QED
        BY <4>1 DEF Step
    <3>3. QED
      BY <3>1, <3>2
  <2>8. QED
    BY <2>2, <2>6, <2>7
<1>8. QED
  BY <1>2, <1>6, <1>7 DEF Getting

LEMMA ClearStepRing ==
  ASSUME TypeOK, RingInv, NEW x \in todo, ClearStep(x)
  PROVE  TypeOK' /\ RingInv' /\ Step
<1>1. /\ pc = "clear" /\ todo' = todo \ {x} /\ buffer' = buffer /\ at' = at /\ log' = log /\ ret' = ret /\ event' = event
      /\ modifiers' = modifiers /\ extended' = extended /\ handler' = handler
      /\ pc' = IF todo' = {} THEN "main" ELSE "clear"
  BY DEF ClearStep, decoder
<1>2. Clearing
  BY <1>1 DEF RingInv
<1>3. /\ buffer_tail \in Slots /\ buffer_head \in Slots /\ 0 \in Slots
      /\ base \in Nat /\ Len(log) \in Nat /\ base <= Len(log) /\ log \in Seq(Event)
  BY RingTypes, Size DEF RingInv
<1>4. CASE x = "head"
  <2>1. buffer_head' = 0 /\ base' = Len(log) /\ buffer_tail' = buffer_tail
    BY <1>4 DEF ClearStep
  <2>2. TypeOK'
    BY <1>1, <1>3, <2>1 DEF TypeOK
  <2>3. Between(0, buffer_head)' = << >>
    BY <1>3, <2>1, <2>2, BetweenThen, RunEmpty
  <2>4. SubSeq(log', base' + 1, Len(log')) = << >>
    BY <1>1, <1>3, <2>1
  <2>5. todo' \in {{}, {"tail"}} /\ (todo' = {} => buffer_tail = 0)
    BY <1>1, <1>2, <1>4 DEF Clearing
  <2>6. todo' = {} => Between(buffer_tail, buffer_head)' = << >>
    BY <2>1, <2>3, <2>5 DEF Between
  <2>7. todo' # {} => Clearing'
    <3>1. buffer_tail' = 0 \/ buffer_head' < buffer_tail'
      BY <1>3, <2>1, Size
    <3>2. QED
      BY <2>3, <2>4, <2>5, <3>1 DEF Clearing, Logged
  <2>8. RingInv'
    <3>1. RingIsLog'
      BY <1>1, <2>4, <2>6 DEF RingIsLog
    <3>2. QED
      BY <1>1, <1>3, <2>5, <2>7, <3>1 DEF RingInv
  <2>9. Waiting' = << >>
    BY <1>1, <2>3, <2>5, <2>6 DEF Waiting
  <2>10. QED
    BY <1>1, <2>2, <2>8, <2>9 DEF Step, Queue!Next, Queue!Clear
<1>5. CASE x = "tail"
  <2>1. buffer_tail' = 0 /\ buffer_head' = buffer_head /\ base' = base
    BY <1>5 DEF ClearStep
  <2>2. TypeOK'
    BY <1>1, <1>3, <2>1 DEF TypeOK
  <2>3. Between(0, buffer_head)' = Between(0, buffer_head)
    BY <1>1, <2>1 DEF Between
  <2>4. todo' \in {{}, {"head"}} /\ (todo' = {} => todo = {"tail"} /\ Between(0, buffer_head) = Logged)
    BY <1>1, <1>2, <1>5 DEF Clearing
  <2>5. Between(buffer_tail, buffer_head)' = Between(0, buffer_head)'
    BY <2>1 DEF Between
  <2>6. todo' # {} => Clearing'
    BY <2>1, <2>4 DEF Clearing
  <2>7. RingInv'
    <3>1. RingIsLog'
      BY <1>1, <2>1, <2>3, <2>4, <2>5 DEF RingIsLog, Logged
    <3>2. QED
      BY <1>1, <1>3, <2>4, <2>6, <3>1 DEF RingInv
  <2>8. Step
    <3>1. CASE todo' = {}
      <4>1. Waiting' = Waiting
        BY <1>1, <2>3, <2>4, <2>5, <3>1 DEF Waiting
      <4>2. QED
        BY <1>1, <4>1 DEF Step
    <3>2. CASE todo' # {}
      <4>1. Waiting' = << >>
        BY <1>1, <2>4, <3>2 DEF Waiting
      <4>2. QED
        BY <1>1, <4>1 DEF Step, Queue!Next, Queue!Clear
    <3>3. QED
      BY <3>1, <3>2
  <2>9. QED
    BY <2>2, <2>7, <2>8
<1>6. QED
  BY <1>2, <1>4, <1>5 DEF Clearing

LEMMA CodesFit ==
  ASSUME NEW k \in DOMAIN MakeCode, NEW bytes \in {MakeCode[k], BreakCode(k)}
  PROVE  /\ bytes \in Seq(Bytes)
         /\ \A i \in 1 .. Len(bytes) : bytes[i] = 224 => i < Len(bytes) /\ Prefixed(bytes[i + 1])
<1> DEFINE Fits(s) == /\ s \in Seq(Bytes)
                      /\ \A i \in 1 .. Len(s) : s[i] = 224 => i < Len(s) /\ Prefixed(s[i + 1])
<1>0. SUFFICES Fits(bytes)
  OBVIOUS
<1>1. ASSUME NEW b \in Bytes \ {224} PROVE Fits(<<b>>)
  OBVIOUS
<1>2. ASSUME NEW b \in Bytes \ {224}, Prefixed(b) PROVE Fits(<<224, b>>)
  <2>1. 224 \in Bytes
    BY DEF Bytes
  <2>2. QED
    BY <1>2, <2>1
<1>3. Fits(<<225, 29, 69, 225, 157, 197>>)
  BY DEF Bytes, Plain
<1>4. Fits(<< >>)
  OBVIOUS
<1>5. /\ MakeCode["A"] = <<30>> /\ MakeCode["UP"] = <<224, 72>> /\ MakeCode["NUMPAD8"] = <<72>>
      /\ MakeCode["LSHIFT"] = <<42>> /\ MakeCode["RSHIFT"] = <<54>> /\ MakeCode["LCTRL"] = <<29>>
      /\ MakeCode["RCTRL"] = <<224, 29>> /\ MakeCode["LALT"] = <<56>> /\ MakeCode["CAPSLOCK"] = <<58>>
      /\ MakeCode["NUMLOCK"] = <<69>> /\ MakeCode["PAUSE"] = <<225, 29, 69, 225, 157, 197>>
      /\ k \in {"A", "UP", "NUMPAD8", "LSHIFT", "RSHIFT", "LCTRL", "RCTRL", "LALT", "CAPSLOCK", "NUMLOCK", "PAUSE"}
  BY DEF MakeCode
<1>6. ASSUME NEW b \in Nat, MakeCode[k] = <<b>>, k # "PAUSE" PROVE BreakCode(k) = <<b + 128>>
  BY <1>6 DEF BreakCode
<1>7. ASSUME NEW b \in Nat, MakeCode[k] = <<224, b>>, k # "PAUSE" PROVE BreakCode(k) = <<224, b + 128>>
  BY <1>7 DEF BreakCode
<1>8. /\ {30, 72, 42, 54, 29, 56, 58, 69} \subseteq Bytes \ {224} /\ {b + 128 : b \in Plain} \subseteq Bytes \ {224}
      /\ Prefixed(72) /\ Prefixed(29) /\ Prefixed(72 + 128) /\ Prefixed(29 + 128)
  BY DEF Bytes, Plain, Prefixed
<1>9. \A b \in Plain : b \in Nat /\ b \in Bytes \ {224} /\ b + 128 \in Bytes \ {224}
  BY <1>8 DEF Plain
<1> HIDE DEF Fits
<1>10. ASSUME NEW b \in Plain, MakeCode[k] = <<b>>, k # "PAUSE" PROVE Fits(bytes)
  <2>1. BreakCode(k) = <<b + 128>>
    BY <1>6, <1>9, <1>10
  <2>2. QED
    BY <1>1, <1>9, <1>10, <2>1
<1>11. ASSUME NEW b \in {72, 29}, MakeCode[k] = <<224, b>>, k # "PAUSE" PROVE Fits(bytes)
  <2>1. BreakCode(k) = <<224, b + 128>> /\ Prefixed(b) /\ Prefixed(b + 128) /\ b \in Plain
    BY <1>7, <1>8, <1>11 DEF Plain
  <2>2. QED
    BY <1>2, <1>9, <1>11, <2>1
<1>12. CASE k \in {"UP", "RCTRL"}
  BY <1>5, <1>11, <1>12
<1>13. CASE k = "PAUSE"
  BY <1>3, <1>4, <1>5, <1>13 DEF BreakCode
<1>14. CASE k \notin {"UP", "RCTRL", "PAUSE"}
  <2>1. \E b \in Plain : MakeCode[k] = <<b>>
    BY <1>5, <1>14 DEF Plain
  <2>2. QED
    BY <1>10, <1>14, <2>1
<1>15. QED
  BY <1>12, <1>13, <1>14

LEMMA MoveWire ==
  ASSUME WireInv, NEW bytes \in Seq(Bytes), wire' = wire \o bytes, extended' = extended,
         \A i \in 1 .. Len(bytes) : bytes[i] = 224 => i < Len(bytes) /\ Prefixed(bytes[i + 1])
  PROVE  WireInv'
<1>1. wire \in Seq(Bytes) /\ wire' \in Seq(Bytes) /\ Len(wire') = Len(wire) + Len(bytes)
  BY DEF WireInv
<1>2. /\ \A i \in 1 .. Len(wire) : wire'[i] = wire[i]
      /\ \A i \in 1 .. Len(bytes) : wire'[Len(wire) + i] = bytes[i]
  BY <1>1
<1>3. ASSUME NEW i \in DOMAIN wire', wire'[i] = 224
      PROVE  i < Len(wire') /\ Prefixed(wire'[i + 1])
  <2>1. CASE i <= Len(wire)
    <3>1. i \in DOMAIN wire /\ wire[i] = 224
      BY <1>1, <1>2, <1>3, <2>1
    <3>2. i < Len(wire) /\ Prefixed(wire[i + 1])
      BY <3>1 DEF WireInv
    <3>3. i + 1 \in 1 .. Len(wire)
      BY <1>1, <3>1, <3>2
    <3>4. QED
      BY <1>1, <1>2, <3>2, <3>3
  <2>2. CASE ~ (i <= Len(wire))
    <3> DEFINE j == i - Len(wire)
    <3>1. j \in 1 .. Len(bytes) /\ i = Len(wire) + j /\ j \in Int
      BY <1>1, <2>2
    <3> HIDE DEF j
    <3>2. bytes[j] = 224
      BY <1>2, <1>3, <3>1
    <3>3. j < Len(bytes) /\ Prefixed(bytes[j + 1])
      BY <3>1, <3>2
    <3>4. j + 1 \in 1 .. Len(bytes)
      BY <1>1, <3>1, <3>3
    <3>5. wire'[Len(wire) + (j + 1)] = bytes[j + 1] /\ Len(wire) + (j + 1) = i + 1
      BY <1>1, <1>2, <3>1, <3>4
    <3>6. QED
      BY <1>1, <3>1, <3>3, <3>5
  <2>3. QED
    BY <2>1, <2>2
<1>4. extended' => wire' # << >> /\ Prefixed(Head(wire'))
  <2>1. ASSUME extended
        PROVE  wire' # << >> /\ Prefixed(Head(wire'))
    <3>1. wire # << >> /\ Prefixed(Head(wire)) /\ Head(wire) = wire[1] /\ 1 \in 1 .. Len(wire)
      BY <1>1, <2>1 DEF WireInv
    <3>2. wire'[1] = wire[1] /\ Len(wire') > 0
      BY <1>1, <1>2, <3>1
    <3>3. QED
      BY <1>1, <3>1, <3>2
  <2>2. QED
    BY <2>1
<1>5. QED
  BY <1>1, <1>3, <1>4 DEF WireInv

(* A key moves. *)
Moving(k, type, bytes, held) ==
  /\ Move(k, type, bytes, held)
  /\ \/ type = "PRESS" /\ bytes = MakeCode[k] /\ held = down \cup {k}
     \/ type = "RELEASE" /\ bytes = BreakCode(k) /\ held = down \ {k}
     \/ type = "REPEAT" /\ bytes = MakeCode[k] /\ held = down /\ k \in Repeating /\ k \in down

LEMMA UserMoves ==
  ASSUME \/ \E k \in Keys : Press(k) \/ Release(k)
         \/ \E k \in Repeating : Repeat(k)
  PROVE  \E k \in Keys, type \in {"PRESS", "RELEASE", "REPEAT"} :
           \E bytes, held : Moving(k, type, bytes, held)
  BY KeyboardAssumption DEF Press, Release, Repeat, Moving

LEMMA MoveQ ==
  ASSUME QInv, NEW k \in Keys, NEW type, NEW bytes, NEW held, Moving(k, type, bytes, held)
  PROVE  QInv' /\ Step
<1>1. /\ UNCHANGED <<handler, ring, decoder, caller, log, base>> /\ wire' = wire \o bytes
      /\ bytes \in {MakeCode[k], BreakCode(k)}
  BY DEF Moving, Move
<1>2. k \in DOMAIN MakeCode
  BY KeyboardAssumption
<1>3. WireInv'
  BY <1>1, <1>2, CodesFit, MoveWire DEF QInv, decoder
<1>4. TypeOK'
  BY <1>1 DEF QInv, TypeOK, ring, decoder, caller
<1>5. RingIsLog' /\ (pc = "get" => Getting') /\ (pc = "clear" => Clearing') /\ Step
  BY <1>1, Still DEF QInv
<1>6. RingInv'
  BY <1>1, <1>5 DEF QInv, RingInv, ring, decoder, caller, Empty
<1>7. QED
  BY <1>3, <1>4, <1>5, <1>6 DEF QInv

LEMMA ByteQ ==
  ASSUME QInv, isr_keyboard
  PROVE  QInv' /\ Step
<1>1. UNCHANGED <<handler, caller, base>> /\ WireInv'
  BY ByteWire DEF isr_keyboard
<1>2. /\ modifiers' \subseteq MOD /\ extended' \in BOOLEAN
      /\ ~ handler => UNCHANGED <<modifiers, extended>>
  BY ByteQueues
<1>3. CASE UNCHANGED <<ring, log>>
  <2>1. TypeOK'
    BY <1>1, <1>2, <1>3 DEF QInv, TypeOK, ring, caller
  <2>2. RingIsLog' /\ (pc = "get" => Getting') /\ (pc = "clear" => Clearing') /\ Step
    BY <1>1, <1>3, Still DEF QInv
  <2>3. RingInv'
    BY <1>1, <1>2, <1>3, <2>2 DEF QInv, RingInv, ring, caller, Empty
  <2>4. QED
    BY <1>1, <2>1, <2>2, <2>3 DEF QInv
<1>4. CASE \E e \in Events : Queued(e)
  <2>1. PICK e \in Events : Queued(e)
    BY <1>4
  <2>2. handler /\ handler'
    BY <1>1, <2>1 DEF Queued
  <2>3. TypeOK' /\ RingInv' /\ Step
    BY <1>1, <1>2, <2>1, <2>2, PutRing DEF QInv
  <2>4. QED
    BY <1>1, <2>3 DEF QInv
<1>5. QED
  BY <1>3, <1>4, ByteQueues

LEMMA MainQ ==
  ASSUME QInv, Main
  PROVE  QInv' /\ Step
<1>1. CASE keyboard_init
  <2>1. WireInv'
    BY <1>1 DEF QInv, WireInv, keyboard_init, device
  <2>2. QED
    BY <1>1, <2>1, InitRing DEF QInv
<1>2. ASSUME UNCHANGED <<wire, extended>>
      PROVE  WireInv'
  BY <1>2 DEF QInv, WireInv
<1>3. CASE keyboard_get_event
  BY <1>2, <1>3, GetRing DEF QInv, keyboard_get_event, device, decoder
<1>4. CASE keyboard_clear_buffer
  BY <1>2, <1>4, ClearRing DEF QInv, keyboard_clear_buffer, device, decoder
<1>5. ASSUME NEW x \in todo, GetStep(x)
      PROVE  QInv' /\ Step
  BY <1>2, <1>5, GetStepRing DEF QInv, GetStep, device, decoder
<1>6. ASSUME NEW x \in todo, ClearStep(x)
      PROVE  QInv' /\ Step
  BY <1>2, <1>6, ClearStepRing DEF QInv, ClearStep, device, decoder
<1>7. QED
  BY <1>1, <1>3, <1>4, <1>5, <1>6 DEF Main

LEMMA StepQ ==
  ASSUME QInv, [Next]_vars
  PROVE  QInv' /\ Step
<1>1. CASE UNCHANGED vars
  <2>1. RingIsLog' /\ (pc = "get" => Getting') /\ (pc = "clear" => Clearing') /\ Step
    BY <1>1, Still DEF QInv, vars
  <2>2. TypeOK' /\ WireInv'
    BY <1>1 DEF QInv, TypeOK, WireInv, vars, device, ring, decoder, caller
  <2>3. RingInv'
    BY <1>1, <2>1 DEF QInv, RingInv, vars, ring, decoder, caller, Empty
  <2>4. QED
    BY <2>1, <2>2, <2>3 DEF QInv
<1>2. CASE (\E k \in Keys : Press(k) \/ Release(k)) \/ (\E k \in Repeating : Repeat(k))
  BY <1>2, UserMoves, MoveQ
<1>3. CASE isr_keyboard
  BY <1>3, ByteQ
<1>4. CASE Main
  BY <1>4, MainQ
<1>5. QED
  BY <1>1, <1>2, <1>3, <1>4 DEF Next

LEMMA QInvariant == Spec => []QInv
<1>1. Init => QInv
  BY RingInit
<1>2. QInv /\ [Next]_vars => QInv'
  BY StepQ
<1>3. QED
  BY <1>1, <1>2, PTL DEF Spec

(* The ring is a queue: whatever the interrupts, and the order of the      *)
(* stores in keyboard_get_event and keyboard_clear_buffer, for every size  *)
(* of the buffer, any keys and any typing.                                 *)
THEOREM RingImplementsQueue == Spec => QueueSpec
<1>1. Init => Queue!Init
  BY RingInit
<1>2. QInv /\ [Next]_vars => [Queue!Next]_<<Waiting, ret>>
  BY StepQ DEF Step
<1>3. QED
  BY <1>1, <1>2, QInvariant, PTL DEF Spec, QueueSpec, Queue!Spec

(* The slots between tail and head are the end of the log, none missing    *)
(* and none twice, through every interrupt.                                *)
THEOREM RingKeepsTheLog == Spec => [](TypeOK /\ RingIsLog)
<1>1. QInv => TypeOK /\ RingIsLog
  BY DEF QInv, RingInv
<1>2. QED
  BY <1>1, QInvariant, PTL

-----------------------------------------------------------------------------
(* What the user means *)

LEMMA MeantIs ==
  ASSUME NEW held, NEW s
  PROVE  /\ Meant(held, s) \subseteq MOD
         /\ "SHIFT" \in Meant(held, s) <=> "LSHIFT" \in held \/ "RSHIFT" \in held
         /\ "CTRL" \in Meant(held, s) <=> "LCTRL" \in held
         /\ "ALT" \in Meant(held, s) <=> "LALT" \in held
         /\ "CAPSLOCK" \in Meant(held, s) <=> Cardinality(Pressed("CAPSLOCK", s)) % 2 = 1
         /\ "NUMLOCK" \in Meant(held, s) <=> Cardinality(Pressed("NUMLOCK", s)) % 2 = 1
  BY DEF Meant, MOD

(* Two sets of modifiers with the same members. *)
LEMMA ModEqual ==
  ASSUME NEW a \in SUBSET MOD, NEW b \in SUBSET MOD, \A f \in MOD : f \in a <=> f \in b
  PROVE  a = b
  OBVIOUS

LEMMA PressedGrows ==
  ASSUME NEW s \in Seq(Stroke), NEW e \in Stroke, NEW f
  PROVE  /\ Cardinality(Pressed(f, Append(s, e))) \in Nat /\ Cardinality(Pressed(f, s)) \in Nat
         /\ Cardinality(Pressed(f, Append(s, e))) =
              Cardinality(Pressed(f, s)) + IF e.key = f /\ e.type = "PRESS" THEN 1 ELSE 0
<1> DEFINE t == Append(s, e)
           n == Len(s) + 1
<1>1. /\ DOMAIN s = 1 .. Len(s) /\ DOMAIN t = 1 .. n /\ n \notin DOMAIN s /\ Len(s) \in Nat
      /\ (\A i \in DOMAIN s : t[i] = s[i]) /\ t[n] = e
  OBVIOUS
<1> HIDE DEF t, n
<1>2. Pressed(f, t) = Pressed(f, s) \cup IF e.key = f /\ e.type = "PRESS" THEN {n} ELSE {}
  BY <1>1 DEF Pressed, n
<1>3. IsFiniteSet(Pressed(f, s)) /\ n \notin Pressed(f, s)
  <2>1. IsFiniteSet(1 .. Len(s))
    <3>1. 1 \in Int /\ Len(s) \in Int
      BY <1>1
    <3>2. QED
      BY <3>1, FS_Interval
  <2>2. Pressed(f, s) \subseteq 1 .. Len(s)
    BY <1>1 DEF Pressed
  <2>3. QED
    BY <1>1, <2>1, <2>2, FS_Subset
<1>4. /\ Cardinality(Pressed(f, s)) \in Nat
      /\ Cardinality(Pressed(f, s) \cup {n}) = Cardinality(Pressed(f, s)) + 1
  BY <1>3, FS_CardinalityType, FS_AddElement
<1>5. Cardinality(Pressed(f, t)) = Cardinality(Pressed(f, s)) + IF e.key = f /\ e.type = "PRESS" THEN 1 ELSE 0
  <2>1. CASE e.key = f /\ e.type = "PRESS"
    BY <1>2, <1>4, <2>1
  <2>2. CASE ~ (e.key = f /\ e.type = "PRESS")
    <3>1. Pressed(f, t) = Pressed(f, s)
      BY <1>2, <2>2
    <3>2. QED
      BY <1>4, <2>2, <3>1
  <2>3. QED
    BY <2>1, <2>2
<1>6. QED
  BY <1>4, <1>5 DEF t

LEMMA Parity ==
  ASSUME NEW n \in Nat
  PROVE  (n + 1) % 2 = 1 <=> ~ (n % 2 = 1)
  OBVIOUS

(* The modifiers of a stroke: the key itself counts as held. *)
LEMMA MeantHeld ==
  ASSUME Orderly, NEW k \in Keys, NEW type \in {"PRESS", "RELEASE", "REPEAT"}, NEW held, NEW s, down \subseteq Keys,
         \/ type = "PRESS" /\ held = down \cup {k}
         \/ type = "RELEASE" /\ held = down \ {k}
         \/ type = "REPEAT" /\ held = down /\ k \in down
  PROVE  Meant(held, s) = IF k \notin DOMAIN FlagOf THEN Meant(down, s)
                          ELSE IF type = "RELEASE" THEN Meant(down, s) \ {FlagOf[k]}
                          ELSE Meant(down, s) \cup {FlagOf[k]}
<1>1. ~ ("LSHIFT" \in Keys /\ "RSHIFT" \in Keys)
  BY DEF Orderly
<1>2. /\ DOMAIN FlagOf = {"LSHIFT", "RSHIFT", "LCTRL", "LALT"} /\ FlagOf["LSHIFT"] = "SHIFT" /\ FlagOf["RSHIFT"] = "SHIFT"
      /\ FlagOf["LCTRL"] = "CTRL" /\ FlagOf["LALT"] = "ALT"
  BY DEF FlagOf
<1> DEFINE m == Meant(down, s)
           r == IF k \notin DOMAIN FlagOf THEN m ELSE IF type = "RELEASE" THEN m \ {FlagOf[k]} ELSE m \cup {FlagOf[k]}
<1>3. Meant(held, s) \in SUBSET MOD /\ r \in SUBSET MOD
  BY <1>2, MeantIs DEF MOD
<1>4. "CAPSLOCK" \in Meant(held, s) <=> "CAPSLOCK" \in r
  BY <1>2, MeantIs
<1>5. "NUMLOCK" \in Meant(held, s) <=> "NUMLOCK" \in r
  BY <1>2, MeantIs
<1>6. "CTRL" \in Meant(held, s) <=> "CTRL" \in r
  BY <1>2, MeantIs
<1>7. "ALT" \in Meant(held, s) <=> "ALT" \in r
  BY <1>2, MeantIs
<1>8. "SHIFT" \in Meant(held, s) <=> "SHIFT" \in r
  BY <1>1, <1>2, MeantIs
<1>9. QED
  BY <1>3, <1>4, <1>5, <1>6, <1>7, <1>8, ModEqual DEF MOD

(* A lock toggles with its own stroke. *)
LEMMA MeantStruck ==
  ASSUME NEW held, NEW s \in Seq(Stroke), NEW e \in Stroke
  PROVE  Meant(held, Append(s, e)) =
           IF e.key \in {"CAPSLOCK", "NUMLOCK"} /\ e.type = "PRESS"
           THEN (Meant(held, s) \cup {e.key}) \ (Meant(held, s) \cap {e.key})
           ELSE Meant(held, s)
<1> DEFINE m == Meant(held, s)
           n == Meant(held, Append(s, e))
           c(f) == Cardinality(Pressed(f, s))
           d(f) == Cardinality(Pressed(f, Append(s, e)))
           r == IF e.key \in {"CAPSLOCK", "NUMLOCK"} /\ e.type = "PRESS" THEN (m \cup {e.key}) \ (m \cap {e.key}) ELSE m
<1>1. ASSUME NEW f
      PROVE  /\ c(f) \in Nat
             /\ e.key = f /\ e.type = "PRESS" => (d(f) % 2 = 1 <=> ~ (c(f) % 2 = 1))
             /\ ~ (e.key = f /\ e.type = "PRESS") => (d(f) % 2 = 1 <=> c(f) % 2 = 1)
  BY PressedGrows, Parity
<1>2. /\ m \subseteq MOD /\ n \subseteq MOD
      /\ \A f \in {"SHIFT", "CTRL", "ALT"} : f \in n <=> f \in m
      /\ \A f \in {"CAPSLOCK", "NUMLOCK"} : (f \in n <=> d(f) % 2 = 1) /\ (f \in m <=> c(f) % 2 = 1)
  BY MeantIs
<1> HIDE DEF m, n, c, d
<1>3. r \in SUBSET MOD
  BY <1>2 DEF MOD
<1>4. \A f \in {"SHIFT", "CTRL", "ALT"} : f \in n <=> f \in r
  BY <1>2
<1>5. \A f \in {"CAPSLOCK", "NUMLOCK"} : f \in n <=> f \in r
  BY <1>1, <1>2
<1>6. n = r
  <2>1. \A f \in MOD : f \in n <=> f \in r
    BY <1>4, <1>5 DEF MOD
  <2>2. n \in SUBSET MOD
    BY <1>2
  <2> HIDE DEF r
  <2>3. QED
    BY <1>3, <2>1, <2>2, ModEqual
<1>7. QED
  BY <1>6 DEF m, n

(* The chain grows by a stroke. *)
LEMMA MoveChained ==
  ASSUME Orderly, QInv, Chained, NEW k \in Keys, NEW type \in {"PRESS", "RELEASE", "REPEAT"}, NEW bytes, NEW held,
         Moving(k, type, bytes, held)
  PROVE  Chained'
<1>0. PICK n \in Nat : n = Len(struck)
  BY DEF Chained
<1> DEFINE e == [key |-> k, type |-> type, modifiers |-> Meant(held, struck)]
<1>1. /\ struck \in Seq(Stroke) /\ down \subseteq Keys /\ n \in Nat
      /\ \A i \in DOMAIN struck : Follows(i) /\ (struck[i].type = "REPEAT" => struck[i].key \in Repeating)
      /\ Meant(down, struck) = After(n)
  BY <1>0 DEF Chained
<1>2. struck' = Append(struck, e) /\ down' = held /\ (type = "REPEAT" => k \in Repeating)
  BY DEF Moving, Move
<1>3. e \in Stroke /\ e.key = k /\ e.type = type /\ e.modifiers = Meant(held, struck)
  BY MeantIs DEF Stroke
<1> HIDE DEF e
<1>4. /\ struck' \in Seq(Stroke) /\ Len(struck') = n + 1 /\ struck'[n + 1] = e
      /\ \A i \in 1 .. n : struck'[i] = struck[i]
  BY <1>0, <1>1, <1>2, <1>3
<1>5. held \subseteq Keys
  BY <1>1 DEF Moving
<1>6. \A i \in 0 .. n : After(i)' = After(i)
  <2>1. ASSUME NEW i \in 0 .. n
        PROVE  After(i)' = After(i)
    <3>1. i = 0 \/ struck'[i] = struck[i]
      BY <1>0, <1>4
    <3>2. QED
      BY <3>1 DEF After
  <2>2. QED
    BY <2>1
<1>7. ASSUME NEW i \in 1 .. n
      PROVE  Follows(i)' /\ (struck'[i].type = "REPEAT" => struck'[i].key \in Repeating)
  <2>1. Follows(i) /\ struck'[i] = struck[i] /\ i - 1 \in 0 .. n /\ i \in DOMAIN struck
    BY <1>0, <1>1, <1>4
  <2>2. After(i - 1)' = After(i - 1)
    BY <1>6, <2>1
  <2>3. QED
    BY <1>1, <2>1, <2>2 DEF Follows
<1>8. e.modifiers = IF k \notin DOMAIN FlagOf THEN After(n)
                    ELSE IF type = "RELEASE" THEN After(n) \ {FlagOf[k]}
                    ELSE After(n) \cup {FlagOf[k]}
  <2>1. \/ type = "PRESS" /\ held = down \cup {k}
        \/ type = "RELEASE" /\ held = down \ {k}
        \/ type = "REPEAT" /\ held = down /\ k \in down
    BY DEF Moving
  <2>2. QED
    BY <1>1, <1>3, <2>1, MeantHeld
<1>9. Follows(n + 1)'
  <2>1. n \in Nat /\ (n + 1) - 1 = n /\ n \in 0 .. n
    BY <1>1
  <2>2. After((n + 1) - 1)' = After(n)
    BY <1>6, <2>1
  <2>3. QED
    BY <1>3, <1>4, <1>8, <2>2 DEF Follows
<1>10. Meant(down, struck)' = After(n + 1)'
  <2>1. Meant(down, struck)' = Meant(held, Append(struck, e))
    BY <1>2 DEF Meant, Pressed
  <2>2. Meant(held, Append(struck, e)) =
          IF k \in {"CAPSLOCK", "NUMLOCK"} /\ type = "PRESS"
          THEN (e.modifiers \cup {k}) \ (e.modifiers \cap {k}) ELSE e.modifiers
    BY <1>1, <1>3, MeantStruck
  <2>3. n + 1 # 0
    BY <1>1
  <2>4. QED
    BY <1>3, <1>4, <2>1, <2>2, <2>3 DEF After
<1>11. ASSUME NEW i \in DOMAIN struck'
       PROVE  Follows(i)' /\ (struck'[i].type = "REPEAT" => struck'[i].key \in Repeating)
  <2>1. i \in 1 .. n \/ i = n + 1
    BY <1>0, <1>1, <1>4
  <2>2. QED
    BY <1>2, <1>3, <1>4, <1>7, <1>9, <2>1
<1>12. QED
  BY <1>2, <1>4, <1>5, <1>10, <1>11 DEF Chained

-----------------------------------------------------------------------------
(* What each key sends, and what the driver makes of it *)

(* The scancode of a key, without its prefix. *)
Scan == [A |-> 30, UP |-> 72, NUMPAD8 |-> 72, LSHIFT |-> 42, RSHIFT |-> 54, LCTRL |-> 29,
         RCTRL |-> 29, LALT |-> 56, CAPSLOCK |-> 58, NUMLOCK |-> 69]

LEMMA Sends ==
  ASSUME Orderly, NEW s \in Stroke
  PROVE  /\ Code(s) \in Seq(Nat) /\ Len(Code(s)) \in {1, 2}
         /\ LastByte(s) \in Nat \ {224}
         /\ Long(s) => Code(s) = <<224, LastByte(s)>>
         /\ ~ Long(s) => Code(s) = <<LastByte(s)>>
         /\ Long(s) <=> s.key \in {"UP", "RCTRL"}
         /\ LastByte(s) >= 128 <=> s.type = "RELEASE"
         /\ LastByte(s) % 128 = Scan[s.key] /\ s.key \in DOMAIN Scan
<1> DEFINE k == s.key
           Plainly(c, b) == c = <<b>>
<1>1. k \in {"A", "UP", "NUMPAD8", "LSHIFT", "RSHIFT", "LCTRL", "RCTRL", "LALT", "CAPSLOCK", "NUMLOCK"}
  BY KeyboardAssumption DEF Orderly, Stroke, MakeCode
<1>2. s.type \in {"PRESS", "RELEASE", "REPEAT"}
  BY DEF Stroke
<1> HIDE DEF k
<1>3. ASSUME NEW b \in 0 .. 95, MakeCode[k] = <<b>>
      PROVE  \/ Code(s) = <<b>> /\ s.type # "RELEASE"
             \/ Code(s) = <<b + 128>> /\ s.type = "RELEASE"
  BY <1>1, <1>3 DEF Code, BreakCode, k
<1>4. ASSUME NEW b \in 0 .. 95, MakeCode[k] = <<224, b>>
      PROVE  \/ Code(s) = <<224, b>> /\ s.type # "RELEASE"
             \/ Code(s) = <<224, b + 128>> /\ s.type = "RELEASE"
  BY <1>1, <1>4 DEF Code, BreakCode, k
<1> DEFINE Sent(b, len) == /\ Code(s) \in Seq(Nat) /\ Len(Code(s)) = len
                           /\ LastByte(s) \in Nat \ {224}
                           /\ Code(s) = IF len = 2 THEN <<224, LastByte(s)>> ELSE <<LastByte(s)>>
                           /\ LastByte(s) >= 128 <=> s.type = "RELEASE"
                           /\ LastByte(s) % 128 = b
<1>5. ASSUME NEW b \in 0 .. 95, MakeCode[k] = <<b>> PROVE Sent(b, 1)
  <2>1. CASE Code(s) = <<b>> /\ s.type # "RELEASE"
    <3>1. LastByte(s) = b
      BY <2>1 DEF LastByte
    <3>2. QED
      BY <2>1, <3>1
  <2>2. CASE Code(s) = <<b + 128>> /\ s.type = "RELEASE"
    <3>1. LastByte(s) = b + 128
      BY <2>2 DEF LastByte
    <3>2. QED
      BY <2>2, <3>1
  <2>3. QED
    BY <1>3, <1>5, <2>1, <2>2
<1>6. ASSUME NEW b \in 0 .. 95, MakeCode[k] = <<224, b>> PROVE Sent(b, 2)
  <2>1. CASE Code(s) = <<224, b>> /\ s.type # "RELEASE"
    <3>1. LastByte(s) = b
      BY <2>1 DEF LastByte
    <3>2. QED
      BY <2>1, <3>1
  <2>2. CASE Code(s) = <<224, b + 128>> /\ s.type = "RELEASE"
    <3>1. LastByte(s) = b + 128
      BY <2>2 DEF LastByte
    <3>2. QED
      BY <2>2, <3>1
  <2>3. QED
    BY <1>4, <1>6, <2>1, <2>2
<1>7. Sent(Scan[k], IF k \in {"UP", "RCTRL"} THEN 2 ELSE 1)
  <2> HIDE DEF Sent
  <2>1. CASE k \in {"UP", "RCTRL"}
    <3>1. Scan[k] \in 0 .. 95 /\ MakeCode[k] = <<224, Scan[k]>>
      BY <2>1 DEF MakeCode, Scan
    <3>2. Sent(Scan[k], 2)
      BY <1>6, <3>1
    <3>3. QED
      BY <2>1, <3>2
  <2>2. CASE k \notin {"UP", "RCTRL"}
    <3>1. Scan[k] \in 0 .. 95 /\ MakeCode[k] = <<Scan[k]>>
      BY <1>1, <2>2 DEF MakeCode, Scan
    <3>2. Sent(Scan[k], 1)
      BY <1>5, <3>1
    <3>3. QED
      BY <2>2, <3>2
  <2>3. QED
    BY <2>1, <2>2
<1>8. QED
  BY <1>1, <1>7 DEF Long, Scan, k

-----------------------------------------------------------------------------
(* The wire and the strokes *)

LEMMA MoveDecoded ==
  ASSUME Orderly, QInv, Chained, Decoded, NEW k \in Keys, NEW type \in {"PRESS", "RELEASE", "REPEAT"}, NEW bytes, NEW held,
         Moving(k, type, bytes, held)
  PROVE  Decoded'
<1>0. PICK n \in Nat : n = Len(struck)
  BY DEF Chained
<1>1. PICK w \in Nat : w = Len(wire)
  BY DEF QInv, WireInv
<1>2. PICK d \in 0 .. n : /\ \E h \in [1 .. w -> 1 .. n] : OnWire(d, h)
                          /\ \E f \in [DOMAIN log -> 1 .. d] : Recorded(f)
                          /\ modifiers = After(d)
                          /\ extended => wire # <<>> /\ wire[1] # 224 /\ Long(struck[d + 1])
  <2>1. DOMAIN wire = 1 .. w
    BY <1>1 DEF QInv, WireInv
  <2>2. QED
    BY <1>0, <2>1 DEF Decoded
<1>3. PICK h \in [1 .. w -> 1 .. n] : OnWire(d, h)
  BY <1>2
<1>4. PICK f \in [DOMAIN log -> 1 .. d] : Recorded(f)
  BY <1>2
<1> DEFINE e == [key |-> k, type |-> type, modifiers |-> Meant(held, struck)]
<1>5. struck' = Append(struck, e) /\ wire' = wire \o bytes /\ log' = log /\ modifiers' = modifiers /\ extended' = extended
  BY DEF Moving, Move, decoder
<1>6. e \in Stroke /\ e.key = k /\ e.type = type
  BY MeantIs DEF Stroke
<1>7. bytes = Code(e)
  BY <1>6 DEF Code, Moving
<1> HIDE DEF e
<1>8. /\ struck' \in Seq(Stroke) /\ Len(struck') = n + 1 /\ struck'[n + 1] = e
      /\ \A i \in 1 .. n : struck'[i] = struck[i]
  BY <1>0, <1>5, <1>6 DEF Chained
<1>9. PICK l \in {1, 2} : l = Len(bytes) /\ (Long(e) <=> l = 2) /\ bytes \in Seq(Nat)
  BY <1>6, <1>7, Sends DEF Long
<1>10. /\ l = 2 => bytes[1] = 224 /\ bytes[2] = LastByte(e)
       /\ l = 1 => bytes[1] = LastByte(e)
       /\ LastByte(e) # 224
  <2>1. /\ LastByte(e) \in Nat \ {224}
        /\ Long(e) => bytes = <<224, LastByte(e)>>
        /\ ~ Long(e) => bytes = <<LastByte(e)>>
    BY <1>6, <1>7, Sends
  <2>2. l = 2 => bytes[1] = 224 /\ bytes[2] = LastByte(e)
    <3>1. l = 2 => bytes = <<224, LastByte(e)>>
      BY <1>9, <2>1
    <3>2. QED
      BY <3>1
  <2>3. l = 1 => bytes[1] = LastByte(e)
    <3>1. l = 1 => bytes = <<LastByte(e)>>
      BY <1>9, <2>1
    <3>2. QED
      BY <3>1
  <2>4. QED
    BY <2>1, <2>2, <2>3
<1>11. /\ DOMAIN wire' = 1 .. w + l /\ Len(wire') = w + l /\ wire' # <<>>
       /\ (\A i \in 1 .. w : wire'[i] = wire[i]) /\ wire'[w + 1] = bytes[1] /\ (l = 2 => wire'[w + 2] = bytes[2])
  BY <1>1, <1>5, <1>9 DEF QInv, WireInv
<1> DEFINE g == [i \in 1 .. w + l |-> IF i <= w THEN h[i] ELSE n + 1]
<1>12. /\ g \in [1 .. w + l -> 1 .. n + 1] /\ (\A i \in 1 .. w : g[i] = h[i] /\ h[i] \in 1 .. n /\ struck'[h[i]] = struck[h[i]])
       /\ g[w + 1] = n + 1 /\ (l = 2 => g[w + 2] = n + 1) /\ g[w + l] = n + 1
  <2>1. g \in [1 .. w + l -> 1 .. n + 1]
    BY <1>3
  <2>2. ASSUME NEW i \in 1 .. w
        PROVE  g[i] = h[i] /\ h[i] \in 1 .. n /\ struck'[h[i]] = struck[h[i]]
    <3>1. i \in 1 .. w + l /\ i <= w
      OBVIOUS
    <3>2. QED
      BY <1>3, <1>8, <3>1
  <2>3. ASSUME NEW i \in 1 .. w + l, ~ (i <= w)
        PROVE  g[i] = n + 1
    BY <2>3
  <2>4. w + 1 \in 1 .. w + l /\ w + l \in 1 .. w + l /\ (l = 2 => w + 2 \in 1 .. w + l)
    OBVIOUS
  <2> HIDE DEF g
  <2>5. QED
    BY <2>1, <2>2, <2>3, <2>4
<1> HIDE DEF g
<1>13. wire # <<>> => w > 0 /\ h[1] = d + 1 /\ h[w] = n /\ (extended \/ (Long(struck[h[1]]) <=> wire[1] = 224))
  BY <1>0, <1>1, <1>3 DEF OnWire, QInv, WireInv
<1>14. wire = <<>> => w = 0 /\ d = n /\ ~ extended
  BY <1>0, <1>1, <1>2, <1>3 DEF OnWire
<1>15. g[1] = d + 1
  <2>1. CASE wire = <<>>
    BY <1>12, <1>14, <2>1
  <2>2. CASE wire # <<>>
    <3>1. 1 \in 1 .. w
      BY <1>13, <2>2
    <3>2. QED
      BY <1>12, <1>13, <2>2, <3>1
  <2>3. QED
    BY <2>1, <2>2
<1>16. extended' \/ (Long(struck'[g[1]]) <=> wire'[1] = 224)
  <2>1. CASE wire = <<>>
    <3>1. wire'[1] = bytes[1] /\ struck'[g[1]] = e
      BY <1>8, <1>11, <1>12, <1>14, <2>1
    <3>2. QED
      BY <1>9, <1>10, <3>1
  <2>2. CASE wire # <<>>
    <3>1. 1 \in 1 .. w
      BY <1>13, <2>2
    <3>2. QED
      <4>1. struck'[g[1]] = struck[h[1]] /\ wire'[1] = wire[1]
        BY <1>11, <1>12, <3>1
      <4>2. extended \/ (Long(struck[h[1]]) <=> wire[1] = 224)
        BY <1>13, <2>2
      <4>3. QED
        BY <1>5, <4>1, <4>2
  <2>3. QED
    BY <2>1, <2>2
<1>17. ASSUME NEW i \in 1 .. w + l
       PROVE  /\ wire'[i] = 224 => i < w + l /\ g[i + 1] = g[i] /\ Long(struck'[g[i]]) /\ wire'[i + 1] # 224
              /\ wire'[i] # 224 =>
                   /\ wire'[i] = LastByte(struck'[g[i]])
                   /\ i < w + l => g[i + 1] = g[i] + 1 /\ (Long(struck'[g[i + 1]]) <=> wire'[i + 1] = 224)
  <2>1. CASE i < w
    <3>1. i \in 1 .. w /\ i + 1 \in 1 .. w
      BY <2>1
    <3>2. /\ wire[i] = 224 => h[i + 1] = h[i] /\ Long(struck[h[i]]) /\ wire[i + 1] # 224
          /\ wire[i] # 224 => /\ wire[i] = LastByte(struck[h[i]])
                              /\ h[i + 1] = h[i] + 1 /\ (Long(struck[h[i + 1]]) <=> wire[i + 1] = 224)
      <4>1. i \in DOMAIN wire /\ i < Len(wire)
        BY <1>1, <2>1, <3>1 DEF QInv, WireInv
      <4>2. QED
        BY <1>3, <4>1 DEF OnWire
    <3>3. i < w + l
      BY <2>1
    <3>4. QED
      BY <1>11, <1>12, <3>1, <3>2, <3>3, SMTT(30)
  <2>2. CASE i = w
    <3>1. i \in 1 .. w /\ i < w + l /\ wire # <<>>
      BY <1>14, <2>2
    <3>2. wire[i] # 224 /\ wire[i] = LastByte(struck[h[i]])
      <4>1. i \in DOMAIN wire /\ ~ (i < Len(wire))
        BY <1>1, <2>2, <3>1 DEF QInv, WireInv
      <4>2. QED
        BY <1>3, <4>1 DEF OnWire
    <3>3. g[i] = n /\ g[i + 1] = n + 1
      BY <1>12, <1>13, <2>2, <3>1
    <3>4. wire'[i] = wire[i] /\ struck'[g[i]] = struck[h[i]]
      BY <1>11, <1>12, <3>1
    <3>5. Long(struck'[g[i + 1]]) <=> wire'[i + 1] = 224
      BY <1>8, <1>9, <1>10, <1>11, <2>2, <3>3
    <3>6. QED
      BY <3>1, <3>2, <3>3, <3>4, <3>5
  <2>3. CASE i = w + 1
    <3>1. g[i] = n + 1 /\ struck'[g[i]] = e /\ wire'[i] = bytes[1]
      BY <1>8, <1>11, <1>12, <2>3
    <3>2. CASE l = 1
      BY <1>10, <2>3, <3>1, <3>2
    <3>3. CASE l = 2
      <4>1. i + 1 = w + 2 /\ i < w + l
        BY <2>3, <3>3
      <4>2. wire'[i + 1] = LastByte(e) /\ g[i + 1] = n + 1 /\ wire'[i] = 224
        BY <1>10, <1>11, <1>12, <3>1, <3>3, <4>1
      <4>3. QED
        BY <1>9, <1>10, <3>1, <3>3, <4>1, <4>2
    <3>4. QED
      BY <3>2, <3>3
  <2>4. CASE i = w + 2 /\ l = 2
    <3>1. g[i] = n + 1 /\ struck'[g[i]] = e /\ wire'[i] = LastByte(e) /\ ~ (i < w + l)
      BY <1>8, <1>10, <1>11, <1>12, <2>4
    <3>2. QED
      BY <1>10, <3>1
  <2>5. QED
    BY <2>1, <2>2, <2>3, <2>4
<1>18. OnWire(d, g)'
  <2>1. g[Len(wire')] = Len(struck')
    BY <1>8, <1>11, <1>12
  <2>2. ASSUME NEW i \in DOMAIN wire'
        PROVE  /\ wire'[i] = 224 => i < Len(wire') /\ g[i + 1] = g[i] /\ Long(struck'[g[i]]) /\ wire'[i + 1] # 224
               /\ wire'[i] # 224 =>
                    /\ wire'[i] = LastByte(struck'[g[i]])
                    /\ i < Len(wire') => g[i + 1] = g[i] + 1 /\ (Long(struck'[g[i + 1]]) <=> wire'[i + 1] = 224)
    BY <1>11, <1>17
  <2>3. QED
    BY <1>11, <1>15, <1>16, <2>1, <2>2 DEF OnWire
<1>19. Recorded(f)'
  <2>1. \A i \in DOMAIN log : struck'[f[i]] = struck[f[i]]
    BY <1>4, <1>8
  <2>2. QED
    BY <1>4, <1>5, <2>1 DEF Recorded
<1>20. modifiers' = After(d)'
  <2>1. d = 0 \/ struck'[d] = struck[d]
    BY <1>8
  <2>2. QED
    BY <1>2, <1>5, <2>1 DEF After
<1>21. extended' => wire' # <<>> /\ wire'[1] # 224 /\ Long(struck'[d + 1])
  <2>1. ASSUME extended
        PROVE  wire'[1] # 224 /\ Long(struck'[d + 1])
    <3>1. wire # <<>> /\ wire[1] # 224 /\ Long(struck[d + 1])
      BY <1>2, <2>1
    <3>2. 1 \in 1 .. w
      BY <1>13, <3>1
    <3>3. d + 1 \in 1 .. n
      BY <1>12, <1>13, <3>1, <3>2
    <3>4. wire'[1] = wire[1] /\ struck'[d + 1] = struck[d + 1]
      BY <1>8, <1>11, <3>2, <3>3
    <3>5. QED
      BY <3>1, <3>4
  <2>2. QED
    BY <1>5, <1>11, <2>1
<1>22. QED
  <2>1. d \in 0 .. Len(struck') /\ g \in [DOMAIN wire' -> 1 .. Len(struck')] /\ f \in [DOMAIN log' -> 1 .. d]
    BY <1>4, <1>5, <1>8, <1>11, <1>12
  <2>2. QED
    BY <1>18, <1>19, <1>20, <1>21, <2>1 DEF Decoded

LEMMA KeyEffect ==
  ASSUME Orderly, NEW s \in Stroke, extended \in BOOLEAN, extended <=> Long(s)
  PROVE  LET code == scancode_to_keycode(LastByte(s) % 128)
         IN \/ s.key \in DOMAIN Keycode /\ code = Keycode[s.key] /\ code # KEY_UNKNOWN /\ Flag(code) = "none"
            \/ s.key \in DOMAIN FlagOf /\ Flag(code) = FlagOf[s.key]
            \/ s.key \in {"CAPSLOCK", "NUMLOCK"} /\ Flag(code) = s.key
            \/ s.key = "RCTRL" /\ code = KEY_UNKNOWN /\ Flag(code) = "none"
<1> DEFINE code == scancode_to_keycode(LastByte(s) % 128)
<1>1. LastByte(s) % 128 = Scan[s.key] /\ s.key \in DOMAIN Scan /\ (extended <=> s.key \in {"UP", "RCTRL"})
  BY Sends
<1>2. CASE s.key = "UP"
  <2>1. code = 57416
    BY <1>1, <1>2 DEF scancode_to_keycode, ExtendedKeys, Scan
  <2>2. QED
    BY <1>2, <2>1 DEF Keycode, KEY_UNKNOWN, Flag
<1>3. CASE s.key = "RCTRL"
  <2>1. code = 0
    BY <1>1, <1>3 DEF scancode_to_keycode, ExtendedKeys, Scan, KEY_UNKNOWN
  <2>2. QED
    BY <1>3, <2>1 DEF KEY_UNKNOWN, Flag
<1>4. CASE s.key \notin {"UP", "RCTRL"}
  <2>1. code = Scan[s.key]
    BY <1>1, <1>4 DEF scancode_to_keycode, scancode_table, Scan
  <2>2. s.key \in {"A", "NUMPAD8", "LSHIFT", "RSHIFT", "LCTRL", "LALT", "CAPSLOCK", "NUMLOCK"}
    BY <1>1, <1>4 DEF Scan
  <2>3. CASE s.key \in {"A", "NUMPAD8"}
    BY <2>1, <2>3 DEF Keycode, Flag, KEY_UNKNOWN, Scan
  <2>4. CASE s.key \in {"LSHIFT", "RSHIFT", "LCTRL", "LALT"}
    BY <2>1, <2>4 DEF FlagOf, Flag, Scan
  <2>5. CASE s.key \in {"CAPSLOCK", "NUMLOCK"}
    BY <2>1, <2>5 DEF Flag, Scan
  <2>6. QED
    BY <2>2, <2>3, <2>4, <2>5
<1>5. QED
  BY <1>2, <1>3, <1>4

(* The modifier byte after a stroke whose last byte came. *)
LEMMA StrokeEffect ==
  ASSUME Orderly, Chained, handler, isr_keyboard, NEW d \in Nat, d + 1 \in DOMAIN struck, modifiers = After(d),
         extended \in BOOLEAN, extended <=> Long(struck[d + 1]), Head(wire) # 224, Head(wire) = LastByte(struck[d + 1])
  PROVE  /\ modifiers' = After(d + 1) /\ extended' = FALSE
         /\ \/ UNCHANGED <<ring, log>>
            \/ /\ struck[d + 1].key \in DOMAIN Keycode
               /\ log' = Append(log, [code |-> Keycode[struck[d + 1].key], modifiers |-> struck[d + 1].modifiers,
                                      type |-> IF struck[d + 1].type = "RELEASE" THEN "RELEASE" ELSE "PRESS"])
<1> DEFINE s == struck[d + 1]
           code == scancode_to_keycode(LastByte(s) % 128)
           released == LastByte(s) >= 128
<1>1. s \in Stroke /\ Follows(d + 1) /\ (s.type = "REPEAT" => s.key \in Repeating)
  BY DEF Chained
<1>2. released <=> s.type = "RELEASE"
  BY <1>1, Sends
<1>3. /\ extended' = FALSE
      /\ IF Flag(code) # "none"
         THEN modifiers' = Modified(Flag(code), released) /\ UNCHANGED <<ring, log>>
         ELSE /\ UNCHANGED modifiers
              /\ IF code = KEY_UNKNOWN THEN UNCHANGED <<ring, log>>
                 ELSE queue_event(code, IF released THEN "RELEASE" ELSE "PRESS")
  BY DEF isr_keyboard, keyboard_handle_scancode
<1>4. s.modifiers = IF s.key \notin DOMAIN FlagOf THEN modifiers
                    ELSE IF s.type = "RELEASE" THEN modifiers \ {FlagOf[s.key]}
                    ELSE modifiers \cup {FlagOf[s.key]}
  <2>1. (d + 1) - 1 = d
    OBVIOUS
  <2>2. QED
    BY <1>1, <2>1 DEF Follows
<1>5. After(d + 1) = IF s.key \in {"CAPSLOCK", "NUMLOCK"} /\ s.type = "PRESS"
                     THEN (s.modifiers \cup {s.key}) \ (s.modifiers \cap {s.key}) ELSE s.modifiers
  <2>1. d + 1 # 0
    OBVIOUS
  <2>2. QED
    BY <2>1 DEF After
<1>6. /\ DOMAIN FlagOf = {"LSHIFT", "RSHIFT", "LCTRL", "LALT"} /\ DOMAIN Keycode = {"A", "UP", "NUMPAD8"}
      /\ \A k \in DOMAIN FlagOf : FlagOf[k] \in {"SHIFT", "CTRL", "ALT"}
  BY DEF FlagOf, Keycode
<1>7. \/ s.key \in DOMAIN Keycode /\ code = Keycode[s.key] /\ code # KEY_UNKNOWN /\ Flag(code) = "none"
      \/ s.key \in DOMAIN FlagOf /\ Flag(code) = FlagOf[s.key]
      \/ s.key \in {"CAPSLOCK", "NUMLOCK"} /\ Flag(code) = s.key
      \/ s.key = "RCTRL" /\ code = KEY_UNKNOWN /\ Flag(code) = "none"
  BY <1>1, KeyEffect
<1> HIDE DEF s, code, released
<1>8. CASE s.key \in DOMAIN Keycode /\ code = Keycode[s.key] /\ code # KEY_UNKNOWN /\ Flag(code) = "none"
  <2>1. s.modifiers = modifiers /\ After(d + 1) = modifiers /\ modifiers' = modifiers
    BY <1>3, <1>4, <1>5, <1>6, <1>8
  <2>2. queue_event(code, IF s.type = "RELEASE" THEN "RELEASE" ELSE "PRESS")
    BY <1>2, <1>3, <1>8
  <2>3. \/ UNCHANGED <<ring, log>>
        \/ log' = Append(log, [code |-> Keycode[s.key], modifiers |-> s.modifiers,
                               type |-> IF s.type = "RELEASE" THEN "RELEASE" ELSE "PRESS"])
    BY <1>8, <2>1, <2>2 DEF queue_event
  <2>4. QED
    BY <1>3, <1>8, <2>1, <2>3 DEF s
<1>9. CASE s.key \in DOMAIN FlagOf /\ Flag(code) = FlagOf[s.key]
  <2>1. Flag(code) # "none" /\ Flag(code) \notin {"CAPSLOCK", "NUMLOCK"} /\ s.key \notin {"CAPSLOCK", "NUMLOCK"}
    BY <1>6, <1>9
  <2>2. modifiers' = After(d + 1)
    BY <1>2, <1>3, <1>4, <1>5, <1>9, <2>1 DEF Modified
  <2>3. QED
    BY <1>3, <2>1, <2>2
<1>10. CASE s.key \in {"CAPSLOCK", "NUMLOCK"} /\ Flag(code) = s.key
  <2>1. s.type = "PRESS" \/ s.type = "RELEASE"
    BY <1>1, <1>10 DEF Orderly, Stroke
  <2>2. Flag(code) # "none" /\ s.key \notin DOMAIN FlagOf
    BY <1>6, <1>10
  <2>3. modifiers' = After(d + 1)
    BY <1>2, <1>3, <1>4, <1>5, <1>10, <2>1, <2>2 DEF Modified
  <2>4. QED
    BY <1>3, <2>2, <2>3
<1>11. CASE s.key = "RCTRL" /\ code = KEY_UNKNOWN /\ Flag(code) = "none"
  BY <1>3, <1>4, <1>5, <1>6, <1>11
<1>12. QED
  BY <1>7, <1>8, <1>9, <1>10, <1>11

LEMMA ByteDecoded ==
  ASSUME Orderly, QInv, Chained, Decoded, isr_keyboard, handler
  PROVE  Decoded'
<1>0. PICK n \in Nat : n = Len(struck)
  BY DEF Chained
<1>1. PICK w \in Nat \ {0} : w = Len(wire) /\ DOMAIN wire = 1 .. w
  BY DEF QInv, WireInv, isr_keyboard
<1>2. PICK d \in 0 .. n : /\ \E h \in [1 .. w -> 1 .. n] : OnWire(d, h)
                          /\ \E f \in [DOMAIN log -> 1 .. d] : Recorded(f)
                          /\ modifiers = After(d)
                          /\ extended => wire # <<>> /\ wire[1] # 224 /\ Long(struck[d + 1])
  BY <1>0, <1>1 DEF Decoded
<1>3. PICK h \in [1 .. w -> 1 .. n] : OnWire(d, h)
  BY <1>2
<1>4. PICK f \in [DOMAIN log -> 1 .. d] : Recorded(f)
  BY <1>2
<1>5. /\ wire # <<>> /\ wire' = Tail(wire) /\ struck' = struck /\ extended \in BOOLEAN
      /\ log \in Seq(Event) /\ modifiers \subseteq MOD /\ struck \in Seq(Stroke)
  BY DEF isr_keyboard, QInv, TypeOK, RingInv, Chained
<1>6. /\ Head(wire) = wire[1] /\ DOMAIN wire' = 1 .. w - 1 /\ Len(wire') = w - 1
      /\ (\A i \in 1 .. w - 1 : wire'[i] = wire[i + 1]) /\ (wire' = <<>> <=> w = 1)
  <2>1. wire \in Seq(Bytes)
    BY DEF QInv, WireInv
  <2>2. Head(wire) = wire[1] /\ Tail(wire) \in Seq(Bytes) /\ Len(Tail(wire)) = w - 1
    BY <1>1, <1>5, <2>1
  <2>3. \A i \in 1 .. w - 1 : Tail(wire)[i] = wire[i + 1]
    BY <1>1, <1>5, <2>1
  <2>4. Tail(wire) = <<>> <=> w = 1
    BY <1>1, <2>2, SMTT(30)
  <2>5. QED
    BY <1>5, <2>2, <2>3, <2>4
<1> DEFINE g == [i \in 1 .. w - 1 |-> h[i + 1]]
<1>7. g \in [1 .. w - 1 -> 1 .. n] /\ \A i \in 1 .. w - 1 : g[i] = h[i + 1] /\ i + 1 \in 1 .. w
  BY <1>3
<1> HIDE DEF g
<1>8. /\ h[1] = d + 1 /\ h[w] = n /\ (extended \/ (Long(struck[d + 1]) <=> wire[1] = 224))
      /\ wire[1] = 224 => 1 < w /\ h[2] = d + 1 /\ wire[2] # 224 /\ Long(struck[d + 1])
      /\ wire[1] # 224 => /\ wire[1] = LastByte(struck[d + 1])
                          /\ 1 < w => h[2] = d + 2 /\ (Long(struck[h[2]]) <=> wire[2] = 224)
  <2>1. 1 \in DOMAIN wire /\ 1 + 1 = 2 /\ d + 1 + 1 = d + 2
    BY <1>1
  <2>2. h[1] = d + 1 /\ h[w] = n /\ (extended \/ (Long(struck[h[1]]) <=> wire[1] = 224))
    BY <1>0, <1>1, <1>3, <1>5 DEF OnWire
  <2>3. /\ wire[1] = 224 => 1 < Len(wire) /\ h[1 + 1] = h[1] /\ Long(struck[h[1]]) /\ wire[1 + 1] # 224
        /\ wire[1] # 224 =>
             /\ wire[1] = LastByte(struck[h[1]])
             /\ 1 < Len(wire) => h[1 + 1] = h[1] + 1 /\ (Long(struck[h[1 + 1]]) <=> wire[1 + 1] = 224)
    BY <1>3, <2>1 DEF OnWire
  <2>4. QED
    BY <1>1, <2>1, <2>2, <2>3
<1>9. d + 1 \in 1 .. n
  <2>1. 1 \in 1 .. w
    OBVIOUS
  <2>2. h[1] \in 1 .. n
    BY <1>3, <2>1
  <2>3. QED
    BY <1>8, <2>2
<1>10. ASSUME NEW i \in DOMAIN wire'
       PROVE  /\ wire'[i] = 224 => i < Len(wire') /\ g[i + 1] = g[i] /\ Long(struck'[g[i]]) /\ wire'[i + 1] # 224
              /\ wire'[i] # 224 =>
                   /\ wire'[i] = LastByte(struck'[g[i]])
                   /\ i < Len(wire') => g[i + 1] = g[i] + 1 /\ (Long(struck'[g[i + 1]]) <=> wire'[i + 1] = 224)
  <2>1. i \in 1 .. w - 1 /\ i + 1 \in DOMAIN wire /\ wire'[i] = wire[i + 1] /\ g[i] = h[i + 1]
        /\ (i < Len(wire') <=> i + 1 < Len(wire))
    BY <1>1, <1>6, <1>7
  <2>2. i < Len(wire') => wire'[i + 1] = wire[(i + 1) + 1] /\ g[i + 1] = h[(i + 1) + 1]
    BY <1>6, <1>7, <2>1, SMTT(30)
  <2>3. /\ wire[i + 1] = 224 => i + 1 < Len(wire) /\ h[(i + 1) + 1] = h[i + 1] /\ Long(struck[h[i + 1]]) /\ wire[(i + 1) + 1] # 224
        /\ wire[i + 1] # 224 =>
             /\ wire[i + 1] = LastByte(struck[h[i + 1]])
             /\ i + 1 < Len(wire) => h[(i + 1) + 1] = h[i + 1] + 1 /\ (Long(struck[h[(i + 1) + 1]]) <=> wire[(i + 1) + 1] = 224)
    BY <1>3, <2>1 DEF OnWire
  <2>4. QED
    BY <1>5, <2>1, <2>2, <2>3, SMTT(30)
<1>11. wire' # <<>> => g[1] = h[2] /\ g[Len(wire')] = n /\ wire'[1] = wire[2]
  <2>1. ASSUME w # 1
        PROVE  g[1] = h[2] /\ g[w - 1] = n /\ wire'[1] = wire[2]
    <3>1. 1 \in 1 .. w - 1 /\ w - 1 \in 1 .. w - 1 /\ (w - 1) + 1 = w /\ 1 + 1 = 2
      BY <2>1
    <3>2. g[1] = h[1 + 1] /\ g[w - 1] = h[(w - 1) + 1] /\ wire'[1] = wire[1 + 1]
      BY <1>6, <1>7, <3>1
    <3>3. QED
      BY <1>8, <3>1, <3>2
  <2>2. QED
    BY <1>6, <2>1
<1>12. g \in [DOMAIN wire' -> 1 .. Len(struck')]
  BY <1>0, <1>5, <1>6, <1>7
<1>13. \A i \in Nat : After(i)' = After(i)
  BY <1>5 DEF After
<1>14. CASE wire[1] = 224
  <2>1. extended' = TRUE /\ log' = log /\ modifiers' = modifiers
    BY <1>6, <1>14 DEF isr_keyboard, keyboard_handle_scancode
  <2>2. wire' # <<>>
    BY <1>6, <1>8, <1>14
  <2>3. OnWire(d, g)'
    BY <1>0, <1>5, <1>8, <1>10, <1>11, <1>14, <2>1, <2>2 DEF OnWire
  <2>4. Recorded(f)' /\ f \in [DOMAIN log' -> 1 .. d]
    BY <1>4, <1>5, <2>1 DEF Recorded
  <2>5. wire'[1] # 224 /\ Long(struck'[d + 1])
    BY <1>5, <1>8, <1>11, <1>14, <2>2
  <2>6. modifiers' = After(d)'
    BY <1>2, <1>13, <2>1
  <2>7. d \in 0 .. Len(struck')
    BY <1>0, <1>5
  <2>8. QED
    BY <1>12, <2>2, <2>3, <2>4, <2>5, <2>6, <2>7 DEF Decoded
<1>15. CASE wire[1] # 224
  <2> DEFINE s == struck[d + 1]
             e == [code |-> Keycode[s.key], modifiers |-> s.modifiers,
                   type |-> IF s.type = "RELEASE" THEN "RELEASE" ELSE "PRESS"]
  <2>1. extended <=> Long(struck[d + 1])
    BY <1>2, <1>8, <1>15
  <2>2. /\ modifiers' = After(d + 1) /\ extended' = FALSE
        /\ UNCHANGED <<ring, log>> \/ (s.key \in DOMAIN Keycode /\ log' = Append(log, e))
    <3>1. d \in Nat /\ d + 1 \in DOMAIN struck /\ Head(wire) # 224 /\ Head(wire) = LastByte(struck[d + 1])
      BY <1>0, <1>5, <1>6, <1>8, <1>9, <1>15
    <3>2. QED
      BY <1>2, <1>5, <2>1, <3>1, StrokeEffect
  <2>3. PICK c \in 0 .. n : c = d + 1 /\ c \in Nat /\ c + 1 = d + 2
    BY <1>9
  <2>4. wire' = <<>> => c = Len(struck')
    BY <1>0, <1>5, <1>6, <1>8, <2>3
  <2>5. wire' # <<>> => g[1] = c + 1 /\ (Long(struck'[g[1]]) <=> wire'[1] = 224)
    BY <1>5, <1>6, <1>8, <1>11, <1>15, <2>3, SMTT(30)
  <2>6. OnWire(c, g)'
    BY <1>0, <1>5, <1>10, <1>11, <2>4, <2>5 DEF OnWire
  <2>7. modifiers' = After(c)'
    BY <1>13, <2>2, <2>3
  <2>8. \E f2 \in [DOMAIN log' -> 1 .. c] : Recorded(f2)'
    <3>1. CASE UNCHANGED <<ring, log>>
      <4>1. Recorded(f)' /\ f \in [DOMAIN log' -> 1 .. c]
        BY <1>4, <1>5, <2>3, <3>1 DEF Recorded
      <4>2. QED
        BY <4>1
    <3>2. CASE s.key \in DOMAIN Keycode /\ log' = Append(log, e)
      <4>1. PICK l \in Nat : l = Len(log) /\ DOMAIN log = 1 .. l
        BY <1>5
      <4>2. /\ DOMAIN log' = 1 .. l + 1 /\ log'[l + 1] = e /\ \A i \in 1 .. l : log'[i] = log[i]
        BY <1>5, <3>2, <4>1
      <4> DEFINE f2 == [i \in 1 .. l + 1 |-> IF i <= l THEN f[i] ELSE c]
      <4>3. f2 \in [1 .. l + 1 -> 1 .. c] /\ (\A i \in 1 .. l : f2[i] = f[i] /\ f[i] \in 1 .. d) /\ f2[l + 1] = c
        <5>1. f2 \in [1 .. l + 1 -> 1 .. c]
          BY <1>4, <2>3, <4>1
        <5>2. ASSUME NEW i \in 1 .. l
              PROVE  f2[i] = f[i] /\ f[i] \in 1 .. d
          BY <1>4, <4>1
        <5>3. f2[l + 1] = c
          OBVIOUS
        <5>4. QED
          BY <5>1, <5>2, <5>3
      <4> HIDE DEF f2, e
      <4>4. ASSUME NEW i \in 1 .. l + 1
            PROVE  /\ i > 1 => f2[i - 1] < f2[i]
                   /\ struck'[f2[i]].key \in DOMAIN Keycode
                   /\ log'[i] = [code |-> Keycode[struck'[f2[i]].key], modifiers |-> struck'[f2[i]].modifiers,
                                 type |-> IF struck'[f2[i]].type = "RELEASE" THEN "RELEASE" ELSE "PRESS"]
        <5>1. CASE i <= l
          <6>1. i \in 1 .. l /\ (i > 1 => i - 1 \in 1 .. l)
            BY <5>1
          <6>2. f2[i] = f[i] /\ log'[i] = log[i] /\ (i > 1 => f2[i - 1] = f[i - 1])
            BY <4>2, <4>3, <6>1
          <6>3. /\ i > 1 => f[i - 1] < f[i]
                /\ struck[f[i]].key \in DOMAIN Keycode
                /\ log[i] = [code |-> Keycode[struck[f[i]].key], modifiers |-> struck[f[i]].modifiers,
                             type |-> IF struck[f[i]].type = "RELEASE" THEN "RELEASE" ELSE "PRESS"]
            BY <1>4, <4>1, <6>1 DEF Recorded
          <6>4. QED
            BY <1>5, <6>2, <6>3
        <5>2. CASE i = l + 1
          <6>1. f2[i] = c /\ log'[i] = e /\ struck'[c] = s
            BY <1>5, <2>3, <4>2, <4>3, <5>2
          <6>2. i > 1 => f2[i - 1] \in 1 .. d
            <7>1. i > 1 => i - 1 \in 1 .. l
              BY <5>2
            <7>2. QED
              BY <4>3, <7>1
          <6>3. i > 1 => f2[i - 1] < c
            BY <2>3, <6>2
          <6>4. QED
            BY <3>2, <6>1, <6>3 DEF e
        <5>3. QED
          BY <5>1, <5>2
      <4>5. Recorded(f2)'
        BY <4>2, <4>4 DEF Recorded
      <4>6. QED
        BY <4>2, <4>3, <4>5
    <3>3. QED
      BY <2>2, <3>1, <3>2
  <2>9. c \in 0 .. Len(struck')
    BY <1>0, <1>5
  <2>10. QED
    BY <1>12, <2>2, <2>6, <2>7, <2>8, <2>9 DEF Decoded
<1>16. QED
  BY <1>14, <1>15

-----------------------------------------------------------------------------
(* What waits is what was typed *)

LEMMA InitI ==
  ASSUME Init
  PROVE  IInv
<1>1. QInv
  BY RingInit
<1> USE DEF Init
<1>2. struck = <<>> /\ Len(struck) = 0 /\ struck \in Seq(Stroke) /\ DOMAIN struck = {}
  OBVIOUS
<1>3. Meant(down, struck) = {}
  <2>1. \A f : Pressed(f, struck) = {}
    BY <1>2 DEF Pressed
  <2>2. Cardinality({}) = 0 /\ ~ (0 % 2 = 1)
    BY FS_EmptySet
  <2>3. QED
    BY <2>1, <2>2 DEF Meant
<1>4. Chained
  BY <1>2, <1>3 DEF Chained, After
<1>5. Decoded
  <2>1. 0 \in 0 .. Len(struck) /\ modifiers = After(0) /\ ~ extended
    BY <1>2 DEF After
  <2>2. DOMAIN wire = {} /\ DOMAIN log = {}
    OBVIOUS
  <2>3. << >> \in [DOMAIN wire -> 1 .. Len(struck)] /\ << >> \in [DOMAIN log -> 1 .. 0]
    BY <2>2
  <2>4. OnWire(0, << >>) /\ Recorded(<< >>)
    BY <1>2, <2>2 DEF OnWire, Recorded
  <2>5. QED
    BY <2>1, <2>3, <2>4 DEF Decoded
<1>6. QED
  BY <1>1, <1>4, <1>5 DEF IInv

LEMMA ChainStays ==
  ASSUME Chained, UNCHANGED <<struck, down>>
  PROVE  Chained' /\ \A n \in Nat : After(n)' = After(n)
<1>1. \A n \in Nat : After(n)' = After(n)
  BY DEF After
<1>2. Meant(down, struck)' = Meant(down, struck)
  OBVIOUS
<1>3. \A n \in DOMAIN struck : n - 1 \in Nat
  BY DEF Chained
<1>4. \A n \in DOMAIN struck : Follows(n)'
  BY <1>1, <1>3 DEF Follows, Chained
<1>5. Len(struck) \in Nat
  BY DEF Chained
<1>6. QED
  BY <1>1, <1>2, <1>4, <1>5 DEF Chained

(* The main program is at neither end of the wire. *)
LEMMA Apart ==
  ASSUME IInv, UNCHANGED <<struck, down, wire, log, modifiers, extended, missed>>
  PROVE  Chained' /\ (~ missed' => Decoded')
<1>1. Chained' /\ \A n \in Nat : After(n)' = After(n)
  BY ChainStays DEF IInv
<1>2. ASSUME Decoded
      PROVE  Decoded'
  <2>1. PICK d \in 0 .. Len(struck) :
          /\ \E h \in [DOMAIN wire -> 1 .. Len(struck)] : OnWire(d, h)
          /\ \E f \in [DOMAIN log -> 1 .. d] : Recorded(f)
          /\ modifiers = After(d)
          /\ extended => wire # <<>> /\ wire[1] # 224 /\ Long(struck[d + 1])
    BY <1>2 DEF Decoded
  <2>2. PICK h \in [DOMAIN wire -> 1 .. Len(struck)] : OnWire(d, h)
    BY <2>1
  <2>3. PICK f \in [DOMAIN log -> 1 .. d] : Recorded(f)
    BY <2>1
  <2>4. OnWire(d, h)' /\ Recorded(f)'
    BY <2>2, <2>3 DEF OnWire, Recorded
  <2>5. modifiers' = After(d)'
    BY <1>1, <2>1
  <2>6. QED
    BY <2>1, <2>4, <2>5 DEF Decoded
<1>3. QED
  BY <1>1, <1>2 DEF IInv

LEMMA StepI ==
  ASSUME Orderly, IInv, [Next]_vars
  PROVE  IInv'
<1>1. QInv'
  BY StepQ DEF IInv
<1>2. CASE UNCHANGED vars
  BY <1>1, <1>2, Apart DEF IInv, vars, device, decoder
<1>3. CASE (\E k \in Keys : Press(k) \/ Release(k)) \/ (\E k \in Repeating : Repeat(k))
  <2>a. PICK k \in Keys, type \in {"PRESS", "RELEASE", "REPEAT"} : \E bytes, held : Moving(k, type, bytes, held)
    BY <1>3, UserMoves
  <2>1. PICK bytes, held : Moving(k, type, bytes, held)
    BY <2>a
  <2>2. Chained' /\ (Decoded => Decoded') /\ missed' = missed
    BY <2>1, MoveChained, MoveDecoded DEF IInv, Moving, Move
  <2>3. QED
    BY <1>1, <2>2 DEF IInv
<1>4. CASE isr_keyboard
  <2>1. Chained'
    BY <1>4, ChainStays DEF IInv, isr_keyboard
  <2>2. ~ missed' => handler /\ ~ missed
    BY <1>4 DEF isr_keyboard
  <2>3. QED
    BY <1>1, <1>4, <2>1, <2>2, ByteDecoded DEF IInv
<1>5. CASE keyboard_init
  <2>1. modifiers' = modifiers /\ extended' = extended
    BY <1>5 DEF keyboard_init, IInv, QInv, RingInv, TypeOK
  <2>2. QED
    BY <1>1, <1>5, <2>1, Apart DEF keyboard_init, device, IInv
<1>6. CASE keyboard_get_event
  BY <1>1, <1>6, Apart DEF keyboard_get_event, device, decoder, IInv
<1>7. CASE keyboard_clear_buffer
  BY <1>1, <1>7, Apart DEF keyboard_clear_buffer, device, decoder, IInv
<1>8. CASE \E x \in todo : GetStep(x)
  BY <1>1, <1>8, Apart DEF GetStep, device, decoder, IInv
<1>9. CASE \E x \in todo : ClearStep(x)
  BY <1>1, <1>9, Apart DEF ClearStep, device, decoder, IInv
<1>10. QED
  BY <1>2, <1>3, <1>4, <1>5, <1>6, <1>7, <1>8, <1>9 DEF Next, Main

LEMMA IInvMeans ==
  ASSUME IInv
  PROVE  EventsAreStrokes /\ ModifiersAreMeant
<1>1. TypeOK /\ RingIsLog
  BY DEF IInv, QInv, RingInv
<1>2. LogIsStrokes
  <2>1. ASSUME ~ missed
        PROVE  \E f \in [DOMAIN log -> DOMAIN struck] : Recorded(f)
    <3>1. PICK d \in 0 .. Len(struck) : \E f \in [DOMAIN log -> 1 .. d] : Recorded(f)
      BY <2>1 DEF IInv, Decoded
    <3>2. DOMAIN struck = 1 .. Len(struck) /\ Len(struck) \in Nat
      BY DEF IInv, Chained
    <3>3. \A f \in [DOMAIN log -> 1 .. d] : f \in [DOMAIN log -> DOMAIN struck]
      BY <3>2
    <3>4. QED
      BY <3>1, <3>3
  <2>2. QED
    BY <2>1 DEF LogIsStrokes, Recorded
<1>3. ModifiersAreMeant
  BY DEF IInv, Decoded, OnWire, Chained, ModifiersAreMeant
<1>4. QED
  BY <1>1, <1>2, <1>3 DEF EventsAreStrokes

(* With the keys of Orderly, every event that waits is that of a key that  *)
(* was struck, in order and with the modifiers of its stroke, once         *)
(* keyboard_init found no byte lost.                                       *)
THEOREM EventsAreThoseStruck == Orderly => (Spec => []EventsAreStrokes)
<1> SUFFICES ASSUME Orderly
             PROVE  Spec => []EventsAreStrokes
  OBVIOUS
<1>1. Init => IInv
  BY InitI
<1>2. IInv /\ [Next]_vars => IInv'
  BY StepI
<1>3. IInv => EventsAreStrokes
  BY IInvMeans
<1>4. QED
  BY <1>1, <1>2, <1>3, PTL DEF Spec

(* And with every byte handled, the modifier byte is what the user means:  *)
(* what is held, and whether a lock key went down an odd number of times.  *)
THEOREM ModifiersAreThoseMeant == Orderly => (Spec => []ModifiersAreMeant)
<1> SUFFICES ASSUME Orderly
             PROVE  Spec => []ModifiersAreMeant
  OBVIOUS
<1>1. Init => IInv
  BY InitI
<1>2. IInv /\ [Next]_vars => IInv'
  BY StepI
<1>3. IInv => ModifiersAreMeant
  BY IInvMeans
<1>4. QED
  BY <1>1, <1>2, <1>3, PTL DEF Spec

-----------------------------------------------------------------------------
(* Console: its constants *)
W == screenwidth
H == screenheight
T == tabsize

LEMMA Shape ==
  /\ W \in Nat \ {0} /\ H \in Nat \ {0} /\ T \in Nat \ {0} /\ W % T = 0 /\ W * H \in Nat /\ (H - 1) * W \in Nat
  /\ INPUT_BUFFER_SIZE \in Nat /\ INPUT_BUFFER_SIZE >= 2 /\ INPUT_BUFFER_SIZE <= (H - 1) * W + 2
  /\ Columns = 0 .. W - 1 /\ Rows = 0 .. H - 1
<1>1. /\ {W, H, T, INPUT_BUFFER_SIZE} \subseteq Nat \ {0} /\ W % T = 0
      /\ INPUT_BUFFER_SIZE \in 2 .. (H - 1) * W + 2
  BY ConsoleAssumption DEF ConsoleAssumption, W, H, T
<1>2. H - 1 \in Nat /\ W \in Nat /\ H \in Nat
  BY <1>1
<1>3. W * H \in Nat /\ (H - 1) * W \in Nat
  BY <1>2
<1>4. QED
  BY <1>1, <1>2, <1>3 DEF Columns, Rows, W, H

-----------------------------------------------------------------------------
(* Console: arithmetic *)

LEMMA Quotient ==
  ASSUME NEW m \in Nat \ {0}, NEW a \in Int
  PROVE  a \div m \in Int /\ a % m \in 0 .. m - 1 /\ a = m * (a \div m) + (a % m)
  OBVIOUS

(* A number has one quotient and one remainder. *)
LEMMA OneQuotient ==
  ASSUME NEW m \in Nat \ {0}, NEW d \in Int, NEW r \in 0 .. m - 1, NEW e \in Int, NEW s \in 0 .. m - 1,
         m * d + r = m * e + s
  PROVE  d = e /\ r = s
<1>1. m * (d - e) = s - r /\ s - r < m /\ s - r > 0 - m
  OBVIOUS
<1>2. ~ (d - e >= 1)
  <2> SUFFICES ASSUME d - e >= 1 PROVE FALSE
    OBVIOUS
  <2>1. m * (d - e) >= m
    OBVIOUS
  <2>2. QED
    BY <1>1, <2>1
<1>3. ~ (d - e <= -1)
  <2> SUFFICES ASSUME d - e <= -1 PROVE FALSE
    OBVIOUS
  <2>1. m * (d - e) <= 0 - m
    OBVIOUS
  <2>2. QED
    BY <1>1, <2>1
<1>4. d = e
  BY <1>2, <1>3
<1>5. QED
  BY <1>4

LEMMA DividesBy ==
  ASSUME NEW m \in Nat \ {0}, NEW d \in Int, NEW r \in 0 .. m - 1
  PROVE  (m * d + r) \div m = d /\ (m * d + r) % m = r
<1>1. m * d + r \in Int
  OBVIOUS
<1> DEFINE a == m * d + r
<1>2. a \div m \in Int /\ a % m \in 0 .. m - 1 /\ a = m * (a \div m) + (a % m)
  BY <1>1, Quotient
<1>3. m * d + r = m * (a \div m) + (a % m)
  BY <1>2
<1> HIDE DEF a
<1>4. QED
  BY <1>2, <1>3, OneQuotient DEF a

(* Places are counted along the rows, one row after the other. *)
LEMMA AtInt ==
  ASSUME NEW x \in Int, NEW y \in Int
  PROVE  /\ At(x, y) \in Int /\ At(x, y) = W * y + x
         /\ At(x, y + 1) = At(x, y) + W /\ At(W, y) = At(0, y + 1)
         /\ At(x, y) = At(0, y) + x
<1>1. W \in Nat /\ screenwidth = W
  BY Shape DEF W
<1>2. y * W \in Int /\ y * W = W * y /\ (y + 1) * W = y * W + W
  BY <1>1
<1>3. At(x, y) = y * W + x /\ At(x, y + 1) = (y + 1) * W + x /\ At(W, y) = y * W + W
      /\ At(0, y + 1) = (y + 1) * W + 0 /\ At(0, y) = y * W + 0
  BY <1>1 DEF At
<1>4. QED
  BY <1>1, <1>2, <1>3

LEMMA PlaceOf ==
  ASSUME NEW x \in Columns, NEW y \in Int
  PROVE  At(x, y) \div W = y /\ At(x, y) % W = x
<1>1. x \in 0 .. W - 1 /\ x \in Int /\ W \in Nat \ {0}
  BY Shape
<1>2. At(x, y) = W * y + x
  BY <1>1, AtInt
<1>3. QED
  BY <1>1, <1>2, DividesBy

LEMMA RowOrder ==
  ASSUME NEW x \in Columns, NEW y \in Int, NEW z \in Int, y < z
  PROVE  At(x, y) < At(0, z) /\ At(0, y) <= At(x, y)
<1>1. x \in Int /\ x >= 0 /\ x < W /\ W \in Nat \ {0}
  BY Shape
<1>2. At(x, y) = W * y + x /\ At(0, z) = W * z + 0 /\ At(0, y) = W * y + 0
  <2>1. 0 \in Int
    OBVIOUS
  <2>2. At(0, z) = W * z + 0
    BY <2>1, AtInt
  <2>3. At(0, y) = W * y + 0
    BY <2>1, AtInt
  <2>4. At(x, y) = W * y + x
    BY <1>1, AtInt
  <2>5. QED
    BY <2>2, <2>3, <2>4
<1>3. W * y + W <= W * z
  <2>1. z - y - 1 \in Nat
    OBVIOUS
  <2>2. W * (z - y - 1) >= 0
    BY <1>1, <2>1
  <2>3. W * (z - y - 1) = W * z - W * y - W
    BY <1>1
  <2>4. W * z \in Int /\ W * y \in Int
    BY <1>1
  <2>5. QED
    BY <1>1, <2>2, <2>3, <2>4
<1>4. W * y \in Int /\ W * z \in Int
  BY <1>1
<1>5. QED
  BY <1>1, <1>2, <1>3, <1>4

(* The places of the screen. *)
Screenful == 0 .. W * H - 1

LEMMA CellOf ==
  ASSUME NEW q \in Screenful
  PROVE  q % W \in Columns /\ q \div W \in Rows /\ q = At(q % W, q \div W)
<1>1. q \in Int /\ W \in Nat \ {0} /\ H \in Nat \ {0} /\ q >= 0 /\ q < W * H /\ W * H \in Nat
  BY Shape DEF Screenful
<1> DEFINE d == q \div W
           r == q % W
<1>2. d \in Int /\ r \in 0 .. W - 1 /\ q = W * d + r
  BY <1>1, Quotient
<1> HIDE DEF d, r
<1>3. d >= 0
  <2> SUFFICES ASSUME d <= -1 PROVE FALSE
    BY <1>2
  <2>1. W * d <= 0 - W
    BY <1>1, <1>2
  <2>2. W * d \in Int
    BY <1>1, <1>2
  <2>3. QED
    BY <1>1, <1>2, <2>1, <2>2
<1>4. d < H
  <2> SUFFICES ASSUME d >= H PROVE FALSE
    BY <1>1, <1>2
  <2>1. d - H \in Nat /\ W * (d - H) >= 0 /\ W * (d - H) = W * d - W * H
    BY <1>1, <1>2
  <2>2. W * d \in Int
    BY <1>1, <1>2
  <2>3. QED
    BY <1>1, <1>2, <2>1, <2>2
<1>5. q = At(r, d)
  BY <1>1, <1>2, AtInt
<1>6. QED
  BY <1>1, <1>2, <1>3, <1>4, <1>5, Shape DEF d, r

LEMMA OnTheScreen ==
  ASSUME NEW x \in Columns, NEW y \in Rows
  PROVE  At(x, y) \in Screenful /\ At(0, H) = W * H /\ At(0, H - 1) = W * H - W
<1>1. x \in Int /\ y \in Int /\ y >= 0 /\ y < H /\ H \in Int /\ W \in Nat \ {0} /\ 0 \in Columns /\ W * H \in Nat
  BY Shape
<1>2. At(0, H) = W * H /\ At(0, 0) = 0
  <2>1. At(0, H) = W * H + 0 /\ At(0, 0) = W * 0 + 0
    BY <1>1, AtInt
  <2>2. QED
    BY <1>1, <2>1
<1>3. At(x, y) < At(0, H) /\ At(0, y) <= At(x, y)
  BY <1>1, RowOrder
<1>4. At(0, y) >= At(0, 0)
  <2>1. CASE y = 0
    BY <1>2, <2>1
  <2>2. CASE y > 0
    <3>1. At(0, 0) < At(0, y)
      BY <1>1, <2>2, RowOrder
    <3>2. At(0, y) \in Int /\ At(0, 0) \in Int
      BY <1>1, AtInt
    <3>3. QED
      BY <3>1, <3>2
  <2>3. QED
    BY <1>1, <2>1, <2>2
<1>5. At(0, H - 1) = W * H - W
  <2>1. At(0, (H - 1) + 1) = At(0, H - 1) + W /\ At(0, H - 1) \in Int
    <3>1. \A z \in Int : At(0, z + 1) = At(0, z) + W /\ At(0, z) \in Int
      BY AtInt
    <3>2. H - 1 \in Int
      BY <1>1
    <3>3. QED
      BY <3>1, <3>2
  <2>2. (H - 1) + 1 = H
    BY <1>1
  <2>3. QED
    BY <1>1, <1>2, <2>1, <2>2
<1>6. At(x, y) \in Int /\ At(0, y) \in Int
  BY <1>1, AtInt
<1>7. At(x, y) >= 0 /\ At(x, y) < W * H
  BY <1>1, <1>2, <1>3, <1>4, <1>6
<1>8. At(x, y) \in Screenful
  BY <1>1, <1>6, <1>7 DEF Screenful
<1>9. QED
  BY <1>2, <1>5, <1>8

(* Tabulator stops do not move when the text moves by a row, and a row     *)
(* ends with one. *)
LEMMA RowOfTabs ==
  \E n \in Nat \ {0} : W = T * n
<1>1. W = T * (W \div T) + 0 /\ W \div T \in Int /\ W \in Nat \ {0} /\ T \in Nat \ {0}
  BY Shape, Quotient
<1> DEFINE n == W \div T
<1>2. n \in Int /\ W = T * n
  BY <1>1
<1> HIDE DEF n
<1>3. n > 0
  <2> SUFFICES ASSUME n <= 0 PROVE FALSE
    BY <1>2
  <2>1. T * n <= 0
    BY <1>1, <1>2
  <2>2. QED
    BY <1>1, <1>2, <2>1
<1>4. QED
  BY <1>2, <1>3

LEMMA Stop ==
  ASSUME NEW q \in Int
  PROVE  LET s == q + T - (q % T) IN s \in Int /\ s > q /\ s <= q + T /\ \E e \in Int : s = T * e
<1>1. T \in Nat \ {0} /\ q \div T \in Int /\ q % T \in 0 .. T - 1 /\ q = T * (q \div T) + (q % T)
  BY Shape, Quotient
<1> DEFINE d == q \div T
           r == q % T
<1>2. d \in Int /\ r \in 0 .. T - 1 /\ q = T * d + r
  BY <1>1
<1> HIDE DEF d, r
<1>3. T * (d + 1) = T * d + T /\ T * d \in Int /\ d + 1 \in Int
  BY <1>1, <1>2
<1>4. q + T - r = T * (d + 1)
  BY <1>1, <1>2, <1>3
<1>5. q + T - r \in Int /\ q + T - r > q /\ q + T - r <= q + T
  BY <1>1, <1>2
<1>6. QED
  BY <1>3, <1>4, <1>5 DEF d, r

LEMMA SameColumn ==
  ASSUME NEW q \in Int, NEW d \in Int
  PROVE  (q + W * d) % T = q % T
<1>1. PICK n \in Nat \ {0} : W = T * n
  BY RowOfTabs
<1>2. T \in Nat \ {0} /\ q \div T \in Int /\ q % T \in 0 .. T - 1 /\ q = T * (q \div T) + (q % T)
  BY Shape, Quotient
<1>3. q + W * d = T * ((q \div T) + n * d) + (q % T)
  <2> DEFINE e == q \div T
             r == q % T
  <2>1. e \in Int /\ r \in Int /\ q = T * e + r
    BY <1>2
  <2> HIDE DEF e, r
  <2>2. (T * n) * d = T * (n * d) /\ n * d \in Int
    BY <1>1, <1>2
  <2>3. T * (e + n * d) = T * e + T * (n * d)
    BY <1>2, <2>1, <2>2
  <2>4. q + W * d = T * (e + n * d) + r
    BY <1>1, <1>2, <2>1, <2>2, <2>3
  <2>5. QED
    BY <2>4 DEF e, r
<1>4. (q \div T) + n * d \in Int
  BY <1>1, <1>2
<1>5. QED
  BY <1>2, <1>3, <1>4, DividesBy

-----------------------------------------------------------------------------
(* Console: the screen *)

ScreenType == [cell : [Rows -> [Columns -> Cell]], curx : Int, cury : Int, hardware : Int, scrolled : Nat]
OnScreen(s) == s \in ScreenType /\ s.curx \in Columns /\ s.cury \in Rows /\ s.hardware = At(s.curx, s.cury)
Here(s) == At(s.curx, s.cury)
See(s, q) == s.cell[q \div W][q % W]

LEMMA Origin ==
  0 \in Columns /\ 0 \in Rows /\ BlankRow \in [Columns -> Cell] /\ Columns \subseteq Int /\ Rows \subseteq Int
BY Shape DEF BlankRow, Cell

(* The calls of drivers/vga.c leave the cursor on the screen and the      *)
(* hardware's cursor with it.                                              *)
LEMMA Updated ==
  ASSUME NEW s \in ScreenType, s.curx \in Columns, s.cury \in Rows
  PROVE  LET t == vga_update_cursor(s) IN
         /\ OnScreen(t) /\ t.cell = s.cell /\ t.scrolled = s.scrolled /\ t.curx = s.curx /\ t.cury = s.cury
<1>1. At(s.curx, s.cury) \in Int
  BY Origin, AtInt
<1>2. QED
  BY <1>1 DEF vga_update_cursor, ScreenType, OnScreen

LEMMA Goto ==
  ASSUME NEW s, OnScreen(s), NEW x \in Columns, NEW y \in Rows
  PROVE  LET t == vga_gotoxy(s, x, y) IN
         /\ OnScreen(t) /\ t.cell = s.cell /\ t.scrolled = s.scrolled /\ t.curx = x /\ t.cury = y
<1> DEFINE u == [s EXCEPT !.curx = x, !.cury = y]
<1>1. u \in ScreenType /\ u.curx = x /\ u.cury = y /\ u.cell = s.cell /\ u.scrolled = s.scrolled
  BY Origin DEF ScreenType, OnScreen
<1>2. vga_gotoxy(s, x, y) = vga_update_cursor(u)
  BY DEF vga_gotoxy
<1> HIDE DEF u
<1>3. QED
  BY <1>1, <1>2, Updated

LEMMA Cleared ==
  ASSUME NEW s \in ScreenType
  PROVE  LET t == vga_clear(s) IN OnScreen(t) /\ t.scrolled = s.scrolled
<1> DEFINE u == [s EXCEPT !.cell = [y \in Rows |-> BlankRow], !.curx = 0, !.cury = 0]
<1>1. u \in ScreenType /\ u.curx = 0 /\ u.cury = 0 /\ u.scrolled = s.scrolled
  BY Origin DEF ScreenType
<1>2. vga_clear(s) = vga_update_cursor(u)
  BY DEF vga_clear
<1> HIDE DEF u
<1>3. QED
  BY <1>1, <1>2, Updated, Origin

LEMMA Scrolled ==
  ASSUME NEW s \in ScreenType, s.curx \in Columns, s.cury \in 0 .. H, NEW step \in 1 .. H
  PROVE  LET t == vga_scroll(s, step) IN
         /\ OnScreen(t)
         /\ step < H => /\ t.scrolled = s.scrolled + step /\ t.curx = s.curx
                        /\ t.cury = IF s.cury >= step THEN s.cury - step ELSE 0
                        /\ \A y \in Rows, x \in Columns :
                              t.cell[y][x] = IF y + step \in Rows THEN s.cell[y + step][x] ELSE BLANK
<1>0. H \in Nat \ {0} /\ step \in Nat \ {0} /\ s.cury \in Int /\ Rows = 0 .. H - 1
  BY Shape
<1>1. CASE step >= H
  <2>1. vga_scroll(s, step) = vga_clear(s)
    BY <1>1 DEF vga_scroll, H
  <2>2. QED
    BY <1>0, <1>1, <2>1, Cleared
<1>2. CASE ~ (step >= H)
  <2> DEFINE rows == [y \in Rows |-> IF y + step \in Rows THEN s.cell[y + step] ELSE BlankRow]
             below == IF s.cury >= step THEN s.cury - step ELSE 0
             u == [s EXCEPT !.cell = rows, !.cury = below, !.scrolled = @ + step]
  <2>1. vga_scroll(s, step) = vga_update_cursor(u)
    BY <1>2 DEF vga_scroll, H, ScreenType
  <2>2. below \in Rows
    <3>1. CASE s.cury >= step
      BY <1>0, <3>1
    <3>2. CASE ~ (s.cury >= step)
      BY <3>2, Origin
    <3>3. QED
      BY <3>1, <3>2
  <2>3. rows \in [Rows -> [Columns -> Cell]]
    BY Origin DEF ScreenType
  <2>4. \A y \in Rows, x \in Columns : rows[y][x] = IF y + step \in Rows THEN s.cell[y + step][x] ELSE BLANK
    BY DEF BlankRow
  <2> HIDE DEF rows, below
  <2>5. /\ u \in ScreenType /\ u.curx = s.curx /\ u.cury = below /\ u.cell = rows /\ u.scrolled = s.scrolled + step
    <3>1. s.scrolled + step \in Nat /\ below \in Int
      BY <1>0, <2>2, Origin DEF ScreenType
    <3>2. QED
      BY <2>3, <3>1 DEF ScreenType
  <2> HIDE DEF u
  <2>6. QED
    BY <1>2, <2>1, <2>2, <2>4, <2>5, Updated DEF below
<1>3. QED
  BY <1>1, <1>2

-----------------------------------------------------------------------------
(* Console: a character *)

Glyph(c) == IF c = TAB THEN BLANK ELSE c
Fills(s, c) == IF c = TAB THEN s.curx + T - (s.curx % T) ELSE s.curx + 1

(* A character ends in its row. *)
LEMMA FillsRow ==
  ASSUME NEW s, OnScreen(s), NEW c
  PROVE  /\ Fills(s, c) \in Int /\ Fills(s, c) > s.curx /\ Fills(s, c) <= W
         /\ Behind(Here(s), c) = At(Fills(s, c), s.cury)
<1>0. s.curx \in Int /\ s.cury \in Int /\ s.curx >= 0 /\ s.curx < W /\ W \in Nat /\ T \in Nat \ {0}
  BY Shape DEF OnScreen
<1> DEFINE x == s.curx
           y == s.cury
<1>1. At(x, y) = At(0, y) + x /\ At(0, y) \in Int /\ At(x, y) = W * y + x /\ At(x, y) \in Int
  <2>1. At(x, y) = At(0, y) + x /\ At(x, y) = W * y + x /\ At(x, y) \in Int
    BY <1>0, AtInt
  <2>2. 0 \in Int
    OBVIOUS
  <2>3. At(0, y) \in Int
    BY <1>0, <2>2, AtInt
  <2>4. QED
    BY <2>1, <2>3
<1>2. CASE c # TAB
  <2>1. At(x + 1, y) = At(0, y) + (x + 1)
    <3>1. x + 1 \in Int
      BY <1>0
    <3>2. QED
      BY <1>0, <3>1, AtInt
  <2>2. QED
    BY <1>0, <1>1, <1>2, <2>1 DEF Fills, Behind, Here
<1>3. CASE c = TAB
  <2> DEFINE stop == x + T - (x % T)
  <2>1. stop \in Int /\ stop > x /\ stop <= x + T /\ \E e \in Int : stop = T * e
    BY <1>0, Stop
  <2>2. stop <= W
    <3>1. PICK e \in Int : stop = T * e
      BY <2>1
    <3>2. PICK n \in Nat \ {0} : W = T * n
      BY RowOfTabs
    <3>3. ~ (e > n)
      <4> SUFFICES ASSUME e > n PROVE FALSE
        OBVIOUS
      <4>1. T * (e - n) >= T
        <5>1. e - n >= 1 /\ e - n \in Int
          OBVIOUS
        <5>2. QED
          BY <1>0, <5>1
      <4>2. T * (e - n) = T * e - T * n /\ T * e \in Int /\ T * n \in Int
        BY <1>0
      <4>3. stop - W >= T
        BY <3>1, <3>2, <4>1, <4>2
      <4>4. QED
        BY <1>0, <2>1, <4>3
    <3>4. T * (n - e) >= 0 /\ T * (n - e) = T * n - T * e /\ T * e \in Int /\ T * n \in Int
      BY <1>0, <3>3
    <3>5. QED
      BY <3>1, <3>2, <3>4
  <2>3. At(x, y) % T = x % T
    <3>1. (x + W * y) % T = x % T
      BY <1>0, SameColumn
    <3>2. x + W * y = At(x, y)
      BY <1>0, <1>1
    <3>3. QED
      BY <3>1, <3>2
  <2>4. x % T \in Int
    BY <1>0, Quotient
  <2>5. At(stop, y) = At(0, y) + stop
    BY <1>0, <2>1, AtInt
  <2>6. At(x, y) + T - (x % T) = At(stop, y)
    BY <1>0, <1>1, <2>4, <2>5
  <2>7. Behind(Here(s), c) = At(stop, y)
    BY <1>3, <2>3, <2>6 DEF Behind, Here, T
  <2>8. QED
    BY <1>3, <2>1, <2>2, <2>7 DEF Fills
<1>4. QED
  BY <1>2, <1>3

LEMMA DrawnIs ==
  ASSUME NEW s, OnScreen(s), NEW c \in Cell \cup {TAB}, c # NEWLINE
  PROVE  LET d == Drawn(s, c) IN
         /\ d \in ScreenType /\ d.curx = Fills(s, c) /\ d.cury = s.cury /\ d.scrolled = s.scrolled
         /\ \A y \in Rows, x \in Columns :
              d.cell[y][x] = IF y = s.cury /\ s.curx <= x /\ x < Fills(s, c) THEN Glyph(c) ELSE s.cell[y][x]
<1>0. s \in ScreenType /\ s.curx \in Columns /\ s.cury \in Rows /\ s.curx \in Int /\ Columns \subseteq Int
      /\ W \in Nat /\ s.cell \in [Rows -> [Columns -> Cell]] /\ s.curx < W
  BY Shape, Origin DEF OnScreen, ScreenType
<1> DEFINE last == Fills(s, c)
<1>1. last \in Int /\ last > s.curx /\ last <= W
  BY FillsRow
<1>2. CASE c = TAB
  <2> DEFINE row == [x \in Columns |-> IF x \in s.curx .. last - 1 THEN BLANK ELSE s.cell[s.cury][x]]
             d == [s EXCEPT !.cell[s.cury] = row, !.curx = last]
  <2>1. Drawn(s, c) = d
    <3>1. last = s.curx + tabsize - (s.curx % tabsize)
      BY <1>2 DEF Fills, T
    <3>2. (IF last < screenwidth THEN last ELSE screenwidth) = last
      BY <1>0, <1>1 DEF W
    <3> HIDE DEF last
    <3>3. Drawn(s, c) = [s EXCEPT !.cell[s.cury] = [x \in Columns |-> IF x \in s.curx .. last - 1 THEN BLANK ELSE @[x]],
                                  !.curx = last]
      BY <1>2, <3>1, <3>2 DEF Drawn
    <3>4. QED
      BY <1>0, <3>3 DEF ScreenType
  <2>2. row \in [Columns -> Cell]
    BY <1>0 DEF Cell
  <2>3. \A x \in Columns : row[x] = IF s.curx <= x /\ x < last THEN Glyph(c) ELSE s.cell[s.cury][x]
    BY <1>0, <1>1, <1>2 DEF Glyph
  <2> HIDE DEF row, last
  <2>4. d \in ScreenType /\ d.curx = last /\ d.cury = s.cury /\ d.scrolled = s.scrolled
        /\ d.cell = [s.cell EXCEPT ![s.cury] = row]
    BY <1>0, <1>1, <2>2 DEF ScreenType
  <2> HIDE DEF d
  <2>5. \A y \in Rows, x \in Columns : d.cell[y][x] = IF y = s.cury THEN row[x] ELSE s.cell[y][x]
    BY <1>0, <2>4
  <2>6. QED
    BY <2>1, <2>3, <2>4, <2>5 DEF last
<1>3. CASE c # TAB
  <2> DEFINE d == [s EXCEPT !.cell[s.cury][s.curx] = c, !.curx = @ + 1]
  <2>1. Drawn(s, c) = d /\ last = s.curx + 1 /\ Glyph(c) = c /\ c \in Cell
    BY <1>3 DEF Drawn, Fills, Glyph
  <2> HIDE DEF last
  <2>2. d \in ScreenType /\ d.curx = last /\ d.cury = s.cury /\ d.scrolled = s.scrolled
        /\ d.cell = [s.cell EXCEPT ![s.cury] = [s.cell[s.cury] EXCEPT ![s.curx] = c]]
    BY <1>0, <1>1, <2>1 DEF ScreenType
  <2> HIDE DEF d
  <2>3. \A y \in Rows, x \in Columns : d.cell[y][x] = IF y = s.cury /\ x = s.curx THEN c ELSE s.cell[y][x]
    BY <1>0, <2>2
  <2>4. \A x \in Columns : x = s.curx <=> s.curx <= x /\ x < last
    <3> TAKE x \in Columns
    <3>1. x \in Int /\ s.curx \in Int /\ last = s.curx + 1
      BY <1>0, <2>1
    <3>2. QED
      BY <3>1
  <2>5. QED
    BY <2>1, <2>2, <2>3, <2>4 DEF last
<1>4. QED
  BY <1>2, <1>3

(* What is at place q after a character was drawn. *)
Drew(s, c, q) == IF Here(s) <= q /\ q < Behind(Here(s), c) THEN Glyph(c) ELSE See(s, q)

LEMMA DrawnSees ==
  ASSUME NEW s, OnScreen(s), NEW c \in Cell \cup {TAB}, c # NEWLINE, NEW q \in Screenful
  PROVE  See(Drawn(s, c), q) = Drew(s, c, q)
<1> DEFINE d == Drawn(s, c)
           x == q % W
           y == q \div W
           z == s.cury
           last == Fills(s, c)
<1>1. x \in Columns /\ y \in Rows /\ q = At(x, y)
  BY CellOf
<1>2. d.cell[y][x] = IF y = z /\ s.curx <= x /\ x < last THEN Glyph(c) ELSE s.cell[y][x]
  BY <1>1, DrawnIs
<1>3. last \in Int /\ last > s.curx /\ last <= W /\ Behind(Here(s), c) = At(last, z) /\ Here(s) = At(s.curx, z)
  BY FillsRow DEF Here
<1>4. /\ s.curx \in Columns /\ z \in Int /\ s.curx \in Int /\ W \in Nat
      /\ x \in Int /\ y \in Int
  BY <1>1, Shape, Origin DEF OnScreen
<1> HIDE DEF d, x, y, z, last
<1>5. At(x, y) = At(0, y) + x /\ At(x, y) \in Int
  BY <1>4, AtInt
<1>6. At(s.curx, z) = At(0, z) + s.curx
  BY <1>4, AtInt
<1>7. At(last, z) = At(0, z) + last /\ At(last, z) \in Int /\ At(W, z) = At(0, z) + W /\ At(W, z) = At(0, z + 1)
  BY <1>3, <1>4, AtInt
<1>8. At(0, z) \in Int /\ At(0, y) \in Int /\ 0 \in Columns
  <2>1. 0 \in Int
    OBVIOUS
  <2>2. QED
    BY <1>4, <2>1, AtInt, Origin
<1>9. (Here(s) <= q /\ q < Behind(Here(s), c)) <=> (y = z /\ s.curx <= x /\ x < last)
  <2>1. CASE y = z
    BY <1>1, <1>3, <1>4, <1>5, <1>6, <1>7, <1>8, <2>1
  <2>2. CASE y < z
    <3>0. z + 1 \in Int /\ z < z + 1
      BY <1>4
    <3>1. At(x, y) < At(0, z)
      BY <1>1, <1>4, <2>2, RowOrder
    <3>3. At(0, z) <= At(s.curx, z)
      BY <1>4, <3>0, RowOrder
    <3>2. QED
      BY <1>1, <1>3, <1>4, <1>5, <1>6, <1>8, <2>2, <3>1, <3>3
  <2>3. CASE y > z
    <3>1. At(0, y) <= At(x, y)
      BY <1>1, <1>4, <2>3, RowOrder
    <3>2. At(0, z + 1) <= At(0, y)
      <4>1. CASE y = z + 1
        BY <1>8, <4>1
      <4>2. CASE z + 1 < y
        <5>1. z + 1 \in Int
          BY <1>4
        <5>2. At(0, z + 1) < At(0, y)
          BY <1>4, <1>8, <4>2, <5>1, RowOrder
        <5>3. At(0, z + 1) \in Int
          BY <1>4, <1>7, <1>8
        <5>4. QED
          BY <1>8, <5>2, <5>3
      <4>3. QED
        BY <1>4, <2>3, <4>1, <4>2
    <3>3. QED
      BY <1>1, <1>3, <1>4, <1>5, <1>6, <1>7, <1>8, <2>3, <3>1, <3>2
  <2>4. QED
    BY <1>4, <2>1, <2>2, <2>3
<1>10. See(s, q) = s.cell[y][x] /\ See(Drawn(s, c), q) = d.cell[y][x]
  BY DEF See, x, y, d
<1>11. QED
  BY <1>2, <1>9, <1>10 DEF Drew

(* Where the cursor stands before the screen is scrolled. *)
LEMMA WrappedIs ==
  ASSUME NEW d \in ScreenType, d.curx \in Columns \cup {W}, d.cury \in 0 .. H, d.curx = W => d.cury < H
  PROVE  LET w == Wrapped(d) IN
         /\ w \in ScreenType /\ w.curx \in Columns /\ w.cury \in 0 .. H /\ w.scrolled = d.scrolled /\ w.cell = d.cell
         /\ At(w.curx, w.cury) = At(d.curx, d.cury)
         /\ d.cury < H /\ w.cury = H => w.curx = 0
<1>0. /\ W \in Nat \ {0} /\ H \in Nat \ {0} /\ d.cury \in Int /\ d.curx \in Int /\ screenwidth = W
      /\ Columns = 0 .. W - 1
  BY Shape, Origin DEF W
<1>1. CASE d.curx = W
  <2> DEFINE w == [d EXCEPT !.curx = 0, !.cury = @ + 1]
  <2>1. Wrapped(d) = w
    BY <1>0, <1>1 DEF Wrapped
  <2>2. w \in ScreenType /\ w.curx = 0 /\ w.cury = d.cury + 1 /\ w.scrolled = d.scrolled /\ w.cell = d.cell
    <3>1. 0 \in Int /\ d.cury + 1 \in Int
      BY <1>0
    <3>2. QED
      BY <3>1 DEF ScreenType
  <2> HIDE DEF w
  <2>3. At(W, d.cury) = At(0, d.cury + 1)
    BY <1>0, AtInt
  <2>4. d.cury + 1 \in 0 .. H
    BY <1>0, <1>1
  <2>5. QED
    BY <1>1, <2>1, <2>2, <2>3, <2>4, Origin
<1>2. CASE d.curx \in Columns
  <2>1. Wrapped(d) = d
    BY <1>0, <1>2 DEF Wrapped
  <2>2. QED
    BY <1>0, <1>2, <2>1
<1>3. QED
  BY <1>1, <1>2

LEMMA PutIs ==
  ASSUME NEW s, OnScreen(s), NEW c
  PROVE  LET w == Wrapped(Drawn(s, c)) IN
         vga_put_char(s, c) = vga_update_cursor(IF w.cury >= H THEN vga_scroll(w, 1) ELSE w)
<1>1. s.curx < screenwidth /\ s.cury < screenheight /\ s.curx \in Int /\ s.cury \in Int /\ screenwidth \in Int /\ screenheight \in Int
  BY Shape DEF OnScreen, W, H
<1>2. ~ (s.curx >= screenwidth \/ s.cury >= screenheight)
  BY <1>1
<1>3. QED
  BY <1>2 DEF vga_put_char, H

(* The cursor stays on the screen. *)
LEMMA PutStays ==
  ASSUME NEW s, OnScreen(s), NEW c \in Cell \cup {TAB, NEWLINE}
  PROVE  OnScreen(vga_put_char(s, c))
<1> DEFINE d == Drawn(s, c)
           w == Wrapped(d)
<1>0. /\ s \in ScreenType /\ s.curx \in Columns /\ s.cury \in Int /\ s.cury >= 0 /\ s.cury < H
      /\ W \in Nat \ {0} /\ H \in Nat \ {0} /\ Columns = 0 .. W - 1 /\ Rows = 0 .. H - 1
  BY Shape DEF OnScreen
<1>1. d \in ScreenType /\ d.curx \in Columns \cup {W} /\ d.cury \in 0 .. H /\ (d.curx = W => d.cury < H)
  <2>1. CASE c = NEWLINE
    <3>1. d = [s EXCEPT !.curx = 0, !.cury = @ + 1]
      BY <2>1 DEF Drawn
    <3> HIDE DEF d
    <3>2. d \in ScreenType /\ d.curx = 0 /\ d.cury = s.cury + 1
      <4>1. 0 \in Int /\ s.cury + 1 \in Int /\ s.cury \in Int /\ s \in ScreenType
        BY <1>0
      <4>2. QED
        BY <3>1, <4>1 DEF ScreenType
    <3>3. QED
      BY <1>0, <3>2, Origin
  <2>2. CASE c # NEWLINE
    <3>1. d \in ScreenType /\ d.curx = Fills(s, c) /\ d.cury = s.cury
      BY <2>2, DrawnIs
    <3>2. Fills(s, c) \in Int /\ Fills(s, c) > s.curx /\ Fills(s, c) <= W
      BY FillsRow
    <3> HIDE DEF d
    <3>3. d.curx \in Columns \cup {W}
      BY <1>0, <3>1, <3>2
    <3>4. QED
      BY <1>0, <3>1, <3>3
  <2>3. QED
    BY <2>1, <2>2
<1> HIDE DEF d
<1>2. w \in ScreenType /\ w.curx \in Columns /\ w.cury \in 0 .. H
  BY <1>1, WrappedIs
<1> HIDE DEF w
<1>3. vga_put_char(s, c) = vga_update_cursor(IF w.cury >= H THEN vga_scroll(w, 1) ELSE w)
  BY PutIs DEF w, d
<1>4. CASE w.cury >= H
  <2>1. OnScreen(vga_scroll(w, 1))
    BY <1>0, <1>2, Scrolled
  <2>2. QED
    BY <1>3, <1>4, <2>1, Updated DEF OnScreen
<1>5. CASE ~ (w.cury >= H)
  <2>1. w.cury \in Rows
    BY <1>0, <1>2, <1>5
  <2>2. QED
    BY <1>2, <1>3, <1>5, <2>1, Updated
<1>6. QED
  BY <1>4, <1>5

(* A character takes its places on the screen; when they end with the last  *)
(* of them, everything moves up by a row. *)
Stays(s, c, t) ==
  /\ Behind(Here(s), c) < W * H /\ t.scrolled = s.scrolled /\ Here(t) = Behind(Here(s), c)
  /\ \A q \in Screenful : See(t, q) = Drew(s, c, q)
Moves(s, c, t) ==
  /\ Behind(Here(s), c) = W * H /\ t.scrolled = s.scrolled + 1 /\ Here(t) = W * H - W
  /\ \A q \in Screenful : See(t, q) = IF q + W \in Screenful THEN Drew(s, c, q + W) ELSE BLANK

LEMMA PutShows ==
  ASSUME NEW s, OnScreen(s), NEW c \in Cell \cup {TAB}, c # NEWLINE, H > 1
  PROVE  LET t == vga_put_char(s, c) IN OnScreen(t) /\ (Stays(s, c, t) \/ Moves(s, c, t))
<1> DEFINE d == Drawn(s, c)
           w == Wrapped(d)
           t == vga_put_char(s, c)
<1>0. /\ s \in ScreenType /\ s.curx \in Columns /\ s.cury \in Int /\ s.cury >= 0 /\ s.cury < H
      /\ W \in Nat \ {0} /\ H \in Nat \ {0} /\ Columns = 0 .. W - 1 /\ Rows = 0 .. H - 1
  BY Shape DEF OnScreen
<1>1. /\ d \in ScreenType /\ d.curx = Fills(s, c) /\ d.cury = s.cury /\ d.scrolled = s.scrolled
  BY DrawnIs
<1>2. /\ Fills(s, c) \in Int /\ Fills(s, c) > s.curx /\ Fills(s, c) <= W
      /\ Behind(Here(s), c) = At(Fills(s, c), s.cury)
  BY FillsRow
<1>3. \A q \in Screenful : See(d, q) = Drew(s, c, q)
  BY DrawnSees
<1> HIDE DEF d
<1>4. d.curx \in Columns \cup {W} /\ d.cury \in 0 .. H /\ d.cury < H
  BY <1>0, <1>1, <1>2
<1>5. /\ w \in ScreenType /\ w.curx \in Columns /\ w.cury \in 0 .. H /\ w.scrolled = s.scrolled /\ w.cell = d.cell
      /\ At(w.curx, w.cury) = Behind(Here(s), c)
      /\ w.cury = H => w.curx = 0
  BY <1>1, <1>2, <1>4, WrappedIs
<1> HIDE DEF w
<1>6. t = vga_update_cursor(IF w.cury >= H THEN vga_scroll(w, 1) ELSE w)
  BY PutIs DEF w, d
<1> HIDE DEF t
<1>7. CASE w.cury < H
  <2>1. w.cury \in Rows /\ t = vga_update_cursor(w)
    BY <1>0, <1>5, <1>6, <1>7
  <2>2. OnScreen(t) /\ t.cell = d.cell /\ t.scrolled = s.scrolled /\ t.curx = w.curx /\ t.cury = w.cury
    BY <1>5, <2>1, Updated
  <2>3. Here(t) = Behind(Here(s), c) /\ Here(t) \in Screenful
    BY <1>5, <2>1, <2>2, OnTheScreen DEF Here
  <2>4. Behind(Here(s), c) < W * H
    BY <1>0, <2>3, Shape DEF Screenful
  <2>5. \A q \in Screenful : See(t, q) = See(d, q)
    BY <2>2 DEF See
  <2>6. QED
    BY <1>3, <2>2, <2>3, <2>4, <2>5 DEF Stays, t
<1>8. CASE ~ (w.cury < H)
  <2> DEFINE u == vga_scroll(w, 1)
  <2>1. w.cury = H /\ w.curx = 0 /\ t = vga_update_cursor(u) /\ 1 \in 1 .. H /\ 1 < H /\ H >= 1 /\ H - 1 \in Rows
    BY <1>0, <1>5, <1>6, <1>8
  <2>2. /\ OnScreen(u) /\ u.scrolled = s.scrolled + 1 /\ u.curx = 0 /\ u.cury = H - 1
        /\ \A y \in Rows, x \in Columns : u.cell[y][x] = IF y + 1 \in Rows THEN d.cell[y + 1][x] ELSE BLANK
    BY <1>5, <2>1, Scrolled
  <2> HIDE DEF u
  <2>3. OnScreen(t) /\ t.cell = u.cell /\ t.scrolled = u.scrolled /\ t.curx = u.curx /\ t.cury = u.cury
    BY <2>1, <2>2, Updated DEF OnScreen
  <2>4. Behind(Here(s), c) = W * H /\ Here(t) = W * H - W
    BY <1>5, <2>1, <2>2, <2>3, OnTheScreen, Origin DEF Here
  <2>5. ASSUME NEW q \in Screenful
        PROVE  See(t, q) = IF q + W \in Screenful THEN Drew(s, c, q + W) ELSE BLANK
    <3> DEFINE x == q % W
               y == q \div W
    <3>1. x \in Columns /\ y \in Rows /\ q = At(x, y)
      BY CellOf
    <3>2. See(t, q) = u.cell[y][x]
      BY <2>3 DEF See
    <3> HIDE DEF x, y
    <3>3. x \in Int /\ y \in Int /\ y + 1 \in Int /\ At(x, y + 1) = q + W
      BY <1>0, <3>1, AtInt, Origin
    <3>4. CASE y + 1 \in Rows
      <4>1. q + W \in Screenful
        BY <3>1, <3>3, <3>4, OnTheScreen
      <4>2. See(d, q + W) = d.cell[y + 1][x]
        <5>1. (q + W) \div W = y + 1 /\ (q + W) % W = x
          BY <3>1, <3>3, PlaceOf
        <5>2. QED
          BY <5>1 DEF See
      <4>3. QED
        BY <1>3, <2>2, <3>1, <3>2, <3>4, <4>1, <4>2
    <3>5. CASE y + 1 \notin Rows
      <4>1. y + 1 = H
        BY <1>0, <3>1, <3>3, <3>5
      <4>2. At(0, H) <= At(x, H) /\ At(0, H) = W * H /\ At(x, H) = q + W
        <5>1. H \in Int /\ H < H + 1 /\ H + 1 \in Int
          BY <1>0
        <5>2. At(0, H) <= At(x, H)
          BY <3>1, <5>1, RowOrder
        <5>3. QED
          BY <3>1, <3>3, <4>1, <5>2, OnTheScreen
      <4>3. q + W \notin Screenful
        BY <4>2, Shape DEF Screenful
      <4>4. QED
        BY <2>2, <3>1, <3>2, <3>5, <4>3
    <3>6. QED
      BY <3>4, <3>5
  <2>6. QED
    BY <2>2, <2>3, <2>4, <2>5 DEF Moves, t
<1>9. QED
  BY <1>7, <1>8

-----------------------------------------------------------------------------
(* Console: the line *)

LEMMA SmallestOf ==
  ASSUME NEW S, S \subseteq Nat, S # {}
  PROVE  \E x \in S : \A y \in S : x <= y
<1>1. PICK x \in S : \A y \in S : ~ (<<y, x>> \in OpToRel(<, Nat))
  BY NatLessThanWellFounded, WFMin
<1>2. \A y \in S : ~ (y < x)
  BY <1>1 DEF OpToRel
<1>3. QED
  BY <1>2

(* What holds of 0, and of n + 1 when it holds of n. *)
LEMMA Inductive ==
  ASSUME NEW S, 0 \in S, \A n \in Nat : n \in S => n + 1 \in S
  PROVE  Nat \subseteq S
<1>1. SUFFICES ASSUME Nat \ S # {} PROVE FALSE
  OBVIOUS
<1>2. PICK x \in Nat \ S : \A y \in Nat \ S : x <= y
  BY <1>1, SmallestOf
<1>3. x # 0 /\ x - 1 \in Nat
  BY <1>2
<1>4. x - 1 \in S
  BY <1>2, <1>3
<1>5. QED
  BY <1>2, <1>3, <1>4

(* A character takes at least one place, as many in every row, and none    *)
(* that began above the screen ends on it.                                 *)
LEMMA BehindIs ==
  ASSUME NEW q \in Int, NEW c
  PROVE  /\ Behind(q, c) \in Int /\ Behind(q, c) > q
         /\ Behind(q - W, c) = Behind(q, c) - W
         /\ q < 0 => Behind(q, c) <= 0
<1>0. W \in Nat \ {0} /\ T \in Nat \ {0} /\ tabsize = T /\ q - W \in Int
  BY Shape DEF T
<1>1. CASE c # TAB
  BY <1>0, <1>1 DEF Behind
<1>2. CASE c = TAB
  <2> DEFINE s == q + T - (q % T)
  <2>1. Behind(q, c) = s /\ Behind(q - W, c) = (q - W) + T - ((q - W) % T)
    BY <1>2 DEF Behind, T
  <2>2. s \in Int /\ s > q /\ s <= q + T /\ \E e \in Int : s = T * e
    BY Stop
  <2>3. (q - W) % T = q % T
    <3>1. (q + W * (-1)) % T = q % T
      BY SameColumn
    <3>2. q + W * (-1) = q - W
      BY <1>0
    <3>3. QED
      BY <3>1, <3>2
  <2>4. q % T \in Int
    BY <1>0, Quotient
  <2>5. Behind(q - W, c) = s - W
    BY <1>0, <2>1, <2>3, <2>4
  <2>6. ASSUME q < 0 PROVE s <= 0
    <3>1. PICK e \in Int : s = T * e
      BY <2>2
    <3>2. ~ (e >= 1)
      <4> SUFFICES ASSUME e >= 1 PROVE FALSE
        OBVIOUS
      <4>1. T * e >= T
        BY <1>0
      <4>2. QED
        BY <1>0, <2>2, <2>6, <3>1, <4>1
    <3>3. T * e <= 0
      BY <1>0, <3>2
    <3>4. QED
      BY <3>1, <3>3
  <2>7. QED
    BY <2>1, <2>2, <2>5, <2>6
<1>3. QED
  BY <1>1, <1>2

(* P is where the characters of a text that begins at p are. *)
IsPlaces(P, p, text) ==
  /\ P \in [0 .. Len(text) -> Int] /\ P[0] = p
  /\ \A i \in 1 .. Len(text) : P[i] = Behind(P[i - 1], text[i])

LEMMA PlacesGrow ==
  ASSUME NEW S, NEW text \in Seq(S), NEW p \in Int, NEW P, IsPlaces(P, p, text),
         NEW i \in 0 .. Len(text), NEW j \in 0 .. Len(text), i < j
  PROVE  P[i] < P[j]
<1> DEFINE Good == {n \in Nat : n <= Len(text) /\ i < n => P[i] < P[n]}
<1>0. Len(text) \in Nat /\ i \in Nat
  OBVIOUS
<1>1. 0 \in Good
  BY <1>0
<1>2. ASSUME NEW n \in Nat, n \in Good PROVE n + 1 \in Good
  <2> SUFFICES ASSUME n + 1 <= Len(text), i < n + 1 PROVE P[i] < P[n + 1]
    OBVIOUS
  <2>1. n \in 0 .. Len(text) /\ n + 1 \in 1 .. Len(text) /\ (n + 1) - 1 = n
    BY <1>0
  <2>2. P[n] \in Int /\ P[i] \in Int /\ P[n + 1] = Behind(P[n], text[n + 1])
    BY <2>1 DEF IsPlaces
  <2>3. Behind(P[n], text[n + 1]) \in Int /\ Behind(P[n], text[n + 1]) > P[n]
    BY <2>2, BehindIs
  <2>4. P[i] <= P[n]
    <3>1. CASE i = n
      BY <2>2, <3>1
    <3>2. CASE i < n
      BY <1>2, <2>1, <2>2, <3>2
    <3>3. QED
      BY <1>0, <3>1, <3>2
  <2>5. QED
    BY <2>2, <2>3, <2>4
<1> HIDE DEF Good
<1>3. Nat \subseteq Good
  BY <1>1, <1>2, Inductive
<1>4. j \in Nat /\ j <= Len(text)
  BY <1>0
<1>5. QED
  BY <1>3, <1>4 DEF Good

(* On the screen only a TAB takes more than one place: a line that began    *)
(* above it and has none on it is longer than the place where it ends.      *)
LEMMA FewPlaces ==
  ASSUME NEW S, NEW text \in Seq(S), NEW p \in Int, NEW P, IsPlaces(P, p, text), p < 0,
         \A k \in 1 .. Len(text) : ~ (P[k - 1] >= 0 /\ text[k] = TAB)
  PROVE  P[Len(text)] < Len(text)
<1> DEFINE Good == {n \in Nat : n <= Len(text) => P[n] < n}
<1>0. Len(text) \in Nat
  OBVIOUS
<1>1. 0 \in Good
  BY DEF IsPlaces
<1>2. ASSUME NEW n \in Nat, n \in Good PROVE n + 1 \in Good
  <2> SUFFICES ASSUME n + 1 <= Len(text) PROVE P[n + 1] < n + 1
    OBVIOUS
  <2>1. n \in 0 .. Len(text) /\ n + 1 \in 1 .. Len(text) /\ (n + 1) - 1 = n
    BY <1>0
  <2>2. P[n] \in Int /\ P[n + 1] = Behind(P[n], text[n + 1]) /\ P[n] < n
    BY <1>2, <2>1 DEF IsPlaces
  <2>3. ~ (P[n] >= 0 /\ text[n + 1] = TAB)
    BY <2>1
  <2>4. CASE P[n] < 0
    <3>1. Behind(P[n], text[n + 1]) \in Int /\ Behind(P[n], text[n + 1]) <= 0
      BY <2>2, <2>4, BehindIs
    <3>2. QED
      BY <2>2, <3>1
  <2>5. CASE P[n] >= 0
    <3>1. Behind(P[n], text[n + 1]) = P[n] + 1
      BY <2>3, <2>5 DEF Behind
    <3>2. QED
      BY <2>2, <3>1
  <2>6. QED
    BY <2>2, <2>4, <2>5
<1> HIDE DEF Good
<1>3. Nat \subseteq Good
  BY <1>1, <1>2, Inductive
<1>4. QED
  BY <1>0, <1>3 DEF Good

(* One more character, and the text m places further up. *)
LEMMA PlacesAfter ==
  ASSUME NEW S, NEW text \in Seq(S), NEW p \in Int, NEW P, IsPlaces(P, p, text), NEW c \in S, NEW m \in {0, W},
         NEW Q, Q = [i \in 0 .. Len(text) + 1 |-> IF i <= Len(text) THEN P[i] - m ELSE Behind(P[Len(text)], c) - m]
  PROVE  IsPlaces(Q, p - m, Append(text, c))
<1> DEFINE n == Len(text)
<1>0. n \in Nat /\ m \in Int /\ W \in Int /\ Append(text, c) \in Seq(S) /\ Len(Append(text, c)) = n + 1
  BY Shape
<1>1. P \in [0 .. n -> Int] /\ P[0] = p /\ \A i \in 1 .. n : P[i] = Behind(P[i - 1], text[i])
  BY DEF IsPlaces
<1>2. \A i \in 1 .. n : Append(text, c)[i] = text[i]
  OBVIOUS
<1>3. Append(text, c)[n + 1] = c
  OBVIOUS
<1> DEFINE new == Append(text, c)
<1> HIDE DEF n, new
<1>4. ASSUME NEW q \in Int, NEW e PROVE Behind(q - m, e) = Behind(q, e) - m /\ Behind(q, e) \in Int
  <2>1. Behind(q, e) \in Int /\ Behind(q - W, e) = Behind(q, e) - W
    BY BehindIs
  <2>2. CASE m = 0
    <3>1. q - 0 = q /\ Behind(q, e) - 0 = Behind(q, e)
      BY <2>1
    <3>2. QED
      BY <2>1, <2>2, <3>1
  <2>3. CASE m = W
    BY <2>1, <2>3
  <2>4. QED
    BY <2>2, <2>3
<1>5. Q \in [0 .. n + 1 -> Int]
  <2>1. P[n] \in Int /\ n \in 0 .. n
    BY <1>0, <1>1
  <2>2. Behind(P[n], c) - m \in Int
    BY <1>0, <1>4, <2>1
  <2>3. \A i \in 0 .. n + 1 : i <= n => P[i] - m \in Int
    BY <1>0, <1>1
  <2>4. QED
    BY <1>0, <2>2, <2>3 DEF n
<1>6. Q[0] = p - m
  BY <1>0, <1>1 DEF n
<1>7. ASSUME NEW i \in 1 .. n + 1 PROVE Q[i] = Behind(Q[i - 1], new[i])
  <2>1. i - 1 \in 0 .. n /\ Q[i - 1] = P[i - 1] - m /\ P[i - 1] \in Int
    <3>1. i - 1 \in 0 .. n /\ i - 1 \in 0 .. n + 1 /\ i - 1 <= n
      BY <1>0
    <3>2. Q[i - 1] = P[i - 1] - m
      BY <3>1 DEF n
    <3>3. QED
      BY <1>1, <3>1, <3>2
  <2>2. CASE i <= n
    <3>1. i \in 1 .. n /\ Q[i] = P[i] - m
      BY <1>0, <2>2 DEF n
    <3>2. P[i] = Behind(P[i - 1], text[i]) /\ new[i] = text[i]
      BY <1>1, <1>2, <3>1 DEF new
    <3>3. QED
      BY <1>4, <2>1, <3>1, <3>2
  <2>3. CASE ~ (i <= n)
    <3>1. i = n + 1 /\ i - 1 = n
      BY <1>0, <2>3
    <3>2. Q[i] = Behind(P[n], c) - m /\ new[i] = c
      BY <1>0, <1>3, <2>3, <3>1 DEF n, new
    <3>3. QED
      BY <1>4, <2>1, <3>1, <3>2
  <2>4. QED
    BY <2>2, <2>3
<1>8. QED
  BY <1>0, <1>5, <1>6, <1>7 DEF IsPlaces, n, new

LEMMA PlacesBefore ==
  ASSUME NEW S, NEW text \in Seq(S), text # <<>>, NEW p \in Int, NEW P, IsPlaces(P, p, text),
         NEW Q, Q = [i \in 0 .. Len(text) - 1 |-> P[i]]
  PROVE  IsPlaces(Q, p, Front(text)) /\ Front(text) \in Seq(S) /\ Len(Front(text)) = Len(text) - 1
         /\ \A i \in 1 .. Len(text) - 1 : Front(text)[i] = text[i]
<1>1. Len(text) \in Nat \ {0} /\ Front(text) = SubSeq(text, 1, Len(text) - 1)
  BY DEF Front
<1>2. /\ Front(text) \in Seq(S) /\ Len(Front(text)) = Len(text) - 1
      /\ \A i \in 1 .. Len(text) - 1 : Front(text)[i] = text[i]
  <2> DEFINE n == Len(text) - 1
  <2>1. n \in Nat /\ n <= Len(text)
    BY <1>1
  <2> HIDE DEF n
  <2>2. /\ SubSeq(text, 1, n) \in Seq(S) /\ Len(SubSeq(text, 1, n)) = n
        /\ \A i \in 1 .. n : SubSeq(text, 1, n)[i] = text[i]
    BY <2>1
  <2>3. QED
    BY <1>1, <2>2 DEF n
<1> DEFINE new == Front(text)
<1> HIDE DEF new
<1>3. Q \in [0 .. Len(text) - 1 -> Int] /\ Q[0] = p
  BY <1>1 DEF IsPlaces
<1>4. \A i \in 1 .. Len(text) - 1 : Q[i] = Behind(Q[i - 1], text[i])
  BY <1>1 DEF IsPlaces
<1>5. QED
  BY <1>2, <1>3, <1>4 DEF IsPlaces, new

(* What was typed, and where it is. *)
Typed == Printable \cup {TAB, NEWLINE, BACKSPACE}
(* The text from place from on, at P, on screen s that is blank from its   *)
(* end to place far.                                                       *)
LineAt(s, text, from, far, P) ==
  /\ IsPlaces(P, from, text)
  /\ Here(s) = P[Len(text)]
  /\ \A i \in 1 .. Len(text) : P[i - 1] >= 0 => See(s, P[i - 1]) = Glyph(text[i])
  /\ far \in Int /\ far <= W * H /\ \A q \in Int : Here(s) <= q /\ q < far => See(s, q) = BLANK
  /\ from < 0 => \E k \in 1 .. Len(text) : P[k - 1] >= 0 /\ text[k] = TAB
Line == \E P : LineAt(vga, input_buffer, start, reach, P)

Kinds ==
  /\ OnScreen(vga) /\ vga.scrolled = 0
  /\ input_buffer \in Seq(Typed) /\ Len(input_buffer) < INPUT_BUFFER_SIZE
  /\ reading => Len(input_buffer) < INPUT_BUFFER_SIZE - 1
  /\ reading \in BOOLEAN /\ tabs \in BOOLEAN /\ start \in Int /\ reach \in Int
  /\ calls \in 0 .. MaxCalls /\ keys \in 0 .. MaxKeys
LineThere == reading /\ ~ tabs => Line
ConsoleInv == Kinds /\ LineThere

-----------------------------------------------------------------------------
(* Console: the actions *)

LEMMA Reset ==
  ASSUME NEW s, OnScreen(s)
  PROVE  LET t == [s EXCEPT !.scrolled = 0] IN
         /\ OnScreen(t) /\ t.scrolled = 0 /\ Here(t) = Here(s) /\ t.cell = s.cell
BY DEF OnScreen, ScreenType, Here

LEMMA OutputStep ==
  ASSUME ConsoleInv, NEW s, OnScreen(s), Output(s)
  PROVE  ConsoleInv'
<1>1. OnScreen(vga') /\ vga'.scrolled = 0
  BY Reset DEF Output
<1>2. calls' \in 0 .. MaxCalls
  BY ConsoleAssumption DEF Output, ConsoleInv, Kinds, ConsoleAssumption
<1>3. ~ reading'
  BY DEF Output
<1>4. QED
  BY <1>1, <1>2, <1>3 DEF Output, ConsoleInv, Kinds, LineThere

LEMMA OutputSteps ==
  ASSUME ConsoleInv, puts \/ printf \/ Screen
  PROVE  ConsoleInv'
<1>0. OnScreen(vga) /\ vga \in ScreenType /\ Rows = 0 .. H - 1 /\ H \in Nat
  BY Shape DEF ConsoleInv, Kinds, OnScreen
<1>1. CASE puts
  <2>1. PICK c \in Printable : Output(vga_put_char(vga_put_char(vga, c), NEWLINE))
    BY <1>1 DEF puts
  <2>2. OnScreen(vga_put_char(vga, c))
    BY <1>0, PutStays DEF Cell
  <2> DEFINE s == vga_put_char(vga, c)
  <2> HIDE DEF s
  <2>3. OnScreen(vga_put_char(s, NEWLINE))
    BY <2>2, PutStays DEF s
  <2>4. QED
    BY <2>1, <2>3, OutputStep DEF s
<1>2. CASE printf
  <2>1. PICK c \in Printable \cup {TAB, NEWLINE} : Output(vga_put_char(vga, c))
    BY <1>2 DEF printf
  <2>2. OnScreen(vga_put_char(vga, c))
    BY <1>0, PutStays DEF Cell
  <2>3. QED
    BY <2>1, <2>2, OutputStep
<1>3. CASE Output(vga_clear(vga))
  BY <1>0, <1>3, Cleared, OutputStep
<1>4. ASSUME NEW step \in 1 .. screenheight, Output(vga_scroll(vga, step)) PROVE ConsoleInv'
  <2>1. vga.curx \in Columns /\ vga.cury \in 0 .. H /\ step \in 1 .. H
    BY <1>0 DEF OnScreen, H
  <2>2. OnScreen(vga_scroll(vga, step))
    BY <1>0, <2>1, Scrolled
  <2>3. QED
    BY <1>4, <2>2, OutputStep
<1>5. ASSUME NEW x \in Columns, NEW y \in Rows, Output(vga_gotoxy(vga, x, y)) PROVE ConsoleInv'
  <2>1. OnScreen(vga_gotoxy(vga, x, y))
    BY <1>0, Goto
  <2>2. QED
    BY <1>5, <2>1, OutputStep
<1>6. QED
  BY <1>1, <1>2, <1>3, <1>4, <1>5 DEF Screen

LEMMA ReadStep ==
  ASSUME ConsoleInv, read_input
  PROVE  ConsoleInv'
<1>1. /\ input_buffer' = <<>> /\ Len(input_buffer') = 0 /\ start' = Here(vga) /\ reach' = Here(vga)
      /\ UNCHANGED <<vga, calls, keys>> /\ reading' /\ tabs' = FALSE
  BY DEF read_input, Cursor, Here
<1>2. Here(vga) \in Screenful /\ Here(vga) \in Int /\ Here(vga) >= 0 /\ Here(vga) < W * H /\ W * H \in Nat
  <2>1. Here(vga) \in Screenful
    BY OnTheScreen DEF ConsoleInv, Kinds, OnScreen, Here
  <2>2. QED
    BY <2>1, Shape DEF Screenful
<1>3. Here(vga)' = Here(vga)
  BY <1>1 DEF Here
<1> DEFINE P == [i \in 0 .. 0 |-> Here(vga)]
<1>4. IsPlaces(P, Here(vga), <<>>) /\ P[0] = Here(vga)
  BY <1>2 DEF IsPlaces
<1> HIDE DEF P
<1>5. LineAt(vga, <<>>, Here(vga), Here(vga), P)
  <2>1. Len(<<>>) = 0 /\ 1 .. 0 = {}
    OBVIOUS
  <2>2. \A q \in Int : ~ (Here(vga) <= q /\ q < Here(vga))
    BY <1>2
  <2>3. Here(vga) <= W * H /\ ~ (Here(vga) < 0)
    BY <1>2
  <2>4. QED
    BY <1>2, <1>4, <2>1, <2>2, <2>3 DEF LineAt
<1>5a. Line'
  BY <1>1, <1>5 DEF Line
<1>6. Kinds'
  <2>1. <<>> \in Seq(Typed)
    OBVIOUS
  <2>2. 0 < INPUT_BUFFER_SIZE - 1 /\ 0 < INPUT_BUFFER_SIZE
    BY Shape
  <2>3. QED
    BY <1>1, <1>2, <2>1, <2>2 DEF ConsoleInv, Kinds
<1>7. QED
  BY <1>5a, <1>6 DEF ConsoleInv, LineThere

(* A screen of one row has no room for a character: read_input's buffer    *)
(* has two places then, and the first character ends the line.             *)
LEMMA HighEnough ==
  ASSUME NEW n \in Nat \ {0}, n < INPUT_BUFFER_SIZE - 1
  PROVE  H > 1
<1>1. H \in Nat \ {0} /\ INPUT_BUFFER_SIZE <= (H - 1) * W + 2 /\ INPUT_BUFFER_SIZE \in Nat
  BY Shape
<1>2. CASE H = 1
  <2>1. (H - 1) * W = 0
    BY <1>2, Shape
  <2>2. QED
    BY <1>1, <2>1
<1>3. QED
  BY <1>1, <1>2

(* A backspace blanks the place before the cursor, if there is one. *)
LEMMA RuboutIs ==
  ASSUME NEW s, OnScreen(s)
  PROVE  LET t == Rubout(s) IN
         /\ OnScreen(t)
         /\ H > 1 /\ Here(s) > 0 => /\ t.scrolled = s.scrolled /\ Here(t) = Here(s) - 1
                                   /\ \A q \in Screenful : See(t, q) = IF q = Here(s) - 1 THEN BLANK ELSE See(s, q)
<1> DEFINE x == IF s.curx > 0 THEN s.curx - 1 ELSE screenwidth - 1
           y == IF s.curx > 0 THEN s.cury ELSE s.cury - 1
           a == vga_gotoxy(s, x, y)
           b == vga_put_char(a, BLANK)
           t == vga_gotoxy(b, x, y)
<1>0. /\ s.curx \in Columns /\ s.cury \in Rows /\ s.curx \in Int /\ s.cury \in Int /\ s.curx >= 0 /\ s.cury >= 0
      /\ W \in Nat \ {0} /\ screenwidth = W /\ Columns = 0 .. W - 1 /\ Rows = 0 .. H - 1 /\ H \in Nat \ {0}
      /\ s.curx < W /\ s.cury < H
  BY Shape DEF OnScreen, W
<1>1. CASE s.curx = 0 /\ s.cury = 0
  <2>1. Rubout(s) = s
    BY <1>1 DEF Rubout
  <2>2. Here(s) = 0
    <3>1. At(0, 0) = W * 0 + 0
      <4>1. 0 \in Int
        OBVIOUS
      <4>2. QED
        BY <4>1, AtInt
    <3>2. QED
      BY <1>0, <1>1, <3>1 DEF Here
  <2>3. QED
    BY <2>1, <2>2
<1>2. CASE ~ (s.curx = 0 /\ s.cury = 0)
  <2>1. Rubout(s) = t
    BY <1>2 DEF Rubout
  <2>2. x \in Columns /\ y \in Rows
    <3>1. CASE s.curx > 0
      BY <1>0, <3>1
    <3>2. CASE ~ (s.curx > 0)
      BY <1>0, <1>2, <3>2
    <3>3. QED
      BY <3>1, <3>2
  <2>3. At(x, y) = Here(s) - 1 /\ Here(s) \in Int
    <3>1. CASE s.curx > 0
      <4>1. s.curx - 1 \in Int
        BY <1>0
      <4>2. At(s.curx, s.cury) = At(0, s.cury) + s.curx /\ At(s.curx, s.cury) \in Int
        BY <1>0, AtInt
      <4>3. At(s.curx - 1, s.cury) = At(0, s.cury) + (s.curx - 1)
        BY <1>0, <4>1, AtInt
      <4>4. At(0, s.cury) \in Int
        <5>1. 0 \in Int
          OBVIOUS
        <5>2. QED
          BY <1>0, <5>1, AtInt
      <4>5. QED
        BY <1>0, <3>1, <4>2, <4>3, <4>4 DEF Here
    <3>2. CASE ~ (s.curx > 0)
      <4>1. s.curx = 0 /\ s.cury - 1 \in Int /\ (s.cury - 1) + 1 = s.cury /\ W - 1 \in Int /\ 0 \in Int
        BY <1>0, <3>2
      <4>2. At(W, s.cury - 1) = At(0, s.cury - 1) + W /\ At(W, s.cury - 1) = At(0, s.cury)
        <5>1. W \in Int /\ s.cury - 1 \in Int
          BY <1>0
        <5>2. At(W, s.cury - 1) = At(0, s.cury - 1) + W /\ At(W, s.cury - 1) = At(0, (s.cury - 1) + 1)
          BY <5>1, AtInt
        <5>3. QED
          BY <4>1, <5>2
      <4>3. At(W - 1, s.cury - 1) = At(0, s.cury - 1) + (W - 1)
        BY <4>1, AtInt
      <4>4. At(0, s.cury - 1) \in Int /\ At(0, s.cury) \in Int
        BY <1>0, <4>1, AtInt
      <4>5. Here(s) = At(0, s.cury) /\ x = W - 1 /\ y = s.cury - 1
        BY <1>0, <3>2, <4>1 DEF Here
      <4> HIDE DEF x, y
      <4>6. QED
        BY <1>0, <4>2, <4>3, <4>4, <4>5
    <3>3. QED
      BY <3>1, <3>2
  <2> HIDE DEF x, y
  <2>4. OnScreen(a) /\ a.cell = s.cell /\ a.scrolled = s.scrolled /\ a.curx = x /\ a.cury = y
    BY <2>2, Goto
  <2> HIDE DEF a
  <2>5. BLANK \in Cell /\ BLANK # NEWLINE /\ BLANK # TAB
    BY ConsoleAssumption DEF Cell, ConsoleAssumption
  <2>6. OnScreen(b)
    BY <2>4, <2>5, PutStays
  <2>7. ASSUME H > 1
        PROVE  b.scrolled = s.scrolled /\ \A q \in Screenful : See(b, q) = IF q = Here(s) - 1 THEN BLANK ELSE See(s, q)
    <3>1. Here(a) = Here(s) - 1 /\ Behind(Here(a), BLANK) = Here(s) /\ Glyph(BLANK) = BLANK
      <4>1. Here(a) = Here(s) - 1
        BY <2>3, <2>4 DEF Here
      <4>2. (Here(s) - 1) + 1 = Here(s)
        BY <2>3
      <4>3. QED
        BY <2>5, <4>1, <4>2 DEF Behind, Glyph
    <3>2. Stays(a, BLANK, b) \/ Moves(a, BLANK, b)
      BY <2>4, <2>5, <2>7, PutShows
    <3>3. Here(s) < W * H
      <4>1. Here(s) \in Screenful
        BY <1>0, OnTheScreen DEF Here
      <4>2. QED
        BY <4>1, Shape DEF Screenful
    <3>4. Stays(a, BLANK, b)
      BY <2>3, <3>1, <3>2, <3>3, Shape DEF Moves
    <3>5. \A q \in Screenful : q \in Int
      BY DEF Screenful
    <3>6. \A q \in Screenful : Here(a) <= q /\ q < Behind(Here(a), BLANK) <=> q = Here(s) - 1
      BY <2>3, <3>1, <3>5
    <3>7. \A q : See(a, q) = See(s, q)
      BY <2>4 DEF See
    <3>8. QED
      BY <2>4, <3>1, <3>4, <3>6, <3>7 DEF Stays, Drew
  <2> HIDE DEF b
  <2>8. OnScreen(t) /\ t.cell = b.cell /\ t.scrolled = b.scrolled /\ t.curx = x /\ t.cury = y
    BY <2>2, <2>6, Goto
  <2> HIDE DEF t
  <2>9. Here(t) = Here(s) - 1 /\ \A q : See(t, q) = See(b, q)
    BY <2>3, <2>8 DEF Here, See
  <2>10. QED
    BY <2>1, <2>7, <2>8, <2>9
<1>3. QED
  BY <1>1, <1>2

(* A character typed at the end of the line; m is by how much the text     *)
(* moved up. *)
Typing(s, c, t, m) ==
  /\ Here(t) = Behind(Here(s), c) - m /\ Behind(Here(s), c) <= W * H
  /\ \A q \in Screenful : See(t, q) = IF q + m \in Screenful THEN Drew(s, c, q + m) ELSE BLANK

LEMMA CharacterTyped ==
  ASSUME NEW s, OnScreen(s), NEW text \in Seq(Typed), NEW from \in Int, NEW far, NEW P, LineAt(s, text, from, far, P),
         NEW c \in Typed, NEW t, OnScreen(t), NEW m \in {0, W}, Typing(s, c, t, m),
         m = W => Here(t) >= Len(text) + 1,
         NEW to, to = IF Here(t) > far - m THEN Here(t) ELSE far - m
  PROVE  \E Q : LineAt(t, Append(text, c), from - m, to, Q)
<1> DEFINE n == Len(text)
           new == Append(text, c)
           Q == [i \in 0 .. n + 1 |-> IF i <= n THEN P[i] - m ELSE Behind(P[n], c) - m]
<1>0. n \in Nat /\ W \in Nat \ {0} /\ m \in Nat /\ W * H \in Nat /\ new \in Seq(Typed) /\ Len(new) = n + 1
  BY Shape
<1>1. /\ IsPlaces(P, from, text) /\ Here(s) = P[n] /\ far \in Int /\ far <= W * H
      /\ \A i \in 1 .. n : P[i - 1] >= 0 => See(s, P[i - 1]) = Glyph(text[i])
      /\ \A q \in Int : Here(s) <= q /\ q < far => See(s, q) = BLANK
      /\ from < 0 => \E k \in 1 .. n : P[k - 1] >= 0 /\ text[k] = TAB
  BY DEF LineAt
<1>2. IsPlaces(Q, from - m, new)
  BY <1>1, PlacesAfter
<1>3. P \in [0 .. n -> Int] /\ \A i \in 0 .. n : P[i] \in Int /\ Q[i] = P[i] - m
  <2>1. P \in [0 .. n -> Int]
    BY <1>1 DEF IsPlaces
  <2>2. ASSUME NEW i \in 0 .. n PROVE Q[i] = P[i] - m
    <3>1. i \in 0 .. n + 1 /\ i <= n
      BY <1>0
    <3>2. QED
      BY <3>1
  <2>3. QED
    BY <2>1, <2>2
<1>4. Q[n + 1] = Behind(P[n], c) - m
  BY <1>0
<1>5. \A i \in 1 .. n : new[i] = text[i]
  OBVIOUS
<1>5a. new[n + 1] = c
  OBVIOUS
<1> HIDE DEF n, new, Q
<1>6. Here(s) \in Int /\ Here(s) >= 0 /\ Here(s) < W * H /\ Here(t) \in Int /\ Here(t) >= 0 /\ Here(t) < W * H
  BY <1>0, OnTheScreen DEF Screenful, OnScreen, Here
<1>7. Behind(Here(s), c) \in Int /\ Behind(Here(s), c) > Here(s) /\ Behind(Here(s), c) <= W * H
      /\ Here(t) = Behind(Here(s), c) - m /\ Here(t) = Q[n + 1]
  BY <1>1, <1>4, <1>6, BehindIs DEF Typing
<1>8. \A q \in Screenful : See(t, q) = IF q + m \in Screenful THEN Drew(s, c, q + m) ELSE BLANK
  BY DEF Typing
<1>9. ASSUME NEW i \in 1 .. n + 1, Q[i - 1] >= 0 PROVE See(t, Q[i - 1]) = Glyph(new[i])
  <2>1. i - 1 \in 0 .. n /\ n \in 0 .. n /\ i \in Int
    BY <1>0
  <2>2. P[i - 1] \in Int /\ Q[i - 1] = P[i - 1] - m /\ P[n] \in Int
    BY <1>3, <2>1
  <2>3. P[i - 1] >= 0
    BY <1>0, <1>9, <2>2
  <2>4. CASE i = n + 1
    <3>1. P[i - 1] = Here(s) /\ new[i] = c
      <4>1. i - 1 = n
        BY <1>0, <2>4
      <4>2. QED
        BY <1>1, <1>5a, <2>4, <4>1
    <3>2. Q[i - 1] \in Screenful /\ Q[i - 1] + m = Here(s) /\ Here(s) \in Screenful
      BY <1>0, <1>6, <1>9, <2>2, <3>1 DEF Screenful
    <3>3. Drew(s, c, Here(s)) = Glyph(c)
      BY <1>6, <1>7 DEF Drew
    <3>4. QED
      BY <1>8, <3>1, <3>2, <3>3
  <2>5. CASE i # n + 1
    <3>1. i \in 1 .. n /\ i - 1 < n
      BY <1>0, <2>1, <2>5
    <3>2. P[i - 1] < P[n]
      BY <1>1, <2>1, <3>1, PlacesGrow DEF n
    <3>3. P[i - 1] < Here(s) /\ See(s, P[i - 1]) = Glyph(text[i]) /\ new[i] = text[i]
      BY <1>1, <1>5, <2>3, <3>1, <3>2
    <3>4. Q[i - 1] \in Screenful /\ Q[i - 1] + m = P[i - 1] /\ P[i - 1] \in Screenful
      BY <1>0, <1>6, <1>9, <2>2, <2>3, <3>3 DEF Screenful
    <3>5. Drew(s, c, P[i - 1]) = See(s, P[i - 1])
      BY <1>6, <2>2, <3>3 DEF Drew
    <3>6. QED
      BY <1>8, <3>3, <3>4, <3>5
  <2>6. QED
    BY <2>4, <2>5
<1>10. to \in Int /\ to <= W * H
  <2>1. far - m \in Int /\ far - m <= W * H
    BY <1>0, <1>1
  <2>2. QED
    BY <1>0, <1>6, <2>1
<1>11. ASSUME NEW q \in Int, Here(t) <= q, q < to PROVE See(t, q) = BLANK
  <2>1. to = far - m
    BY <1>1, <1>0, <1>6, <1>11
  <2>2. q + m < far /\ q + m >= Behind(Here(s), c) /\ q + m \in Int
    BY <1>0, <1>1, <1>6, <1>7, <1>11, <2>1
  <2>3. q \in Screenful /\ q + m \in Screenful
    BY <1>0, <1>1, <1>6, <1>7, <1>11, <2>2 DEF Screenful
  <2>4. Drew(s, c, q + m) = See(s, q + m)
    BY <1>6, <1>7, <2>2 DEF Drew
  <2>5. See(s, q + m) = BLANK
    BY <1>1, <1>6, <1>7, <2>2
  <2>6. QED
    BY <1>8, <2>3, <2>4, <2>5
<1>12. ASSUME from - m < 0 PROVE \E k \in 1 .. n + 1 : Q[k - 1] >= 0 /\ new[k] = TAB
  <2>1. CASE m = 0
    <3>1. PICK k \in 1 .. n : P[k - 1] >= 0 /\ text[k] = TAB
      BY <1>1, <1>12, <2>1
    <3>2. k \in 1 .. n + 1 /\ k - 1 \in 0 .. n
      BY <1>0
    <3>3. Q[k - 1] >= 0
      BY <1>3, <2>1, <3>1, <3>2
    <3>4. QED
      BY <1>5, <3>1, <3>2, <3>3
  <2>2. CASE m = W
    <3> SUFFICES ASSUME \A k \in 1 .. n + 1 : ~ (Q[k - 1] >= 0 /\ new[k] = TAB) PROVE FALSE
      OBVIOUS
    <3>1. from - m \in Int
      BY <1>0
    <3>2. Q[n + 1] < n + 1
      BY <1>0, <1>2, <1>12, <3>1, FewPlaces
    <3>3. QED
      BY <1>0, <1>6, <1>7, <2>2, <3>2 DEF n
  <2>3. QED
    BY <2>1, <2>2
<1>13. LineAt(t, new, from - m, to, Q)
  BY <1>0, <1>2, <1>7, <1>9, <1>10, <1>11, <1>12 DEF LineAt
<1>14. QED
  BY <1>13 DEF new

(* A character other than a TAB taken back. *)
LEMMA CharacterTaken ==
  ASSUME NEW s, OnScreen(s), NEW text \in Seq(Typed), text # <<>>, NEW from \in Int, NEW far, NEW P, LineAt(s, text, from, far, P),
         Last(text) # TAB, NEW t, OnScreen(t), H > 1,
         H > 1 /\ Here(s) > 0 => /\ Here(t) = Here(s) - 1
                                 /\ \A q \in Screenful : See(t, q) = IF q = Here(s) - 1 THEN BLANK ELSE See(s, q)
  PROVE  Here(s) > 0 /\ \E Q : LineAt(t, Front(text), from, far, Q)
<1> DEFINE n == Len(text)
           new == Front(text)
           Q == [i \in 0 .. n - 1 |-> P[i]]
<1>0. n \in Nat \ {0} /\ W * H \in Nat /\ text[n] # TAB
  BY Shape DEF Last
<1>1. /\ IsPlaces(P, from, text) /\ Here(s) = P[n] /\ far \in Int /\ far <= W * H
      /\ \A i \in 1 .. n : P[i - 1] >= 0 => See(s, P[i - 1]) = Glyph(text[i])
      /\ \A q \in Int : Here(s) <= q /\ q < far => See(s, q) = BLANK
      /\ from < 0 => \E k \in 1 .. n : P[k - 1] >= 0 /\ text[k] = TAB
  BY DEF LineAt
<1>2. IsPlaces(Q, from, new) /\ new \in Seq(Typed) /\ Len(new) = n - 1 /\ \A i \in 1 .. n - 1 : new[i] = text[i]
  BY <1>1, PlacesBefore
<1>3. P \in [0 .. n -> Int] /\ P[0] = from /\ P[n] = Behind(P[n - 1], text[n])
  BY <1>0, <1>1 DEF IsPlaces
<1>4. \A i \in 0 .. n - 1 : Q[i] = P[i] /\ P[i] \in Int
  BY <1>0, <1>3
<1>5. \A i, j \in 0 .. n : i < j => P[i] < P[j]
  BY <1>1, PlacesGrow
<1> HIDE DEF n, new, Q
<1>6. P[n] \in Int /\ P[n] = P[n - 1] + 1 /\ Q[n - 1] = P[n - 1] /\ P[n - 1] \in Int
  BY <1>0, <1>3, <1>4 DEF Behind
<1>7. Here(s) > 0
  <2>1. CASE from >= 0
    <3>1. P[0] < P[n]
      BY <1>0, <1>5
    <3>2. QED
      BY <1>1, <1>3, <1>6, <2>1, <3>1
  <2>2. CASE from < 0
    <3>1. PICK k \in 1 .. n : P[k - 1] >= 0
      BY <1>1, <2>2
    <3>2. P[k - 1] < P[n] /\ P[k - 1] \in Int
      BY <1>0, <1>4, <1>5
    <3>3. QED
      BY <1>1, <1>6, <3>1, <3>2
  <2>3. QED
    BY <2>1, <2>2
<1>8. Here(t) = Here(s) - 1 /\ \A q \in Screenful : See(t, q) = IF q = Here(s) - 1 THEN BLANK ELSE See(s, q)
  BY <1>7
<1>9. Here(s) \in Int /\ Here(s) < W * H
  BY <1>0, OnTheScreen DEF Screenful, OnScreen, Here
<1>10. ASSUME NEW i \in 1 .. n - 1, Q[i - 1] >= 0 PROVE See(t, Q[i - 1]) = Glyph(new[i])
  <2>1. i \in 1 .. n /\ i - 1 \in 0 .. n - 1 /\ i - 1 < n - 1 /\ i - 1 \in 0 .. n /\ n - 1 \in 0 .. n
    BY <1>0
  <2>2. Q[i - 1] = P[i - 1] /\ P[i - 1] \in Int /\ P[i - 1] < P[n - 1]
    BY <1>4, <1>5, <2>1
  <2>3. P[i - 1] \in Screenful /\ P[i - 1] # Here(s) - 1
    BY <1>0, <1>1, <1>6, <1>9, <1>10, <2>2 DEF Screenful
  <2>4. See(s, P[i - 1]) = Glyph(text[i]) /\ new[i] = text[i]
    BY <1>1, <1>2, <1>10, <2>1, <2>2
  <2>5. QED
    BY <1>8, <2>2, <2>3, <2>4
<1>11. ASSUME NEW q \in Int, Here(t) <= q, q < far PROVE See(t, q) = BLANK
  <2>1. q \in Screenful
    BY <1>0, <1>1, <1>7, <1>8, <1>9, <1>11 DEF Screenful
  <2>2. CASE q = Here(s) - 1
    BY <1>8, <2>1, <2>2
  <2>3. CASE q # Here(s) - 1
    <3>1. Here(s) <= q
      BY <1>8, <1>9, <1>11, <2>3
    <3>2. QED
      BY <1>1, <1>8, <1>11, <2>1, <2>3, <3>1
  <2>4. QED
    BY <2>2, <2>3
<1>12. ASSUME from < 0 PROVE \E k \in 1 .. n - 1 : Q[k - 1] >= 0 /\ new[k] = TAB
  <2>1. PICK k \in 1 .. n : P[k - 1] >= 0 /\ text[k] = TAB
    BY <1>1, <1>12
  <2>2. k \in 1 .. n - 1 /\ k - 1 \in 0 .. n - 1
    BY <1>0, <2>1
  <2>3. QED
    BY <1>2, <1>4, <2>1, <2>2
<1>13. Here(t) = Q[n - 1]
  BY <1>1, <1>6, <1>8
<1>14. LineAt(t, new, from, far, Q)
  BY <1>1, <1>2, <1>10, <1>11, <1>12, <1>13 DEF LineAt
<1>15. QED
  BY <1>7, <1>14 DEF new

LEMMA StoreStep ==
  ASSUME ConsoleInv, NEW c \in Typed, Store(c)
  PROVE  ConsoleInv'
<1> DEFINE s == vga_put_char(vga, c)
           n == Len(input_buffer)
<1>0. /\ OnScreen(vga) /\ vga.scrolled = 0 /\ input_buffer \in Seq(Typed) /\ n \in Nat
      /\ n < INPUT_BUFFER_SIZE - 1 /\ INPUT_BUFFER_SIZE \in Nat
      /\ reading /\ tabs \in BOOLEAN /\ start \in Int /\ reach \in Int
      /\ calls \in 0 .. MaxCalls /\ keys \in 0 .. MaxKeys /\ MaxKeys \in Nat /\ keys < MaxKeys
      /\ W \in Nat \ {0} /\ H \in Nat \ {0}
  BY ConsoleAssumption, Shape DEF ConsoleInv, Kinds, Store, ConsoleAssumption
<1>1. /\ input_buffer' = Append(input_buffer, c) /\ vga' = [s EXCEPT !.scrolled = 0]
      /\ start' = start - s.scrolled * W /\ keys' = keys + 1 /\ tabs' = tabs /\ calls' = calls
      /\ reading' = (c # NEWLINE /\ Len(input_buffer') < INPUT_BUFFER_SIZE - 1)
  BY DEF Store, Shows, W
<1>2. reach' = IF c # NEWLINE /\ Here(s) > reach - s.scrolled * W THEN Here(s) ELSE reach - s.scrolled * W
  BY DEF Store, W, Here
<1>3. OnScreen(s) /\ s.scrolled \in Nat
  <2>1. c \in Cell \cup {TAB, NEWLINE}
    BY DEF Typed, Cell
  <2>2. OnScreen(s)
    BY <1>0, <2>1, PutStays
  <2>3. QED
    BY <2>2 DEF OnScreen, ScreenType
<1> HIDE DEF s, n
<1>4. OnScreen(vga') /\ vga'.scrolled = 0 /\ Here(vga') = Here(s) /\ vga'.cell = s.cell
  BY <1>1, <1>3, Reset
<1>5. input_buffer' \in Seq(Typed) /\ Len(input_buffer') = n + 1
  BY <1>0, <1>1 DEF n
<1>6. Here(s) \in Int
  BY <1>3, Origin, AtInt DEF OnScreen, Here
<1>7. Kinds'
  <2>1. s.scrolled * W \in Nat
    BY <1>0, <1>3
  <2>2. start' \in Int /\ reach' \in Int
    BY <1>0, <1>1, <1>2, <1>6, <2>1
  <2>3. n + 1 < INPUT_BUFFER_SIZE /\ keys' \in 0 .. MaxKeys
    BY <1>0, <1>1
  <2>4. QED
    BY <1>0, <1>1, <1>4, <1>5, <2>2, <2>3 DEF Kinds
<1>8. ASSUME reading', ~ tabs' PROVE Line'
  <2>1. c # NEWLINE /\ ~ tabs /\ n + 1 < INPUT_BUFFER_SIZE - 1
    BY <1>1, <1>5, <1>8
  <2>2. PICK P : LineAt(vga, input_buffer, start, reach, P)
    BY <1>0, <2>1 DEF ConsoleInv, LineThere, Line
  <2>3. H > 1
    BY <1>0, <2>1, HighEnough
  <2>4. c \in Cell \cup {TAB}
    BY <2>1 DEF Typed, Cell
  <2>5. Stays(vga, c, s) \/ Moves(vga, c, s)
    BY <1>0, <2>1, <2>3, <2>4, PutShows DEF s
  <2>6. \A q : See(vga', q) = See(s, q)
    BY <1>4 DEF See
  <2>7. Behind(Here(vga), c) \in Int
    <3>1. Here(vga) \in Int
      BY <1>0, Origin, AtInt DEF OnScreen, Here
    <3>2. QED
      BY <3>1, BehindIs
  <2>8. ASSUME NEW m \in {0, W}, s.scrolled * W = m, Typing(vga, c, vga', m), m = W => Here(vga') >= n + 1
        PROVE  Line'
    <3>1. start' = start - m
      BY <1>1, <2>8
    <3>2. reach' = IF Here(vga') > reach - m THEN Here(vga') ELSE reach - m
      BY <1>2, <1>4, <2>1, <2>8
    <3>3. \E Q : LineAt(vga', Append(input_buffer, c), start - m, reach', Q)
      BY <1>0, <1>4, <2>2, <2>8, <3>2, CharacterTyped DEF n
    <3>4. QED
      BY <1>1, <3>1, <3>3 DEF Line
  <2>9. CASE Stays(vga, c, s)
    <3>1. s.scrolled = 0 /\ s.scrolled * W = 0
      BY <1>0, <2>9 DEF Stays
    <3>2. Typing(vga, c, vga', 0)
      <4>1. Here(vga') = Behind(Here(vga), c) - 0 /\ Behind(Here(vga), c) <= W * H
        BY <1>4, <2>7, <2>9, Shape DEF Stays
      <4>2. \A q \in Screenful : q + 0 = q
        BY DEF Screenful
      <4>3. \A q \in Screenful : See(vga', q) = Drew(vga, c, q)
        BY <2>6, <2>9 DEF Stays
      <4>4. QED
        BY <4>1, <4>2, <4>3 DEF Typing
    <3>3. QED
      BY <1>0, <2>8, <3>1, <3>2
  <2>10. CASE Moves(vga, c, s)
    <3>1. s.scrolled = 1 /\ s.scrolled * W = W
      BY <1>0, <2>10 DEF Moves
    <3>2. Typing(vga, c, vga', W)
      <4>1. Here(vga') = Behind(Here(vga), c) - W /\ Behind(Here(vga), c) <= W * H
        BY <1>4, <2>7, <2>10, Shape DEF Moves
      <4>2. \A q \in Screenful : See(vga', q) = IF q + W \in Screenful THEN Drew(vga, c, q + W) ELSE BLANK
        BY <2>6, <2>10 DEF Moves
      <4>3. QED
        BY <4>1, <4>2 DEF Typing
    <3>3. Here(vga') >= n + 1
      <4>1. Here(vga') = W * H - W
        BY <1>4, <2>10 DEF Moves
      <4>2. (H - 1) * W = W * H - W /\ (H - 1) * W \in Nat
        BY <1>0, Shape
      <4>3. INPUT_BUFFER_SIZE <= (H - 1) * W + 2
        BY Shape
      <4>4. QED
        BY <1>0, <2>1, <4>1, <4>2, <4>3
    <3>4. QED
      BY <1>0, <2>8, <3>1, <3>2, <3>3
  <2>11. QED
    BY <2>5, <2>9, <2>10
<1>9. QED
  BY <1>7, <1>8 DEF ConsoleInv, LineThere

LEMMA EraseStep ==
  ASSUME ConsoleInv, Erase
  PROVE  ConsoleInv'
<1> DEFINE s == Rubout(vga)
           n == Len(input_buffer)
<1>0. /\ OnScreen(vga) /\ vga.scrolled = 0 /\ input_buffer \in Seq(Typed) /\ n \in Nat \ {0} /\ input_buffer # <<>>
      /\ n < INPUT_BUFFER_SIZE - 1 /\ INPUT_BUFFER_SIZE \in Nat
      /\ reading /\ tabs \in BOOLEAN /\ start \in Int /\ reach \in Int
      /\ calls \in 0 .. MaxCalls /\ keys \in 0 .. MaxKeys /\ MaxKeys \in Nat /\ keys < MaxKeys
      /\ W \in Nat \ {0}
  BY ConsoleAssumption, Shape DEF ConsoleInv, Kinds, Erase, ConsoleAssumption
<1>1. /\ input_buffer' = Front(input_buffer) /\ vga' = [s EXCEPT !.scrolled = 0]
      /\ start' = start - s.scrolled * W /\ keys' = keys + 1 /\ tabs' = (tabs \/ Last(input_buffer) = TAB)
      /\ calls' = calls /\ reading' = reading /\ reach' = reach
  BY DEF Erase, Shows, W
<1>2. /\ OnScreen(s) /\ s.scrolled \in Nat
      /\ H > 1 /\ Here(vga) > 0 => /\ s.scrolled = vga.scrolled /\ Here(s) = Here(vga) - 1
                                    /\ \A q \in Screenful : See(s, q) = IF q = Here(vga) - 1 THEN BLANK ELSE See(vga, q)
  <2>1. /\ OnScreen(s)
        /\ H > 1 /\ Here(vga) > 0 => /\ s.scrolled = vga.scrolled /\ Here(s) = Here(vga) - 1
                                      /\ \A q \in Screenful : See(s, q) = IF q = Here(vga) - 1 THEN BLANK ELSE See(vga, q)
    BY <1>0, RuboutIs
  <2>2. QED
    BY <2>1 DEF OnScreen, ScreenType
<1> HIDE DEF s, n
<1>4. OnScreen(vga') /\ vga'.scrolled = 0 /\ Here(vga') = Here(s) /\ vga'.cell = s.cell
  BY <1>1, <1>2, Reset
<1>5. input_buffer' \in Seq(Typed) /\ Len(input_buffer') = n - 1
  <2>1. input_buffer' = SubSeq(input_buffer, 1, n - 1)
    BY <1>1 DEF Front, n
  <2>2. n - 1 \in Nat /\ n - 1 <= Len(input_buffer)
    BY <1>0 DEF n
  <2>3. QED
    BY <1>0, <2>1, <2>2
<1>6. Kinds'
  <2>1. s.scrolled * W \in Nat
    BY <1>0, <1>2
  <2>2. start' \in Int /\ reach' \in Int
    BY <1>0, <1>1, <2>1
  <2>3. n - 1 < INPUT_BUFFER_SIZE - 1 /\ n - 1 < INPUT_BUFFER_SIZE /\ keys' \in 0 .. MaxKeys /\ tabs' \in BOOLEAN
    BY <1>0, <1>1
  <2>4. QED
    BY <1>0, <1>1, <1>4, <1>5, <2>2, <2>3 DEF Kinds
<1>7. ASSUME ~ tabs' PROVE Line'
  <2>1. ~ tabs /\ Last(input_buffer) # TAB
    BY <1>1, <1>7
  <2>2. PICK P : LineAt(vga, input_buffer, start, reach, P)
    BY <1>0, <2>1 DEF ConsoleInv, LineThere, Line
  <2>3. H > 1
    BY <1>0, HighEnough
  <2>4. \A q : See(vga', q) = See(s, q)
    BY <1>4 DEF See
  <2>5. H > 1 /\ Here(vga) > 0 => /\ Here(vga') = Here(vga) - 1
                                  /\ \A q \in Screenful : See(vga', q) = IF q = Here(vga) - 1 THEN BLANK ELSE See(vga, q)
    BY <1>2, <1>4, <2>4
  <2>6. Here(vga) > 0 /\ \E Q : LineAt(vga', Front(input_buffer), start, reach, Q)
    BY <1>0, <1>4, <2>1, <2>2, <2>3, <2>5, CharacterTaken
  <2>7. s.scrolled * W = 0 /\ start' = start
    <3>1. s.scrolled = 0
      BY <1>0, <1>2, <2>3, <2>6
    <3>2. QED
      BY <1>0, <1>1, <3>1
  <2>8. QED
    BY <1>1, <2>6, <2>7 DEF Line
<1>8. QED
  BY <1>6, <1>7 DEF ConsoleInv, LineThere

LEMMA ConsoleInitStep ==
  ConsoleInit => ConsoleInv
<1> SUFFICES ASSUME ConsoleInit PROVE ConsoleInv
  OBVIOUS
<1> DEFINE s == [cell |-> [y \in Rows |-> BlankRow], curx |-> 0, cury |-> 0, hardware |-> 0, scrolled |-> 0]
<1>1. s \in ScreenType /\ s.scrolled = 0
  BY Origin DEF ScreenType
<1>2. vga = vga_clear(s)
  BY DEF ConsoleInit
<1> HIDE DEF s
<1>3. OnScreen(vga) /\ vga.scrolled = 0
  BY <1>1, <1>2, Cleared
<1>4. input_buffer \in Seq(Typed) /\ Len(input_buffer) = 0
  BY DEF ConsoleInit
<1>5. 0 < INPUT_BUFFER_SIZE /\ 0 \in 0 .. MaxCalls /\ 0 \in 0 .. MaxKeys
  BY ConsoleAssumption, Shape DEF ConsoleAssumption
<1>6. /\ reading = FALSE /\ tabs = FALSE /\ start = 0 /\ reach = 0 /\ calls = 0 /\ keys = 0
  BY DEF ConsoleInit
<1>7. QED
  <2>1. Kinds
    <3>1. start \in Int /\ reach \in Int
      BY <1>6
    <3>1a. reading \in BOOLEAN /\ tabs \in BOOLEAN /\ ~ reading
      BY <1>6, Zenon
    <3>2. calls \in 0 .. MaxCalls /\ keys \in 0 .. MaxKeys /\ Len(input_buffer) < INPUT_BUFFER_SIZE
      BY <1>4, <1>5, <1>6
    <3>3. QED
      BY <1>3, <1>4, <3>1, <3>1a, <3>2 DEF Kinds
  <2>2. LineThere
    BY <1>6 DEF LineThere
  <2>3. QED
    BY <2>1, <2>2 DEF ConsoleInv

LEMMA ConsoleStep ==
  ConsoleInv /\ [ConsoleNext]_console_vars => ConsoleInv'
<1> SUFFICES ASSUME ConsoleInv, [ConsoleNext]_console_vars PROVE ConsoleInv'
  OBVIOUS
<1>1. CASE UNCHANGED console_vars
  BY <1>1 DEF console_vars, ConsoleInv, Kinds, LineThere, Line
<1>2. CASE puts \/ printf \/ Screen
  BY <1>2, OutputSteps
<1>3. CASE read_input
  BY <1>3, ReadStep
<1>4. CASE getchar
  <2>1. CASE OtherKey
    BY <1>1, <2>1 DEF OtherKey
  <2>2. CASE Erase
    BY <2>2, EraseStep
  <2>3. ASSUME NEW c \in Printable \union {TAB, NEWLINE, BACKSPACE}, Store(c) PROVE ConsoleInv'
    BY <2>3, StoreStep DEF Typed
  <2>4. QED
    BY <1>4, <2>1, <2>2, <2>3 DEF getchar
<1>5. QED
  BY <1>1, <1>2, <1>3, <1>4 DEF ConsoleNext

(* What each call and each key of the line editor leaves behind: a screen  *)
(* whose two cursors agree, and while a line is read, its text there.      *)
THEOREM ConsoleInvariant ==
  ConsoleSpec => []ConsoleInv
<1>1. QED
  BY ConsoleInitStep, ConsoleStep, PTL DEF ConsoleSpec

-----------------------------------------------------------------------------
(* There is one function with the places of a line. *)
LEMMA OnePlaces ==
  ASSUME NEW S, NEW text \in Seq(S), NEW p \in Int, NEW P, IsPlaces(P, p, text),
         NEW Q, Q = [i \in 0 .. Len(text) |-> IF i = 0 THEN p ELSE Behind(Q[i - 1], text[i])]
  PROVE  Q = P
<1> DEFINE Good == {n \in Nat : n <= Len(text) => Q[n] = P[n]}
<1>0. Len(text) \in Nat /\ P \in [0 .. Len(text) -> Int] /\ P[0] = p
      /\ \A i \in 1 .. Len(text) : P[i] = Behind(P[i - 1], text[i])
  BY DEF IsPlaces
<1>1. \A i \in 0 .. Len(text) : Q[i] = IF i = 0 THEN p ELSE Behind(Q[i - 1], text[i])
  OBVIOUS
<1>1a. DOMAIN Q = 0 .. Len(text) /\ Q = [i \in 0 .. Len(text) |-> Q[i]]
  OBVIOUS
<1>2. 0 \in Good
  BY <1>0, <1>1
<1>3. ASSUME NEW n \in Nat, n \in Good PROVE n + 1 \in Good
  <2> SUFFICES ASSUME n + 1 <= Len(text) PROVE Q[n + 1] = P[n + 1]
    OBVIOUS
  <2>1. n + 1 \in 0 .. Len(text) /\ n + 1 \in 1 .. Len(text) /\ (n + 1) - 1 = n /\ n + 1 # 0 /\ n <= Len(text)
    BY <1>0
  <2>2. Q[n + 1] = Behind(Q[n], text[n + 1])
    BY <1>1, <2>1
  <2>3. Q[n] = P[n] /\ P[n + 1] = Behind(P[n], text[n + 1])
    BY <1>0, <1>3, <2>1
  <2>4. QED
    BY <2>2, <2>3
<1> HIDE DEF Good
<1>4. Nat \subseteq Good
  BY <1>2, <1>3, Inductive
<1>5. \A i \in 0 .. Len(text) : Q[i] = P[i]
  BY <1>0, <1>4 DEF Good
<1>6. QED
  BY <1>0, <1>1a, <1>5

LEMMA PlacesAre ==
  ASSUME start \in Int, input_buffer \in Seq(Typed), NEW P, IsPlaces(P, start, input_buffer)
  PROVE  Places = P
<1> DEFINE f(Q) == [i \in 0 .. Len(input_buffer) |-> IF i = 0 THEN start ELSE Behind(Q[i - 1], input_buffer[i])]
<1>1. Places = CHOOSE Q : Q = f(Q)
  BY DEF Places
<1>2. P = f(P)
  <2>1. Len(input_buffer) \in Nat /\ P \in [0 .. Len(input_buffer) -> Int] /\ P[0] = start
        /\ \A i \in 1 .. Len(input_buffer) : P[i] = Behind(P[i - 1], input_buffer[i])
    BY DEF IsPlaces
  <2>2. \A i \in 0 .. Len(input_buffer) : P[i] = IF i = 0 THEN start ELSE Behind(P[i - 1], input_buffer[i])
    <3> TAKE i \in 0 .. Len(input_buffer)
    <3>1. i = 0 \/ i \in 1 .. Len(input_buffer)
      BY <2>1
    <3>2. QED
      BY <2>1, <3>1
  <2>3. QED
    BY <2>1, <2>2
<1>3. Places = f(Places)
  <2>1. \E Q : Q = f(Q)
    BY <1>2
  <2> HIDE DEF f
  <2>2. QED
    BY <1>1, <2>1
<1>4. QED
  BY <1>3, OnePlaces

LEMMA LineShown ==
  ConsoleInv => LineIsOnScreen
<1> SUFFICES ASSUME ConsoleInv PROVE LineIsOnScreen
  OBVIOUS
<1>0. /\ OnScreen(vga) /\ input_buffer \in Seq(Typed) /\ start \in Int /\ reach \in Int /\ Len(input_buffer) \in Nat
      /\ vga \in ScreenType
  BY DEF ConsoleInv, Kinds, OnScreen
<1>1. ConsoleTypeOK
  BY <1>0 DEF ConsoleInv, Kinds, ConsoleTypeOK, OnScreen, ScreenType, Cursor, Typed
<1>2. ASSUME reading, ~ tabs
      PROVE  /\ Cursor = Places[Len(input_buffer)]
             /\ \A i \in DOMAIN input_buffer :
                   LET q == Places[i - 1] IN q >= 0 => Shown(q) = IF input_buffer[i] = TAB THEN BLANK ELSE input_buffer[i]
             /\ \A q \in Cursor .. reach - 1 : Shown(q) = BLANK
  <2>1. PICK P : LineAt(vga, input_buffer, start, reach, P)
    BY <1>2 DEF ConsoleInv, LineThere, Line
  <2>2. Places = P
    BY <1>0, <2>1, PlacesAre DEF LineAt
  <2>3. Cursor = Here(vga) /\ \A q : Shown(q) = See(vga, q)
    BY DEF Cursor, Here, Shown, See, W
  <2>4. DOMAIN input_buffer = 1 .. Len(input_buffer)
    BY <1>0
  <2>5. Here(vga) \in Int
    BY <1>0, Origin, AtInt DEF OnScreen, Here
  <2>6. \A q \in Here(vga) .. reach - 1 : q \in Int /\ Here(vga) <= q /\ q < reach
    BY <1>0, <2>5
  <2>7. QED
    BY <2>1, <2>2, <2>3, <2>4, <2>6 DEF LineAt, Glyph
<1>3. QED
  BY <1>1, <1>2 DEF LineIsOnScreen

(* scanf.c (read_input, getchar) and vga.c: while a line is typed and      *)
(* corrected, over the ends of rows and through scrolling, the screen      *)
(* shows what the buffer holds, for every size of the screen and every     *)
(* buffer of at most (screenheight - 1) * screenwidth + 2 places.          *)
THEOREM LineStaysOnScreen ==
  ConsoleSpec => []LineIsOnScreen
<1>1. QED
  BY ConsoleInvariant, LineShown, PTL
=============================================================================
