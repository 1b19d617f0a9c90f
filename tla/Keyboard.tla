------------------------------ MODULE Keyboard ------------------------------
(***************************************************************************)
(* The keyboard driver, src/kernel/drivers/keyboard.c, with the handler of *)
(* IRQ 1 that feeds it (interrupts/isrs/keyboard.c) and the one program    *)
(* that reads it (getchar of libc/stdio/scanf.c, which polls get_event).   *)
(*                                                                         *)
(* The handler runs with interrupts off and is one step.  The main program *)
(* can be interrupted between any two of its memory accesses; head, tail   *)
(* and the slots are plain variables, so the compiler may also order the   *)
(* accesses within a call as it likes: what a call still has to do is the  *)
(* set todo, taken in any order.                                           *)
(***************************************************************************)
EXTENDS Integers, Sequences, FiniteSets

CONSTANTS KEYBOARD_BUFFER_SIZE,
          Keys,       (* the keys that are struck, out of DOMAIN MakeCode   *)
          Repeating,  (* those of them that are held until they repeat      *)
          MaxStrokes, (* bound: key movements in a behaviour                *)
          WireMax     (* bound: bytes the keyboard keeps until they are read *)

VARIABLES
  wire, down, strokes,                     (* the keyboard itself           *)
  handler,                                 (* keyboard_handler is registered *)
  buffer, buffer_head, buffer_tail, modifiers, extended,
  pc, todo, at, event,                     (* the main program               *)
  struck, missed, log, base, ret           (* history, see below             *)

device  == <<wire, down, strokes, struck>>
ring    == <<buffer, buffer_head, buffer_tail>>
decoder == <<modifiers, extended>>
caller  == <<pc, todo, at, event, ret>>
vars    == <<device, handler, ring, decoder, caller, missed, log, base>>

(***************************************************************************)
(* History: struck lists the events an ideal driver would queue, log those *)
(* this one queued, base how many of log were taken out or cleared, ret    *)
(* the event the last successful get_event returned; missed says a byte    *)
(* arrived before the handler was registered and was thrown away.          *)
(***************************************************************************)
-----------------------------------------------------------------------------
(* The keyboard: scancode set 1. *)

MakeCode ==
  [A |-> <<30>>, UP |-> <<224, 72>>, NUMPAD8 |-> <<72>>, LSHIFT |-> <<42>>, RSHIFT |-> <<54>>,
   LCTRL |-> <<29>>, RCTRL |-> <<224, 29>>, LALT |-> <<56>>, CAPSLOCK |-> <<58>>,
   NUMLOCK |-> <<69>>, PAUSE |-> <<225, 29, 69, 225, 157, 197>>]

ASSUME KeyboardAssumption ==
  /\ KEYBOARD_BUFFER_SIZE \in Nat /\ KEYBOARD_BUFFER_SIZE > 1
  /\ Keys \subseteq DOMAIN MakeCode /\ Repeating \subseteq Keys
  /\ MaxStrokes \in Nat /\ WireMax \in Nat

(* The break code is the make code with bit 7 set in its last byte; Pause  *)
(* sends everything when it goes down.                                     *)
BreakCode(k) ==
  IF k = "PAUSE" THEN <<>>
  ELSE [MakeCode[k] EXCEPT ![Len(MakeCode[k])] = @ + 128]

Keycode == [A |-> 30, UP |-> 57416, NUMPAD8 |-> 72]

MOD == {"SHIFT", "CTRL", "ALT", "CAPSLOCK", "NUMLOCK"}

(* The strokes of s that press f. *)
Pressed(f, s) == {n \in DOMAIN s : s[n].key = f /\ s[n].type = "PRESS"}

(* The modifiers a user would say are on, given what is held and how often *)
(* the lock keys went down.                                                *)
Meant(held, s) ==
  {f \in MOD :
     \/ f = "SHIFT" /\ held \cap {"LSHIFT", "RSHIFT"} # {}
     \/ f = "CTRL" /\ "LCTRL" \in held
     \/ f = "ALT" /\ "LALT" \in held
     \/ f \in {"CAPSLOCK", "NUMLOCK"} /\ Cardinality(Pressed(f, s)) % 2 = 1}

Move(k, type, bytes, held) ==
  /\ strokes < MaxStrokes /\ Len(wire) + Len(bytes) <= WireMax
  /\ strokes' = strokes + 1
  /\ wire' = wire \o bytes
  /\ down' = held
  /\ struck' = Append(struck, [key |-> k, type |-> type, modifiers |-> Meant(held, struck)])
  /\ UNCHANGED <<handler, ring, decoder, caller, missed, log, base>>

Press(k)   == k \notin down /\ Move(k, "PRESS", MakeCode[k], down \cup {k})
Release(k) == k \in down /\ Move(k, "RELEASE", BreakCode(k), down \ {k})

(* A key held down sends its make code again. *)
Repeat(k) ==
  /\ k \in down /\ k # "PAUSE"
  /\ Move(k, "REPEAT", MakeCode[k], down)
-----------------------------------------------------------------------------
(* The decoder *)

KEY_UNKNOWN == 0

(* Every mapped plain scancode is its own keycode. *)
scancode_table == [s \in 0 .. 127 |-> IF s \in 1 .. 83 \cup {87, 88} THEN s ELSE KEY_UNKNOWN]

ExtendedKeys == {28, 53, 55, 69, 71, 72, 73, 75, 77, 79, 80, 81, 82, 83, 32, 46, 48, 109, 111}

(* Mutant: the prefix is not looked at. *)
scancode_to_keycode_Plain(s) == scancode_table[s]
scancode_to_keycode(s) ==
  IF extended THEN IF s \in ExtendedKeys THEN 57344 + s ELSE KEY_UNKNOWN
  ELSE scancode_table[s]

Flag(code) ==
  CASE code \in {42, 54} -> "SHIFT"
    [] code = 29 -> "CTRL"
    [] code = 56 -> "ALT"
    [] code = 58 -> "CAPSLOCK"
    [] code = 69 -> "NUMLOCK"
    [] OTHER -> "none"

(* Mutant: locks toggle when the key goes up, too. *)
Modified_Both(f, released) ==
  IF f \in {"CAPSLOCK", "NUMLOCK"}
  THEN (modifiers \cup {f}) \ (modifiers \cap {f})
  ELSE IF released THEN modifiers \ {f} ELSE modifiers \cup {f}

(* Held modifiers follow the key, locks toggle when it goes down. *)
Modified(f, released) ==
  IF f \in {"CAPSLOCK", "NUMLOCK"}
  THEN IF released THEN modifiers
       ELSE (modifiers \cup {f}) \ (modifiers \cap {f})
  ELSE IF released THEN modifiers \ {f} ELSE modifiers \cup {f}

Inc(i) == (i + 1) % KEYBOARD_BUFFER_SIZE

(* Mutant: the last slot is used, too. *)
Full_Never == FALSE
Full == Inc(buffer_head) = buffer_tail

queue_event(code, type) ==
  IF Full THEN UNCHANGED <<ring, log>>
  ELSE LET e == [code |-> code, type |-> type, modifiers |-> modifiers]
       IN /\ buffer' = [buffer EXCEPT ![buffer_head] = e]
          /\ buffer_head' = Inc(buffer_head)
          /\ log' = Append(log, e)
          /\ UNCHANGED buffer_tail

keyboard_handle_scancode(byte) ==
  IF byte = 224 THEN extended' = TRUE /\ UNCHANGED <<ring, log, modifiers>>
  ELSE LET released == byte >= 128
           code     == scancode_to_keycode(byte % 128)
       IN /\ extended' = FALSE
          /\ IF Flag(code) # "none"
             THEN modifiers' = Modified(Flag(code), released) /\ UNCHANGED <<ring, log>>
             ELSE /\ UNCHANGED modifiers
                  /\ IF code = KEY_UNKNOWN THEN UNCHANGED <<ring, log>>
                     ELSE queue_event(code, IF released THEN "RELEASE" ELSE "PRESS")

(* IRQ 1: one byte is read from the controller. *)
isr_keyboard ==
  /\ wire # <<>>
  /\ wire' = Tail(wire)
  /\ IF handler
     THEN keyboard_handle_scancode(Head(wire)) /\ UNCHANGED missed
     ELSE missed' = TRUE /\ UNCHANGED <<ring, log, decoder>>
  /\ UNCHANGED <<down, strokes, struck, handler, caller, base>>
-----------------------------------------------------------------------------
(* The main program *)

(* Interrupts are on already when init_drivers comes to the keyboard. *)
keyboard_init ==
  /\ pc = "boot" /\ pc' = "main"
  /\ buffer_head' = 0 /\ buffer_tail' = 0 /\ modifiers' = {} /\ extended' = FALSE
  /\ handler' = TRUE
  /\ UNCHANGED <<device, buffer, todo, at, event, ret, missed, log, base>>

(* Mutant: a head that came round counts as empty. *)
Empty_NoWrap == buffer_head <= buffer_tail
Empty == buffer_head = buffer_tail

(* A call that finds nothing returns 0 and changes nothing; otherwise the  *)
(* event is copied to the caller and the tail is moved.                    *)
keyboard_get_event ==
  /\ pc = "main" /\ ~ Empty
  /\ pc' = "get" /\ at' = buffer_tail
  /\ todo' = {"event", "tail"}
  /\ UNCHANGED <<device, handler, ring, decoder, event, ret, missed, log, base>>

GetStep(x) ==
  /\ pc = "get" /\ x \in todo
  /\ todo' = todo \ {x}
  /\ IF x = "tail"
     THEN buffer_tail' = Inc(at) /\ base' = base + 1 /\ UNCHANGED event
     ELSE event' = buffer[at] /\ UNCHANGED <<buffer_tail, base>>
  /\ IF todo' = {} THEN pc' = "main" /\ ret' = event' ELSE UNCHANGED <<pc, ret>>
  /\ UNCHANGED <<device, handler, buffer, buffer_head, decoder, at, missed, log>>

keyboard_clear_buffer ==
  /\ pc = "main"
  /\ pc' = "clear" /\ todo' = {"head", "tail"}
  /\ UNCHANGED <<device, handler, ring, decoder, at, event, ret, missed, log, base>>

(* The events waiting are gone when the head is stored. *)
ClearStep(x) ==
  /\ pc = "clear" /\ x \in todo
  /\ todo' = todo \ {x}
  /\ IF x = "head"
     THEN buffer_head' = 0 /\ base' = Len(log) /\ UNCHANGED buffer_tail
     ELSE buffer_tail' = 0 /\ UNCHANGED <<buffer_head, base>>
  /\ pc' = IF todo' = {} THEN "main" ELSE "clear"
  /\ UNCHANGED <<device, handler, buffer, decoder, at, event, ret, missed, log>>
-----------------------------------------------------------------------------
NoEvent == [code |-> KEY_UNKNOWN, type |-> "PRESS", modifiers |-> {}]

Init ==
  /\ wire = <<>> /\ down = {} /\ strokes = 0 /\ struck = <<>>
  /\ handler = FALSE
  /\ buffer = [i \in 0 .. KEYBOARD_BUFFER_SIZE - 1 |-> NoEvent]
  /\ buffer_head = 0 /\ buffer_tail = 0 /\ modifiers = {} /\ extended = FALSE
  /\ pc = "boot" /\ todo = {} /\ at = 0 /\ event = NoEvent
  /\ missed = FALSE /\ log = <<>> /\ base = 0 /\ ret = NoEvent

Main == keyboard_init \/ keyboard_get_event \/ keyboard_clear_buffer \/ \E x \in todo : GetStep(x) \/ ClearStep(x)

Next ==
  \/ \E k \in Keys : Press(k) \/ Release(k)
  \/ \E k \in Repeating : Repeat(k)
  \/ isr_keyboard
  \/ Main

(* Interrupts are taken; the main program runs and, when it is not busy,   *)
(* polls get_event for ever (getchar's loop); what the user types is open. *)
Spec ==
  /\ Init /\ [][Next]_vars
  /\ WF_vars(isr_keyboard)
  /\ WF_vars(keyboard_init \/ keyboard_get_event \/ \E x \in todo : GetStep(x) \/ ClearStep(x))
-----------------------------------------------------------------------------
(* Properties *)

Slots == 0 .. KEYBOARD_BUFFER_SIZE - 1

TypeOK ==
  /\ buffer \in [Slots -> [code : Nat, type : {"PRESS", "RELEASE"}, modifiers : SUBSET MOD]]
  /\ buffer_head \in Slots /\ buffer_tail \in Slots /\ at \in Slots
  /\ modifiers \subseteq MOD /\ extended \in BOOLEAN /\ handler \in BOOLEAN
  /\ pc \in {"boot", "main", "get", "clear"}
  /\ todo \subseteq {"event", "head", "tail"}
  /\ base \in 0 .. Len(log)

(* The events between two indices of the ring. *)
Between(i, j) ==
  [n \in 1 .. (j - i) % KEYBOARD_BUFFER_SIZE |-> buffer[(i + n - 1) % KEYBOARD_BUFFER_SIZE]]

(* What waits to be returned: an event being taken counts until the call   *)
(* is over; during a clear nothing that was there before counts.           *)
Waiting ==
  CASE pc = "get" /\ "tail" \notin todo -> <<buffer[at]>> \o Between(buffer_tail, buffer_head)
    [] pc = "clear" /\ todo = {"tail"} -> Between(0, buffer_head)
    [] pc = "clear" /\ todo = {"head"} -> <<>>
    [] OTHER -> Between(buffer_tail, buffer_head)

(* The ring keeps the promises of EventQueue, whatever the interrupts and  *)
(* the order of the stores in a call: above all, the slot being copied is  *)
(* never overwritten, because queue_event leaves one slot empty.           *)
Queue == INSTANCE EventQueue WITH
           waiting <- Waiting, Capacity <- KEYBOARD_BUFFER_SIZE,
           Events <- [code : {Keycode[k] : k \in DOMAIN Keycode},
                      type : {"PRESS", "RELEASE"}, modifiers : SUBSET MOD]
QueueSpec == Queue!Spec

(* The ring holds the latest events queued, none missing, none twice, from *)
(* the first one not yet taken or cleared: head and tail never cross.      *)
RingIsLog ==
  pc # "clear" => Between(buffer_tail, buffer_head) = SubSeq(log, base + 1, Len(log))

(* The log has events of keys that were struck, in the order of the        *)
(* strokes and with the modifiers held at the stroke.                      *)
LogIsStrokes ==
  ~ missed =>
    \E f \in [DOMAIN log -> DOMAIN struck] :
      \A i \in DOMAIN log :
        /\ i > 1 => f[i - 1] < f[i]
        /\ LET s == struck[f[i]]
           IN /\ s.key \in DOMAIN Keycode
              /\ log[i] = [code |-> Keycode[s.key], modifiers |-> s.modifiers,
                           type |-> IF s.type = "RELEASE" THEN "RELEASE" ELSE "PRESS"]

(* Every event that waits is the event of a key that was struck, in the    *)
(* order of the strokes and with the modifiers held at its stroke, not at  *)
(* its read: head and tail never cross, and the E0 prefix and the modifier *)
(* byte never go out of step with the keyboard, once no byte was lost      *)
(* before keyboard_init.                                                   *)
EventsAreStrokes == TypeOK /\ RingIsLog /\ LogIsStrokes

(* With every byte handled, the modifier byte says what keyboard.h says of *)
(* its bits: "Left or Right Shift pressed", "Caps Lock active", "Num Lock  *)
(* active".                                                                *)
ModifiersAreMeant ==
  handler /\ ~ missed /\ wire = <<>> => modifiers = Meant(down, struck)

(* An event queued is taken out (or cleared) in the end: an empty-looking  *)
(* ring is empty, also after the indices have come round.                  *)
QueuedIsTaken == \A i \in 1 .. MaxStrokes : Len(log) >= i ~> base >= i
=============================================================================
