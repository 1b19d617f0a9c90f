\* Three slots and four key movements: the ring wraps, fills and overflows.
SPECIFICATION Spec
CONSTANTS
  KEYBOARD_BUFFER_SIZE = 3
  Keys <- RingKeys
  Repeating = {"A"}
  MaxStrokes = 4
  WireMax = 2
INVARIANTS EventsAreStrokes ModifiersAreMeant
PROPERTIES QueueSpec QueuedIsTaken
