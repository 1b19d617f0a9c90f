\* 7 cells: up to three one-cell blocks; requests of 0, 1 and 2 cells at
\* the two sides of a rounding, and one no heap of this size can satisfy.
SPECIFICATION Spec
CONSTANTS
  HeapCells = 7
  WORD = 192
  Requests = {0, 16, 17, 112}
  Garbage <- MCGarbage
INVARIANTS IInv DoubleFreeIsSeen OutOfMemoryIsReal
PROPERTIES KmallocEnds AllocatorSpec
CHECK_DEADLOCK FALSE
