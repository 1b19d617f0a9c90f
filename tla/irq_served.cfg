\* Five requests; the timer's line may fall before it is served, which makes
\* the master answer with a spurious IRQ 7.
SPECIFICATION IrqSpec
CONSTANTS
  Lines = {0, 1, 12, 14}
  Withdrawn = {0}
  MaxRaises = 5
INVARIANTS AllAcknowledged
PROPERTIES AcknowledgesItsOwn RequestsAreServed
CHECK_DEADLOCK FALSE
