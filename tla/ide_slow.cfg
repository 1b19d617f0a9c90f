\* Calls of up to two sectors, one past the end, one sector faulty.
SPECIFICATION Spec
CONSTANTS
  Lbas = {0, 1, 2}
  Faulty = {1}
  MaxCount = 2
  Present = TRUE
  Fast = FALSE
  Timeouts = FALSE
INVARIANTS TransfersAreRight AwakeMeansDone
PROPERTY CallsEnd
