SPECIFICATION Spec
CONSTANTS
  Owner <- ThreeOwners
  Worker = {1, 2, 3}
  StaleMs = 2
  ClockMod = 12
  Clock0 = 1
  ClockEnd = 6
  Punctual = TRUE
  MaxPause = 1
  Mortal = {}
INVARIANTS ProgressingHolderKeepsLock
CHECK_DEADLOCK FALSE
