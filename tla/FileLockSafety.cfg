SPECIFICATION FairSpec
CONSTANTS
  Owner <- ThreeOwners
  Worker = {1, 3}
  StaleMs = 0
  ClockMod = 3
  Clock0 = 2
  ClockEnd = 0
  Punctual = FALSE
  MaxPause = 0
  Mortal = {1, 2}
INVARIANTS TypeOK HolderHasWord MutualExclusion
PROPERTIES IsRevocableLock AbandonedIsRecovered
CHECK_DEADLOCK FALSE
