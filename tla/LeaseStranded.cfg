SPECIFICATION Spec
CONSTANTS
  Proc = {1, 2}
  Patient = {}
  Mortal = {1}
  Slots = 1
  StaleMs = 1
  Punctual = TRUE
  Keeper = {}
  Opener = {1, 2}
  Attacher = {}
  Parent = {}
  Resetter = {}
INVARIANTS DeadOwnerAges
CHECK_DEADLOCK FALSE
