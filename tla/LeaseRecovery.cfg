SPECIFICATION FairSpec
CONSTANTS
  Proc = {1, 2, 3}
  Patient = {}
  Mortal = {1}
  Slots = 1
  StaleMs = 1
  Punctual = TRUE
  Keeper = {1}
  Opener = {1, 2, 3}
  Attacher = {}
  Parent = {}
  Resetter = {3}
CONSTRAINT NoOverrun
INVARIANTS PunctualKeepsSlot OpenCoversHandles
PROPERTIES DeadSlotComesBack
CHECK_DEADLOCK FALSE
