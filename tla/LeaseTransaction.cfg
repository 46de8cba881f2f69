SPECIFICATION FairSpec
CONSTANTS
  Proc = {1, 2, 3}
  Patient = {2}
  Mortal = {1}
  Slots = 2
  StaleMs = 0
  Punctual = TRUE
  Keeper = {}
  Opener = {1, 2}
  Attacher = {1, 2}
  Parent = {3}
  Resetter = {3}
CONSTRAINT NoOverrun
INVARIANTS TypeOK OneTransaction TornIsQuarantined QuarantineIsDeserved
PROPERTIES WaitersAreAnswered
CHECK_DEADLOCK FALSE
