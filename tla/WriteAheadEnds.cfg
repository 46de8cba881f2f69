SPECIFICATION FairSpec
CONSTANTS
  a = a
  b = b
  c3 = c3
  p1 = p1
  None = None
  Page1 = p1
  Conn <- TwoConns
  OpenAtStart = {a, b}
  Page <- OnePage
  SwapLimit = 1
  MaxAttempt = 2
  MaxQueue = 1
  Backstopped = {b}
  Reader = {a, b}
  Writer = {a}
  AutoCheckpointer = {}
  PassiveCheckpointer = {b}
  FullCheckpointer = {b}
  Mortal = {a}
  Closer = {}
PROPERTIES CheckpointEnds CommitReachesAll
CHECK_DEADLOCK FALSE
