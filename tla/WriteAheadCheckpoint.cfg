SPECIFICATION Spec
CONSTANTS
  a = a
  b = b
  c3 = c3
  p1 = p1
  None = None
  Page1 = p1
  Conn <- TwoConns
  OpenAtStart = {a, b}
  Page <- OnePage
  SwapLimit = 1
  MaxAttempt = 3
  MaxQueue = 1
  Backstopped = {b}
  Reader = {b}
  Writer = {a}
  AutoCheckpointer = {a}
  PassiveCheckpointer = {b}
  FullCheckpointer = {a}
  Mortal = {}
  Closer = {}
INVARIANTS TypeOK ReadsSeeSnapshot PublishedIsConservative CheckpointRespectsViews TruncateIsSafe
PROPERTIES ImplementsPromise
CHECK_DEADLOCK FALSE
