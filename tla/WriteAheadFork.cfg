SPECIFICATION Spec
CONSTANTS
  a = a
  b = b
  c3 = c3
  p1 = p1
  None = None
  Page1 = p1
  Conn <- TwoConns
  OpenAtStart = {a, b}
  Page <- OnePage
  SwapLimit = 1
  MaxAttempt = 2
  MaxQueue = 1
  Backstopped = {}
  Reader = {b}
  Writer = {a, b}
  AutoCheckpointer = {a}
  PassiveCheckpointer = {}
  FullCheckpointer = {}
  Mortal = {}
  Closer = {}
PROPERTIES ImplementsPromise
CHECK_DEADLOCK FALSE
