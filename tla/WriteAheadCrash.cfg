SPECIFICATION Spec
CONSTANTS
  a = a
  b = b
  c3 = c3
  p1 = p1
  None = None
  Page1 = p1
  Conn <- ThreeConns
  OpenAtStart = {a, b}
  Page <- OnePage
  SwapLimit = 1
  MaxAttempt = 2
  MaxQueue = 1
  Backstopped = {b}
  Reader = {a, b, c3}
  Writer = {a, b}
  AutoCheckpointer = {}
  PassiveCheckpointer = {}
  FullCheckpointer = {}
  Mortal = {a}
  Closer = {c3}
INVARIANTS ReadsSeeSnapshot NoFault
PROPERTIES ImplementsPromise
CHECK_DEADLOCK FALSE
