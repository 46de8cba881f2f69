SPECIFICATION Spec
CONSTANTS
  a = a
  b = b
  c3 = c3
  p1 = p1
  None = None
  Page1 = p1
  Conn <- ThreeConns
  OpenAtStart = {}
  Page <- OnePage
  SwapLimit = 9
  MaxAttempt = 2
  MaxQueue = 0
  Backstopped = {}
  Reader = {a, c3}
  Writer = {a, b}
  AutoCheckpointer = {}
  PassiveCheckpointer = {}
  FullCheckpointer = {b}
  Mortal = {}
  Closer = {c3}
INVARIANTS ReadsSeeSnapshot
PROPERTIES ImplementsPromise
CONSTRAINT OpensFirst
CHECK_DEADLOCK FALSE
