SPECIFICATION Spec
CONSTANTS
    Proc = {1, 2, 3}
    Writer = {1, 2}
    Reader = {3}
    Deleter = {2}
    Revocable = {1}
    SegCap = 2
    MaxCap = 4
    MaxCounter = 3
    MaxOps = 3
    Size0 = 2
INVARIANTS TypeOK SerialWhenUndisturbed SizeIsBacked AppendsReadWhole CountsEveryWrite
CHECK_DEADLOCK FALSE
