SPECIFICATION FairSpec
CONSTANTS
    Conn = {a, b}
    Doubled = {b}
    Exclusive = {a}
    Tuner = {b}
    Checkpointer = {a}
    Patient = {b}
    LazySettings = {{"read"}}
    a = a
    b = b
INVARIANTS TypeOK IsolationHoldsLock LevelIsIsolated NothingLeftBehind WriterSeesAll ExclusiveIsAlone HandlesAreOwned
PROPERTIES WaitersAreServed
CHECK_DEADLOCK FALSE
