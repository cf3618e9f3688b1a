SPECIFICATION Spec
CONSTANTS
    Callers = {c1, c2}
    Addrs = {p}
    MaxConns = 3
    MaxCalls = 2
    MaxRows = 2
    MaxFaults = 1
INVARIANTS
    TypeOK
    LiveIsListed
    Readable
    RowsOnce
PROPERTY AnswersOwn
PROPERTY NothingStays
CHECK_DEADLOCK FALSE
