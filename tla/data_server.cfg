SPECIFICATION Spec
CONSTANTS
    Times = {1, 2}
    Conns = {c1, c2, c3}
    Local = {c1, c2}
    Stream = s
    Publication = p
    Nobody = nobody
    MaxRequests = 3
 
INVARIANT HistoriesAgree
INVARIANT OneProvider
CHECK_DEADLOCK FALSE
