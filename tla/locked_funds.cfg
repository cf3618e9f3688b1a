SPECIFICATION Spec
CONSTANTS
    Early = 1
    Middle = 2
    Late = 3
    Delay = 2
    MaxCoins = 2
    MaxHeight = 3
    MaxTime = 4
    MaxFaults = 1
INVARIANT TypeOK
INVARIANT DelayRespected
 
INVARIANT RecordIsTrue
INVARIANT RecallWindow
CHECK_DEADLOCK FALSE
