SPECIFICATION Spec
CONSTANTS
    Early = 1
    Middle = 2
    Late = 3
    Delay = 2
    MaxCoins = 1
    MaxHeight = 3
    MaxTime = 4
    MaxFaults = 0
CHECK_DEADLOCK FALSE
INVARIANT RecallWorks
