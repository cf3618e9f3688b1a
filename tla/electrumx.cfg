SPECIFICATION Spec
CONSTANTS
  Callers = {a}
  Pinger = p
  None = none
  Persistent = TRUE
  MaxStarts = 2
  MaxCalls = 6
  MaxSwaps = 1
  MaxEvents = 1
INVARIANT TypeOK
PROPERTY AnswersOwn
PROPERTY OneReconnect
 
CHECK_DEADLOCK FALSE
