SPECIFICATION PromptSpec
CONSTANTS
  None = None
  Cadence = 2
  Interval = 1
  QueryTime = 1
  Readable = TRUE
  MaxTime = 14
  MaxAdds = 2
  MaxFaults = 1
INVARIANTS
  PunctualNeverStale
  HealthCatchesUp
PROPERTIES
  AlertsAlternate
CHECK_DEADLOCK FALSE
