SPECIFICATION TimelySpec
CONSTANTS
  Events = {e1, e2, e3, e4}
  MaxSize = 2
  MaxArrivals = 9
INVARIANTS
  CacheIsWindow
PROPERTIES
  EveryEventOnce
CHECK_DEADLOCK FALSE
