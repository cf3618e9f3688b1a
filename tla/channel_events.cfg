SPECIFICATION Spec
CONSTANTS
  Tags = {c1, c2}
  None = None
  MaxEvents = 3
  MaxFaults = 1
INVARIANTS
  NewestArrives
  FetchedIsUnclaimed
  CommitmentsAdvance
  WithdrawnIsHidden
PROPERTIES
  ClaimIsNoticed
CHECK_DEADLOCK FALSE
