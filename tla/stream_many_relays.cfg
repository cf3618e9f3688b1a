SPECIFICATION Spec
CONSTANTS
  Subscribers = {s1, s2}
  Nobody = Nobody
  NoSeq = NoSeq
  MaxSeq = 2
  OneRelay = FALSE
  MaxJoins = 1
  MaxResends = 1
  MaxFaults = 0
SYMMETRY SubscriberSymmetry
INVARIANTS
  FreeSamplesBounded
  RelayIsFresh
  Entitled
CHECK_DEADLOCK FALSE
