SPECIFICATION Spec
CONSTANTS
  Subscribers = {s1, s2}
  Nobody = Nobody
  NoSeq = NoSeq
  MaxSeq = 1
  OneRelay = TRUE
  MaxJoins = 2
  MaxResends = 0
  MaxFaults = 2
SYMMETRY SubscriberSymmetry
INVARIANTS
  MembershipSettles
  AccessKept
  OneEventPerSubscriber
CHECK_DEADLOCK FALSE
