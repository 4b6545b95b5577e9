CONSTANTS
  Events = {e1, e2}
  Requests = {p1, p2}
  SoftBounceLimit = 2
  MaxPeopleActions = 1
  MaxAttempts = 2
  MaxFaults = 2
  Faults <- AllFaults
SPECIFICATION Spec
CHECK_DEADLOCK FALSE
SYMMETRY Symmetry
INVARIANTS
  AnnouncedOnceAndStored
  AtTheLimitIsBarred
  EvidenceStaysUnlessMasked
  LossNeedsAMishap
PROPERTIES
  CountsEachSoftBounceOnce
