CONSTANTS
  Messages = 2
  Window = 1
  StalledLimit = 1
  Unreadable = {2}
  MaxFaults = 2
SPECIFICATION Spec
INVARIANTS
  JobFindsItsRow
PROPERTIES
  EveryMailArrives
