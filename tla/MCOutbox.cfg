CONSTANTS
  Entries = {e1, e2}
  Tabs = {t1, t2}
  Drains = {d1, d2}
  MaxFaults = 5
  None = None
SPECIFICATION Spec
CHECK_DEADLOCK FALSE
INVARIANTS
  HeldOnce
  InOrder
  NeverOvercounts
PROPERTIES
  EverythingSettles
  ImplementsMessageLine
