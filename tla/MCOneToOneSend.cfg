CONSTANTS
  Requests = {q1, q2, q3}
  Rows = {r1, r2}
  Contents = {c1, c2}
  Barrable = {c2}
  MaxDays = 1
  None = None
SPECIFICATION Spec
CHECK_DEADLOCK FALSE
SYMMETRY Symmetry
INVARIANTS
  MailedIsOnRecord
  LateMailIsNotBarred
  SecondMailNeedsADoubt
PROPERTIES
  SettledIsFinal
  ImplementsSendLedger
