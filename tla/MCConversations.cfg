CONSTANTS
  m1 = m1
  m2 = m2
  Mail = {m1, m2}
  Root <- MCRoot
  Calls = {c1, c2}
SPECIFICATION Spec
PROPERTIES
  DecrementsAreEarned
  UndisturbedAreExact
  SnoozeReminds
