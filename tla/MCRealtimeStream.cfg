CONSTANTS
  Instances = {i1}
  Requests = {r1, r2}
  Tabs = {t1}
  Saves = {a1}
  Seed = "tcp"
  Initially <- MCInitially
  Tried <- MCTried
  MaxSaves = 1
SPECIFICATION Spec
CHECK_DEADLOCK FALSE
INVARIANTS
  NothingLeaks
  StreamsFollowTheClient
PROPERTIES
  EveryTabCatchesUp
  StreamsReachTheTarget
