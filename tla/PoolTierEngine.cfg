CONSTANTS
  k1 = k1
  k2 = k2
  s1 = s1
  s2 = s2
  Keys = {k1, k2}
  Slots = {s1, s2}
  Blank = Blank
  None = None
  Caller = Caller
  Workers = {w1, w2}
  Workload <- MCWorkload
  JobIds = {j1, j2}
  PollMax = 1
CHECK_DEADLOCK FALSE
SPECIFICATION LiveSpec
INVARIANTS
  BlocksCountedOnce
PROPERTIES
  ImplementsEngine
  EveryJobFinishes
  JoinEndsIfHeard
