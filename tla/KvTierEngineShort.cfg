CONSTANTS
  k1 = k1
  k2 = k2
  k3 = k3
  s1 = s1
  s2 = s2
  s3 = s3
  Blank = Blank
  None = None
  Keys = {k1, k2}
  Slots = {s1, s2}
  Workload <- Workload2
  JobIds = {j1, j2}
  RingCap = 1
  QueueDepth = 2
  ReapBatch = 1
  PollMax = 1
  ShortSubmits = TRUE
CHECK_DEADLOCK FALSE
SPECIFICATION Spec
INVARIANTS
  BlocksIssuedOnce
