CONSTANTS
  k1 = k1
  k2 = k2
  k3 = k3
  s1 = s1
  s2 = s2
  s3 = s3
  Blank = Blank
  None = None
  Keys = {k1, k2, k3}
  Slots = {s1, s2, s3}
  Workload <- Workload3
  JobIds = {j1, j2}
  RingCap = 1
  QueueDepth = 4
  ReapBatch = 2
  PollMax = 1
  ShortSubmits = FALSE
CHECK_DEADLOCK FALSE
SYMMETRY Symmetry
SPECIFICATION Spec
INVARIANTS
  WorkerLedger
  GatherKeepsDeviceBusy
  NothingLeftBehind
