CONSTANTS
  Offsets = {o1, o2, o3}
  Slots = {s1, s2}
  None = None
  Junk = Junk
  Kinds <- MCKinds
  MaxInFlight = 2
  ReapMax = 2
  TagBase = 0
  MaxRequests = 4
CHECK_DEADLOCK FALSE
SYMMETRY Symmetry
SPECIFICATION Spec
INVARIANTS
  PoolConsistent
  NeverExhausted
  AnsweredOnce
  ReadsAreFresh
