SPECIFICATION Spec
CONSTANTS
  Ids = {a, b, c, d, e}
  Values = {1, 2}
  Capacity1 = 2
  Capacity2 = 2
  Readers = {r1, r2}
  NoBlock = NoBlock
  MaxFaults = 2
SYMMETRY Blocks
INVARIANTS
  BlocksAreFresh
  PhantomsAreFailures
CHECK_DEADLOCK FALSE
