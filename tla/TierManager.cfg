SPECIFICATION Spec
CONSTANTS
  Keys = {k1, k2, k3}
  Slots = {s1, s2}
  JobIds = {j1, j2, j3}
  Blank = Blank
  NoSlot = NoSlot
  ResultCap = 3
  PollMax = 3
  MaxBlocks = 2
  AppendFails = FALSE
SYMMETRY Symmetry
INVARIANTS
  SlotsPartitioned
  LedgerConsistent
  NoSlotConflict
  LoadsReadOwnBlocks
  AnswersComplete
PROPERTIES
  EvictsOldestFirst
