SPECIFICATION BothSpec
CONSTANTS
  Keys = {k1, k2, k3}
  Slots = {s1}
  JobIds = {j1, j2}
  Blank = Blank
  NoSlot = NoSlot
  ResultCap = 3
  PollMax = 3
  MaxBlocks = 2
  AppendFails = TRUE
  Cap = 4
  Items = {x, y}
  Empty = Empty
  MaxPushes = 6
INVARIANTS
  CountersClose
  RowsFollowAnswers
  RingConsistent
  NoSlotRace
PROPERTIES
  EveryJobAnswered
  ShutdownEnds
  ImplementsFifo
  Delivered
