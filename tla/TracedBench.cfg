SPECIFICATION Spec
CONSTANTS
  Phases <- MCPhases
  FlowNames <- MCFlows
  Sessions = 2
  Churn = 1
  Waves = 1
  Concurrency = 2
  MaxFlow = 2
  MaxJobs = 1
  MaxFaults = 1
CHECK_DEADLOCK FALSE
INVARIANTS
  AuditTellsJoins
  UndisturbedPasses
PROPERTIES
  GroupEnds
