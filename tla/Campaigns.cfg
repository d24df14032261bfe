SPECIFICATION CampaignsSpec
CONSTANTS
  Dirs <- ConstDirs
  NChunks = 2
  MaxFaults = 2
  PairedFaults = 1
  NWindows = 2
  PairsPerWindow = 2
  Repetitions = 2
  WarmupPasses = 2
  MeasurementPasses = 1
  Retain = FALSE
  Gate <- ConstGate
  RunGate <- ConstRunGate
  Effects <- ConstEffects
  Values <- ConstValues
INVARIANTS
  DonePairIsSound
  TiersAccountedFor
  VerdictRestsOnEvidence
  BiasRefused
  DoneRunIsSound
  RunsAccountedFor
  GateTellsNoise
PROPERTIES
  ReachesVerdict
