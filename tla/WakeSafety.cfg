CONSTANTS
  Memories = {m}
  Salient = {m}
  Cap = 1
  CallsPerWindow = 2
  MaxGeneration = 5
  MaxEvents = 1
CHECK_DEADLOCK FALSE
SPECIFICATION Spec
INVARIANTS
  OneCyclePerSchedule
  WakeChainAlive
  EnrichmentBounded
