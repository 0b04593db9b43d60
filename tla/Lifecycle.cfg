CONSTANTS
  p1 = p1
  p2 = p2
  Processes = {p1, p2}
  Clients = {"c1"}
  Beat = 2
  MaxTime = 6
  MaxSessions = 3
SPECIFICATION FairSpec
INVARIANTS
  IdentityMintedOnce
  ExitKindIsTrue
  DowntimeIsBounded
  SilenceIsObserved
PROPERTY StopEnds
