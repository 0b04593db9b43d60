CONSTANTS
  t1 = t1
  t2 = t2
  t3 = t3
  Turns = {t1, t2, t3}
  Thread <- Threads3
  First = t1
  ActiveWithin = 0
  IdleWithin = 1
  MaxTime = 4
  MaxFailures = 1
SPECIFICATION Spec
INVARIANTS
  LatestTurnOwnsFocus
  CloseIsRemembered
PROPERTIES
  QuietAfterHuman
  ResolvedStaysQuiet
