CONSTANTS
  Messages = {m1, m2}
  MaxAttempts = 1
  MaxCrashes = 1
  MaxFailures = 0
SPECIFICATION FairSpec
PROPERTIES
  AcceptedIsReduced
  ObligationSettles
