CONSTANTS
  Messages = {m1, m2}
  MaxAttempts = 2
  MaxCrashes = 2
  MaxFailures = 1
SPECIFICATION Spec
SYMMETRY Symmetry
INVARIANTS
  NoAcceptedMessageLost
  NoStrandedWork
  CleanSuspendIsQuiescent
PROPERTIES
  SettledIsFinal
  KeepsPromise
