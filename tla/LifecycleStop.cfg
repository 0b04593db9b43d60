CONSTANTS
  p1 = p1
  p2 = p2
  Processes = {p1}
  Clients = {"c1"}
  Beat = 2
  MaxTime = 3
  MaxSessions = 1
SPECIFICATION FairSpec
PROPERTY StopCompletes
