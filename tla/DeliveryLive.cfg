CONSTANTS
  Mandatory = {a, b}
  Proactive = {}
  Clients = {c1, c2}
  MaxFailures = 1
SPECIFICATION FairSpec
PROPERTIES
  WaiterGetsPass
  InflightSettles
