CONSTANTS
  Mandatory = {a}
  Proactive = {p, q}
  Clients = {c1}
  MaxFailures = 0
SPECIFICATION Spec
SYMMETRY Symmetry
INVARIANTS
  TurnMeansHeard
  OneProactivePerWindow
  SentOncePerSession
  InflightIsReported
PROPERTIES
  ImplementsOutbox
