CONSTANTS
  x = x
  y = y
  z = z
  i = i
  b = b
  Candidates = {x, y, z, i, b}
  Blank = {b}
  Model <- Model5
  Same <- Same4
  Near <- Near4
  MaxCycles = 3
CHECK_DEADLOCK FALSE
SPECIFICATION TraceSpec
INVARIANTS
  ReportReconciles
  ReasonIsTrue
