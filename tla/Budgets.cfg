CONSTANTS
  c1 = c1
  c2 = c2
  c3 = c3
  Cycles = {c1, c2, c3}
  CallsPerHour = 1
  CallsPerDay = 2
  MessagesPerHour = 2
  Attempts = 2
  DayLength = 3
  MaxHour = 4
SYMMETRY Symmetry
SPECIFICATION Spec
INVARIANTS
  CallsWithinBudget
  HeardWithinBudget
