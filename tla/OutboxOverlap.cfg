SPECIFICATION OutboxSpec
CONSTANTS
  MaxRows = 3
  MaxRetries = 2
  BatchSize = 2
  Drains = {p1, p2}
  MaxStops = 1
  p1 = p1
  p2 = p2
INVARIANTS
  OutboxTypeOK
  OutcomesAreEarned
PROPERTIES
  EveryRowEnds
CHECK_DEADLOCK FALSE
