\* The database is lost outside the import's try block.
CONSTANTS
  j1 = j1
  j2 = j2
  w1 = w1
  w2 = w2
  Jobs = {j1}
  Workers = {w1}
  Rows <- OneRow
  MaxRetries = 3
  Faults <- Connection
  MaxFaults = 1
SPECIFICATION Spec
INVARIANT FatalIsMarkedFailed
CHECK_DEADLOCK FALSE
