\* Crashes of the container and expired visibility timeouts, under fairness.
CONSTANTS
  j1 = j1
  j2 = j2
  w1 = w1
  w2 = w2
  Jobs = {j1}
  Workers = {w1, w2}
  Rows <- NoRows
  MaxRetries = 1
  Faults <- Redelivery
  MaxFaults = 2
SPECIFICATION FairSpec
PROPERTIES
  EventuallyTerminal
  EventuallyDiscarded
CHECK_DEADLOCK FALSE
