\* Every kind of fault: two jobs share two workers.
CONSTANTS
  j1 = j1
  j2 = j2
  w1 = w1
  w2 = w2
  Jobs = {j1, j2}
  Workers = {w1, w2}
  Rows <- OneRow
  MaxRetries = 1
  Faults <- AllFaults
  MaxFaults = 2
SPECIFICATION Spec
SYMMETRY Symmetry
CONSTRAINT FewDeliveries
INVARIANTS
  TypeOK
  QueuedIsCommitted
  DiscardJustified
  NeverOvercounted
  SingleDelivery
  RetainedForRetry
  Accounting
PROPERTIES
  CompletedIsFinal
  ImplementsImportJob
CHECK_DEADLOCK FALSE
