\* Files whose bad rows are rejected, no refusal.
CONSTANTS
  Files <- RejectedFiles
  MaxRetries = 3
  MaxRefusals = 0
  MaxRows = 3
SPECIFICATION Spec
INVARIANT ErrorsAccumulate
CHECK_DEADLOCK FALSE
