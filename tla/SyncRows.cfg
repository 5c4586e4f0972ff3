\* Every file of up to four rows, retried once, with up to two refusals.
CONSTANTS
  Files <- AllFiles
  MaxRetries = 1
  MaxRefusals = 2
  MaxRows = 4
SPECIFICATION Spec
INVARIANTS
  TypeOK
  AllOrNothing
  ErrorsAreGenuine
  ReportedExactly
PROPERTY EntriesKept
CHECK_DEADLOCK FALSE
