\* Two runs of the hook, one worker, up to two faults of every kind.
CONSTANTS
  w1 = w1
  Jobs <- OperatorJobs
  Workers = {w1}
  Rows <- NoRows
  MaxRetries = 1
  Faults <- AllFaults
  MaxFaults = 2
  MaxRuns = 2
  Commands <- Operator
  MaxPolls = 2
  Words <- Codes
  Amounts <- Figures
  Dates <- Dated
  Days <- Exported
  Clock <- Moments
  DefaultPlace <- MainStore
SPECIFICATION HookSpec
CONSTRAINT FewDeliveries
INVARIANTS
  HookTypeOK
  DependencyOrder
  OkMeansImported
  ExportKept
PROPERTY NeverSetBack
CHECK_DEADLOCK FALSE
