\* Files with one bad row, no refusal by the database itself.
CONSTANTS
  Files <- OneBadRow
  MaxRetries = 3
  MaxRefusals = 0
  MaxRows = 3
SPECIFICATION Spec
INVARIANT BadRowIsNotFatal
CHECK_DEADLOCK FALSE
