SPECIFICATION Spec
CONSTANTS
  Nil = Nil
  TicksPerSecond = 2
  DigitUnits = {1, 2}
  RunIds = {1, 2, 3}
  Limit = 1
  MaxOffset = 2
  MaxTime = 2
  MaxWrites = 2
INVARIANTS UntouchedRunsAreListed QuietPagesPartition
CHECK_DEADLOCK FALSE
