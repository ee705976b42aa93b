CONSTANTS
  Producer = {p1, p2}
  Writer = {w1, w2}
  BatchSize = 2
  MaxMetrics = 3
  write_limit_low = 0
  write_limit_high = 1
  record_statistics = TRUE
  Invalid <- MCInvalid
  NoMetric = NoMetric
SPECIFICATION FairSpec
INVARIANTS LengthIsExact OnePlace NoOvertaking QueueBounded
PROPERTIES ImplementsPipe QueuedIsHandled StopTerminates
CHECK_DEADLOCK FALSE
