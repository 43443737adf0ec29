SPECIFICATION Spec
CONSTANTS
  r1 = r1
  r2 = r2
  Threads = {r1}
  None = None
  Offered <- Metrics
  Defaults <- MCDelivered
  MaxChanges = 3
  MaxUploads = 0
  MaxCuts = 0
INVARIANT ReadsWithMetrics
CHECK_DEADLOCK FALSE
