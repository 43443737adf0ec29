SPECIFICATION Spec
CONSTANTS
  Spools = {1, 2}
  Stored = {1, 2}
  Listed = {1, 2}
  Cards = {c1, c2}
  c1 = c1
  c2 = c2
  t1 = t1
  t2 = t2
  Channels = {0}
  Tasks = {t1, t2}
  None = None
  Native = TRUE
  MayBeOld = FALSE
  Retries = 0
  MaxFaults = 0
  MaxCalls = 2
  MaxScans = 1
INVARIANT ClearedStaysCleared
CHECK_DEADLOCK FALSE
