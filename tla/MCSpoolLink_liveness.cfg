SPECIFICATION Spec
CONSTANTS
  Spools = {1, 2}
  Stored = {1, 2}
  Listed = {1, 2}
  Cards = {c1}
  c1 = c1
  c2 = c2
  t1 = t1
  t2 = t2
  Channels = {0}
  Tasks = {t1, t2}
  None = None
  Native = TRUE
  MayBeOld = FALSE
  Retries = 1
  MaxFaults = 1
  MaxCalls = 2
  MaxScans = 0
PROPERTY CallsEnd
CHECK_DEADLOCK FALSE
