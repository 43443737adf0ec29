SPECIFICATION Spec
CONSTANTS
  Spools = {1, 2}
  Stored = {1, 2}
  Listed = {1, 2}
  Cards = {c1, c2}
  c1 = c1
  c2 = c2
  t1 = t1
  t2 = t2
  Channels = {0}
  Tasks = {t1}
  None = None
  Native = FALSE
  MayBeOld = FALSE
  Retries = 1
  MaxFaults = 2
  MaxCalls = 2
  MaxScans = 1
INVARIANT CacheAgrees
PROPERTY ImplementsCardLinks
CHECK_DEADLOCK FALSE
SYMMETRY Symmetry
