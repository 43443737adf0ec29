SPECIFICATION Spec
CONSTANTS
  s1 = s1
  s2 = s2
  s3 = s3
  c1 = c1
  c2 = c2
  Spools = {s1, s2}
  Cards = {c1, c2}
  None = None
  MixedStart = FALSE
  InfoErrors = TRUE
  MaxRuns = 2
  MaxFaults = 1
  MaxAssigns = 1
INVARIANT OneStoreAfter
CHECK_DEADLOCK FALSE
