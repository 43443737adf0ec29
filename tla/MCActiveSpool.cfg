SPECIFICATION Spec
CONSTANTS
  Channels = {0, 1}
  First = 0
  Spools = {5, 6}
  None = None
  MaxChanges = 3
  MaxRestarts = 1
  MaxFaults = 1
INVARIANTS TypeOK BeliefAgrees SettledInSync
PROPERTY Converges
CHECK_DEADLOCK FALSE
