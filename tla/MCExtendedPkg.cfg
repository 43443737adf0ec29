SPECIFICATION Spec
CONSTANTS
  p1 = p1
  p2 = p2
  v1 = v1
  v2 = v2
  Callers = {p1, p2}
  Versions = {v1, v2}
  Legacy = "legacy"
  None = "none"
  Parts <- MCParts
  Definitions <- MCDefinitions
  MaxCalls = 3
  MaxCuts = 1
  MaxFirmwares = 1
SYMMETRY Symmetry
INVARIANTS TypeOK InstalledIsWhole
PROPERTIES FailedKeepsOld Delivers
CHECK_DEADLOCK FALSE
