SPECIFICATION Spec
CONSTANTS
  Inputs <- MCInputs
  Json <- MCJson
  GoodPayload <- MCGood
INVARIANTS StaysInside FindsWhatIsThere TakesTheFirst
PROPERTY Returns
CHECK_DEADLOCK FALSE
