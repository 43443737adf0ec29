SPECIFICATION Spec
CONSTANTS
  Agent = Agent
  Sweep = Sweep
  MaxStarts = 2
  MaxKills = 1
  MaxDeletes = 1
  Early = FALSE
INVARIANTS TypeOK ActiveKept CatalogueTrue NothingStranded
PROPERTIES FinishedKept StoppedIsShown
CHECK_DEADLOCK FALSE
