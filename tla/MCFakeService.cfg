SPECIFICATION Spec
CONSTANT MaxCalls = 4
INVARIANTS TypeOK NoOrphan HandedOn UpAsAsked
PROPERTIES StopsWhenTold FailedIsRestarted
CHECK_DEADLOCK FALSE
