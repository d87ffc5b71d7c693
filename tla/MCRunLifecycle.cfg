SPECIFICATION Spec
CONSTANTS
    Runs = {1, 2}
    Persisted = {1}
    MaxRequests = 4
    MaxCrashes = 1
CHECK_DEADLOCK FALSE
INVARIANTS TypeOK NothingOrphaned
PROPERTIES SparesTheLiving
