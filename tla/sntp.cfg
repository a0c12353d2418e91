SPECIFICATION Spec
CONSTANTS
    MaxTime = 3
    MaxSyncs = 3
    MaxCalls = 5
INVARIANTS TypeOK InitializedMeansRunning SyncIsRemembered SyncedIsTrue
CHECK_DEADLOCK FALSE
