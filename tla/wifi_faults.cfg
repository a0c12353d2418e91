SPECIFICATION Spec
CONSTANTS
    a1 = a1
    a2 = a2
    NoAp = NoAp
    Aps <- TwoAps
    DropReasons <- AllReasons
    QueueLength = 3
    MaxReconnectAttempts = 1
    SameApLimit = 1
    AutoConnect = TRUE
    ApiCommands <- AllCommands
    MaxApiCalls = 3
    Faults <- AllFaults
SYMMETRY ApSymmetry
INVARIANTS TypeOK ConfiguredApIsSelected SelectionOwnsTheScan AgreesWhenQuiet ScanAnswered
PROPERTIES ConnectsOnlyWhenWanted FollowsMoves
CHECK_DEADLOCK FALSE
