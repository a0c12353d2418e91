SPECIFICATION FairSpec
CONSTANTS
    a1 = a1
    a2 = a2
    NoAp = NoAp
    Aps <- OneAp
    DropReasons <- LinkFailures
    QueueLength = 10
    MaxReconnectAttempts = 2
    SameApLimit = 1
    AutoConnect = FALSE
    ApiCommands <- ConnectDisconnect
    MaxApiCalls = 3
    Faults <- NoFaults
INVARIANTS NeverStranded
PROPERTIES EventuallyOnline DisconnectTakesEffect
CHECK_DEADLOCK FALSE
