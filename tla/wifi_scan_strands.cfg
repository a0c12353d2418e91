SPECIFICATION Spec
CONSTANTS
    a1 = a1
    a2 = a2
    NoAp = NoAp
    Aps <- OneAp
    DropReasons <- LinkFailures
    QueueLength = 10
    MaxReconnectAttempts = 2
    SameApLimit = 1
    AutoConnect = TRUE
    ApiCommands <- AllCommands
    MaxApiCalls = 3
    Faults <- NoFaults
INVARIANTS NeverStranded
CHECK_DEADLOCK FALSE
