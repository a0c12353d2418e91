SPECIFICATION BootSpec
CONSTANTS
    MaxMessages = 6
INVARIANTS SettledStatusIsCurrent
INVARIANTS TasksFindTheirResources FailureLeavesWholeModules
INVARIANTS TelemetryNeedsLinkAndTime
CHECK_DEADLOCK FALSE
