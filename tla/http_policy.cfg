SPECIFICATION Spec
CONSTANTS
    Statuses <- MCStatuses
    BodySize = 4
    MaxSent = 6
    MaxRetries = 8
INVARIANTS BodyIsPrefix CauseDecides
INVARIANTS SuccessIffNothingToDo FollowsPolicyTable
PROPERTIES WaitsGrow
CHECK_DEADLOCK FALSE
