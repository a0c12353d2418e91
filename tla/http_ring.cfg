SPECIFICATION FairSpec
CONSTANTS
    MaxId = 6
    MaxRetries = 1
    RequestQueueLength = 1
    ResultQueueLength = 1
    RetryQueueLength = 1
    Replies <- Silence
VIEW Control
PROPERTIES EveryRequestEnds
CHECK_DEADLOCK FALSE
