SPECIFICATION Spec
CONSTANTS
    MaxId = 3
    MaxRetries = 1
    RequestQueueLength = 1
    ResultQueueLength = 1
    RetryQueueLength = 1
    Replies <- MCReplies
INVARIANTS TypeOK OneCopy RetryCountIsExact SubmitsAddUp ResultsAddUp RequestsAddUp RetriesAddUp RecoveredWereRetried
PROPERTIES ImplementsContract
CHECK_DEADLOCK FALSE
