SPECIFICATION Spec
CONSTANTS
    MaxId = 1
    MaxRetries = 1
    MaxReboots = 1
    MaxServerRestarts = 0
INVARIANTS AnswerIsTrue
CHECK_DEADLOCK FALSE
