SPECIFICATION Spec
CONSTANTS
    MaxId = 2
    MaxRetries = 1
    MaxReboots = 1
    MaxServerRestarts = 1
INVARIANTS EffectOncePerLife AnswerIsTrueAtFirst
CHECK_DEADLOCK FALSE
