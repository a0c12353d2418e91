SPECIFICATION Spec
CONSTANTS
    MaxMessages = 6
INVARIANTS StatusReaderAssertion
CHECK_DEADLOCK FALSE
