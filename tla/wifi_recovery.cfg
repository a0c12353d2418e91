SPECIFICATION RecoverySpec
CONSTANTS
    Base = 3
    MaxDelay = 50
    Jitter = 13
    MaxAttempts = 7
    Modulus = 64
    Rssis <- MCRssis
    MaxRecords = 3
INVARIANTS TypeOK DelayInRange DelayDoubles WaitsNeverShrink
INVARIANTS SelectsStrongest
