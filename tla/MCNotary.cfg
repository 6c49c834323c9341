CONSTANTS
    Runs = {r1}
    MaxEntries = 4
SPECIFICATION NotaryFairSpec
INVARIANTS HealthyMeansHeld RollbackDetected
PROPERTY Converges
CHECK_DEADLOCK FALSE
