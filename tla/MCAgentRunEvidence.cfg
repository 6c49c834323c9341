SPECIFICATION Spec
CONSTANTS
    TaskIds = {i1}
    Runs = {r1, r2}
    Plans <- MCPlans
    Grants <- MCGrants
    MaxRetries = 1
    MaxFaults = 1
INVARIANTS
    FailsWithEvidence
SYMMETRY Symmetry
CHECK_DEADLOCK FALSE
