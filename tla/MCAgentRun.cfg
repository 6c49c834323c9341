SPECIFICATION Spec
CONSTANTS
    TaskIds = {i1}
    Runs = {r1, r2}
    Plans <- MCPlans
    Grants <- MCGrants
    MaxRetries = 1
    MaxFaults = 1
INVARIANTS
    RecordsAgree
    TaskTellsResult
    TaintedWriteApproved
    WorkIsDecided
SYMMETRY Symmetry
CHECK_DEADLOCK FALSE
