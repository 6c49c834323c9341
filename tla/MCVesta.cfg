SPECIFICATION Spec
CONSTANTS
    r1 = r1
    r2 = r2
    Requests <- MCRequests
    Paths = {"p"}
    Original = "original"
    Absent = "absent"
INVARIANTS
    ApprovedOnce
    CompletedIsReal
    ServiceVoidIsFailure
    FailedWriteUndone
SYMMETRY MCSymmetry
