CONSTANTS
    Callers = {c1, c2}
    Items = {i1}
    Kinds = {build, commit}
    Free = free
    tokens = tokens
    Categories = {tokens}
    Limits <- TokensOnly
    Window = 2
    MaxUnits = 2
    MaxTime = 3
    MaxUses = 1
SPECIFICATION GuardFairSpec
INVARIANTS CapHolds RollingTwice ApprovedOnly
PROPERTY ArmingQuiesces
CHECK_DEADLOCK FALSE
