CONSTANTS
    Bodies = {b1}
    Actors = {agent, gate}
    GateActor = gate
    Operators = {op}
    Strangers = {}
    None = None
    agent = agent
    op = op
    b1 = b1
    Missions = {m1, m2}
    Anchored = TRUE
    MaxChain = 12
SPECIFICATION StartSpec
CONSTRAINT FewEvents
SYMMETRY Symmetry
INVARIANTS StoreEvidenced
PROPERTY SpineSteps
CHECK_DEADLOCK FALSE
