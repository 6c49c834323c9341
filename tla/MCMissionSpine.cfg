CONSTANTS
    Bodies = {b1, b2}
    Actors = {agent, gate}
    GateActor = gate
    Operators = {op}
    Strangers = {mallory}
    None = None
SPECIFICATION Spec
INVARIANTS TypeOK ReviewsPassed MergedOnVerdict VerdictStands
PROPERTY TerminalIsFinal
CHECK_DEADLOCK FALSE
