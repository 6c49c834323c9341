CONSTANTS
    Keys = {k1, k2}
    NoKey = NoKey
    Procs = {p1}
    Operations = {o1, o2}
    MaxRotations = 2
SPECIFICATION Spec
CONSTRAINT Apart
INVARIANT RootedCustody
INVARIANT HistoryVerifiable
SYMMETRY Sym
