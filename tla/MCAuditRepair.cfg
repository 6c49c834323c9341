CONSTANTS
    Writers = {w1, w2}
    Bodies = {b1, b2}
    Genesis = genesis
    NoOne = NoOne
    MaxRows = 3
    Operations = {o1, o2}
    MaxDamage = 1
SPECIFICATION RepairSpec
INVARIANTS NeverSilent RepairHeals
PROPERTY ContentKept
SYMMETRY Sym
CHECK_DEADLOCK FALSE
