CONSTANTS
    Writers = {w1, w2, w3}
    Bodies = {b1, b2}
    Genesis = genesis
    NoOne = NoOne
    MaxRows = 3
SPECIFICATION Spec
INVARIANTS ChainIntact NeverBothOpen V2LinksIntoV1
SYMMETRY Sym
