SPECIFICATION Spec
CONSTANTS
    Writers = {w1, w2}
    Starters = {p1, p2}
    NoWriter = NoWriter
    Digests = {d1, d2, d3, d4, d5}
    GENESIS_HASH = GENESIS_HASH
SYMMETRY ChainSymmetry
INVARIANTS ChainInv verify_event_chain HeadIsLast
CHECK_DEADLOCK FALSE
