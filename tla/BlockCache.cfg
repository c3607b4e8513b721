SPECIFICATION Spec
CONSTANTS
    Keys = {k1, k2, k3, k4}
    LRU_SLOTS = 3
    Readers = {r1, r2}
    CHUNK = 1
    MAX_TICK = 5
    NoKey = NoKey
    EMPTY = EMPTY
    ZERO = ZERO
SYMMETRY MCSymmetry
INVARIANTS TagTrue PointerLife
CHECK_DEADLOCK FALSE
