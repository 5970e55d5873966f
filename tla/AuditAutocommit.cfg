SPECIFICATION Spec
CONSTANTS
    Writers = {w1, w2}
    Autocommit = {w1, w2}
    Items = {i1, i2}
    Event = Event
    Genesis = Genesis
    MaxSeq = 4
SYMMETRY MCSymmetry
INVARIANT ChainVerifies
CHECK_DEADLOCK FALSE
