SPECIFICATION Spec
CONSTANTS
    Writers = {w1, w2}
    Autocommit = {}
    Items = {i1, i2}
    Event = Event
    Genesis = Genesis
    MaxSeq = 4
SYMMETRY MCSymmetry
INVARIANT AlterationDetectable
CHECK_DEADLOCK FALSE
