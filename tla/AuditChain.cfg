SPECIFICATION Spec
CONSTANTS
    Writers = {w1, w2, w3}
    Autocommit = {}
    Items = {i1, i2}
    Event = Event
    Genesis = Genesis
    MaxSeq = 4
SYMMETRY MCSymmetry
INVARIANTS
    TypeOK
    ChainVerifies
    VerifiedAsWritten
    UpdatesAreTraced
PROPERTY GrowsAtTheEnd
\* The sequence is bounded.
CHECK_DEADLOCK FALSE
