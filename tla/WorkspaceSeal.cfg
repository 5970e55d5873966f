SPECIFICATION Safety
CONSTANTS
    Conns = {c1, c2}
    Users = {u1, u2}
    Roles = {finance, observer}
    Observer = observer
    Critical = {finance}
    QuorumMin = 1
    MaxSeals = 2
    MaxChanges = 1
SYMMETRY Symmetry
INVARIANTS
    TypeOK
    SealedTogether
    PvMembersStand
    ProjectedOnce
PROPERTY LedgerSpec
