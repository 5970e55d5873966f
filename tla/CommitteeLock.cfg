SPECIFICATION Spec
CONSTANTS
    Sessions = {s1, s2}
    Members = {m1}
    Voters = {m1}
    Mandatory = {m1}
    MaxDecisions = 2
    MaxSeals = 2
SYMMETRY Symmetry
INVARIANTS
    TypeOK
    SealRecord
    SealedIsNewest
    OpenedBeforeSealed
PROPERTIES
    FrozenAfterSeal
    RegisterSpec
\* A sealed committee refuses every request: the system stops there.
CHECK_DEADLOCK FALSE
