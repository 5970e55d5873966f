SPECIFICATION Spec
CONSTANTS
    Procs = {p1, p2}
    NBundles = 2
    MaxCalls = 3
SYMMETRY MCSymmetry
CONSTRAINT MCLastBridges
INVARIANTS
    TypeOK
    RunsAssessParticipants
    NoCircularWait
PROPERTIES
    ScoresStand
    CompletedIsAssessed
\* Every request is made and answered.
CHECK_DEADLOCK FALSE
