SPECIFICATION Spec
CONSTANTS
    Reqs = {r1, r2}
    MaxCalls = 3
    MaxRestarts = 2
    MaxRefused = 1
SYMMETRY MCSymmetry
CONSTRAINT MCLastAlone
INVARIANTS
    TypeOK
    CheckpointCoherent
    AnswersAreExplained
PROPERTY AloneIsDurable
\* Every request is made and answered.
CHECK_DEADLOCK FALSE
