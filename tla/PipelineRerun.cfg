SPECIFICATION Spec
CONSTANTS
    Procs = {p1, p2}
    NBundles = 2
    MaxCalls = 2
SYMMETRY MCSymmetry
PROPERTY RerunCompletes
\* Every request is made and answered.
CHECK_DEADLOCK FALSE
