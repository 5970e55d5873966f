SPECIFICATION Spec
CONSTANTS
    Reqs = {r1, r2}
    MaxCalls = 2
    MaxRestarts = 1
    MaxRefused = 1
SYMMETRY MCSymmetry
INVARIANT BlockedNoLLM
CHECK_DEADLOCK FALSE
