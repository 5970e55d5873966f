CONSTANTS
    Leaves = {q1, q5_1, q5_4}
    Regularizable = {q5_4}
    Q5 = {q5_1, q5_4}
    Vendors = {1, 2, 3}
    Reviewed = 2
    MaxScore = 2
    MaxUnknown = 2
SPECIFICATION MCSpec
CONSTRAINT MCBounds
INVARIANT RankedHaveTotals
