SPECIFICATION Spec
CONSTANTS
    Procs = {p1, p2}
    Docs = {native, scanned}
    NativeDocs = {native}
    NoDoc = NoDoc
    MaxJobs = 2
    MaxCrashes = 1
INVARIANTS
    TypeOK
    DoneHasText
PROPERTIES
    LedgerSpec
    TakenJobsSettle
\* The system really stops: every document extracted or every request made.
CHECK_DEADLOCK FALSE
