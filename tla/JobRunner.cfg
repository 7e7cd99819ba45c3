SPECIFICATION Spec
CONSTANTS
    JobIds = {j1, j2, j3}
    Users = {u}
    Objects = {}
    Origins = {}
    MaxChildren = 2
    MaxCrashes = 1
    None = None
INVARIANTS TypeOK BulkVerdict RecordsAreVerdicts
PROPERTIES LedgerSpec RecordedAsItEnds
SYMMETRY Symmetric
CHECK_DEADLOCK FALSE
CONSTRAINT TwoRequests
