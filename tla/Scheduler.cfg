SPECIFICATION SchedSpec
CONSTANTS
    JobIds = {j1, j2}
    Users = {}
    Objects = {}
    Origins = {s1, s2}
    Cleanups = {s2}
    Workload = {"command"}
    MaxChildren = 1
    MaxCrashes = 1
    None = None
INVARIANTS SchedTypeOK NoOverlap StatusIsOfLastJob
PROPERTIES LedgerSpec
SYMMETRY Symmetric
CHECK_DEADLOCK FALSE
