SPECIFICATION OneModeSpec
CONSTANTS
    JobIds = {j1, j2}
    Users = {}
    Objects = {}
    Origins = {s1, s2}
    Cleanups = {}
    Workload = {"action", "bulk"}
    MaxChildren = 1
    MaxCrashes = 0
    None = None
PROPERTIES BulkEnds EndIsNoticed
CHECK_DEADLOCK FALSE
