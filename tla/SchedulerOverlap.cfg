\* Claim of the form of a schedule: "Skip if already running".
SPECIFICATION SchedSpec
CONSTANTS
    JobIds = {j1, j2, j3}
    Users = {}
    Objects = {}
    Origins = {s1}
    Cleanups = {}
    Workload = {"command"}
    MaxChildren = 1
    MaxCrashes = 0
    None = None
PROPERTY SkipsIfRunning
CHECK_DEADLOCK FALSE
