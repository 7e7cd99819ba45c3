SPECIFICATION HookSpec
CONSTANTS
    JobIds = {j1, j2}
    Users = {}
    Objects = {o}
    Origins = {w1}
    Requests = {r1, r2}
    Workload = {"action"}
    MaxChildren = 1
    MaxCrashes = 1
    None = None
INVARIANTS HookTypeOK AloneStatusMatches CountsTriggers LockHasOwner
SYMMETRY Symmetric
CHECK_DEADLOCK FALSE
CONSTRAINT ActsOnObject
