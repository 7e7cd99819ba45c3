\* Claim of the documentation; the children of a bulk job refute it.
SPECIFICATION Spec
CONSTANTS
    JobIds = {j1, j2, j3}
    Users = {}
    Objects = {}
    Origins = {}
    MaxChildren = 2
    MaxCrashes = 0
    None = None
INVARIANT EveryJobRecorded
CHECK_DEADLOCK FALSE
