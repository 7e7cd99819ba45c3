\* Claim of the list of webhooks, which shows the status beside the job.
SPECIFICATION HookSpec
CONSTANTS
    JobIds = {j1, j2}
    Users = {}
    Objects = {}
    Origins = {w1}
    Requests = {r1}
    Workload = {"command"}
    MaxChildren = 1
    MaxCrashes = 0
    None = None
INVARIANT HookStatusIsOfLastJob
CHECK_DEADLOCK FALSE
