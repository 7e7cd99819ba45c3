SPECIFICATION InvSpec
CONSTANTS
    Hosts = {h1, h2}
    Procs = {p1, p2}
    None = None
INVARIANTS InvTypeOK ObjectsMirrorCache
PROPERTIES RefreshAloneIsExact LiveServerStays
SYMMETRY Symmetric
