\* Claim of the docstring of _refresh_cache_after_stop.
SPECIFICATION InvSpec
CONSTANTS
    Hosts = {h1, h2}
    Procs = {p1}
    None = None
PROPERTY StopRemovesObjects
