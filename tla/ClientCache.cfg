SPECIFICATION CacheSpec
CONSTANTS
    Queries <- MCQueries
    Writes <- MCWrites
    Untold <- MCUntold
    Mixed <- MCMixed
    Slots = {s1}
    MaxVer = 2
INVARIANTS CacheTypeOK  KeysAgree
PROPERTIES PolledCatchesUp
CHECK_DEADLOCK FALSE
