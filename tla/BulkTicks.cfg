SPECIFICATION SelectionSpec
CONSTANTS
    ObjectTypes = {ta, tb}
    MaxObjects = 2
    MaxBulk = 1
INVARIANTS BulkHitsTicked
CHECK_DEADLOCK FALSE
