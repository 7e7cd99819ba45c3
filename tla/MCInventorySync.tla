--------------------------- MODULE MCInventorySync ---------------------------
EXTENDS InventorySync, TLC
Symmetric == Permutations(Hosts) \cup Permutations(Procs)
=============================================================================
