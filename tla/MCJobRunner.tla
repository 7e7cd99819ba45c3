---------------------------- MODULE MCJobRunner ----------------------------
EXTENDS JobRunner, TLC
Symmetric == Permutations(JobIds)

\* Bound of the run: in memory are at most two jobs that have no parent.
TwoRequests == Cardinality({j \in JobIds : InMemory(j) /\ jobs[j].parent = None}) <= 2
=============================================================================
