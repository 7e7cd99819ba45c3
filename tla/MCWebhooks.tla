----------------------------- MODULE MCWebhooks -----------------------------
EXTENDS Webhooks, TLC
Symmetric == Permutations(JobIds) \cup Permutations(Requests)

\* Bound of the run: an inventory action always acts on the object.
ActsOnObject ==
    \A j \in JobIds : InMemory(j) /\ jobs[j].kind = "action" => jobs[j].refs \cap Objects # {}
=============================================================================
