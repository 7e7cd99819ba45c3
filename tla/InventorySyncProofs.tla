------------------------ MODULE InventorySyncProofs ------------------------
(***************************************************************************)
(* Proofs about InventorySync, for every set of hosts and of jobs.         *)
(***************************************************************************)
EXTENDS InventorySync, TLAPS

USE InventorySyncAssumption DEF Ops

\* A listing nobody has overtaken is the cloud, and once written the file.
CalmOK ==
    \A p \in Procs : proc[p].calm =>
        /\ proc[p].at \in {"listed", "written", "relisted", "rewritten"}
        /\ proc[p].seen = cloud
        /\ proc[p].at \in {"written", "rewritten"} => file = proc[p].seen

IInv == InvTypeOK /\ ObjectsMirrorCache /\ CalmOK

\* The initial states satisfy the invariant: there is no cache yet and no job.
LEMMA InitIInv == InvInit => IInv
BY DEF InvInit, IInv, InvTypeOK, ObjectsMirrorCache, CalmOK, Proc, Idle

\* A job that is no longer calm is a job.
LEMMA CalmLostType ==
    ASSUME NEW r \in Proc
    PROVE  [r EXCEPT !.calm = FALSE] \in Proc /\ ~[r EXCEPT !.calm = FALSE].calm
BY DEF Proc

\* What others' steps do to the map of jobs is the loss of calm only.
LEMMA StaleType ==
    ASSUME InvTypeOK, NEW p \in Procs
    PROVE  /\ Stale(p) \in [Procs -> Proc]
           /\ Stale(p)[p] = proc[p]
           /\ \A q \in Procs : q # p => ~Stale(p)[q].calm
BY CalmLostType DEF InvTypeOK, Stale

\* The source of a sync is a set of hosts, when it is anything.
LEMMA SourceType ==
    ASSUME InvTypeOK, NEW c \in {None} \cup SUBSET Hosts
    PROVE  Source(c) \in {None} \cup SUBSET Hosts
BY DEF InvTypeOK, Source

\* A step that stores a cache and syncs from it makes the objects agree with
\* the cache, whatever they were before.
LEMMA SyncMirrors ==
    ASSUME InvTypeOK, NEW c \in {None} \cup SUBSET Hosts, cache' = c, Sync(c)
    PROVE  /\ ObjectsMirrorCache'
           /\ cache' \in {None} \cup SUBSET Hosts
           /\ servers' \in SUBSET Hosts
           /\ edited' \in SUBSET Hosts
<1>1. Source(c) \in {None} \cup SUBSET Hosts
  BY SourceType
<1>2. CASE Source(c) \in {None, {}}
  <2>1. c \in {None, {}}
    BY <1>2 DEF Source
  <2> QED
    BY <1>2, <2>1 DEF Sync, ObjectsMirrorCache, InvTypeOK
<1>3. CASE Source(c) \notin {None, {}}
  <2>1. servers' = Source(c) /\ edited' = {} /\ Source(c) \in SUBSET Hosts
    BY <1>1, <1>3 DEF Sync
  <2>2. c # None => servers' = c
    BY <2>1 DEF Source
  <2> QED
    BY <2>1, <2>2 DEF ObjectsMirrorCache
<1> QED
  BY <1>2, <1>3

\* A sync that leaves the cache alone keeps the agreement.
LEMMA SyncKeepsMirror ==
    ASSUME InvTypeOK, ObjectsMirrorCache, UNCHANGED cache, Sync(cache)
    PROVE  /\ ObjectsMirrorCache'
           /\ servers' \in SUBSET Hosts
           /\ edited' \in SUBSET Hosts
BY SyncMirrors DEF InvTypeOK

\* A step that makes job p idle and leaves the cloud and the file alone does
\* not make any listing stale.
LEMMA IdleKeepsCalm ==
    ASSUME InvTypeOK, CalmOK, NEW p \in Procs,
           proc' = [proc EXCEPT ![p] = Idle], UNCHANGED <<cloud, file>>
    PROVE  CalmOK' /\ proc' \in [Procs -> Proc]
BY DEF InvTypeOK, CalmOK, Proc, Idle

\* A step of job p after which no other job is calm.
LEMMA StaleKeepsCalm ==
    ASSUME InvTypeOK, NEW p \in Procs, NEW r \in Proc,
           proc' = [Stale(p) EXCEPT ![p] = r],
           r.calm => /\ r.at \in {"written", "rewritten"}
                     /\ r.seen = cloud' /\ file' = r.seen
    PROVE  CalmOK' /\ proc' \in [Procs -> Proc]
<1>1. Stale(p) \in [Procs -> Proc]
  BY StaleType
<1>2. \A q \in Procs : q # p => ~proc'[q].calm
  BY StaleType, <1>1
<1>3. proc'[p] = r
  BY <1>1
<1> QED
  BY <1>1, <1>2, <1>3 DEF CalmOK

\* A step of job p that leaves the others, the cloud and the file alone.
LEMMA OwnKeepsCalm ==
    ASSUME InvTypeOK, CalmOK, NEW p \in Procs, NEW r \in Proc,
           proc' = [proc EXCEPT ![p] = r], UNCHANGED <<cloud, file>>,
           r.calm => r.at \in {"listed", "relisted"} /\ r.seen = cloud
    PROVE  CalmOK' /\ proc' \in [Procs -> Proc]
BY DEF InvTypeOK, CalmOK

\* The agreement is about the cache and the objects only.
LEMMA MirrorUnchanged ==
    ASSUME ObjectsMirrorCache, UNCHANGED <<cache, servers, edited>>
    PROVE  ObjectsMirrorCache'
BY DEF ObjectsMirrorCache

\* Every step keeps the invariant.
LEMMA NextIInv == IInv /\ [InvNext]_invVars => IInv'
<1> SUFFICES ASSUME IInv, [InvNext]_invVars
             PROVE  IInv'
  OBVIOUS
<1> USE DEF IInv
<1>1. ASSUME NEW p \in Procs, NEW op \in Ops, List(p, op)
      PROVE  IInv'
  <2> DEFINE r == [at |-> "listed", op |-> op, host |-> None, seen |-> cloud, calm |-> TRUE]
  <2>1. r \in Proc
    BY DEF InvTypeOK, Proc
  <2>2. CalmOK' /\ proc' \in [Procs -> Proc]
    BY <1>1, <2>1, OwnKeepsCalm DEF List
  <2> QED
    BY <1>1, <2>2, MirrorUnchanged DEF List, InvTypeOK
<1>2. ASSUME NEW p \in Procs, Write(p)
      PROVE  IInv'
  <2> DEFINE r == [proc[p] EXCEPT !.at = "written"]
  <2>1. r \in Proc /\ (r.calm => r.seen = cloud) /\ r.at = "written" /\ r.seen = proc[p].seen
    BY DEF InvTypeOK, Proc, CalmOK
  <2>2. proc' = [Stale(p) EXCEPT ![p] = r]
    BY <1>2, StaleType DEF Write
  <2>3. CalmOK' /\ proc' \in [Procs -> Proc]
    BY <1>2, <2>1, <2>2, StaleKeepsCalm DEF Write
  <2>4. file' \in SUBSET Hosts
    BY <1>2 DEF Write, InvTypeOK, Proc
  <2> QED
    BY <1>2, <2>3, <2>4, MirrorUnchanged DEF Write, InvTypeOK
<1>3. ASSUME NEW p \in Procs, ListFails(p)
      PROVE  IInv'
  <2> DEFINE r == IF proc[p].op = "refresh" THEN Idle
                  ELSE [proc[p] EXCEPT !.at = "written", !.calm = FALSE]
  <2>1. r \in Proc /\ ~r.calm
    BY DEF InvTypeOK, Proc, Idle
  <2>2. proc' = [proc EXCEPT ![p] = r]
    BY <1>3 DEF ListFails
  <2>3. CalmOK' /\ proc' \in [Procs -> Proc]
    BY <1>3, <2>1, <2>2, OwnKeepsCalm DEF ListFails
  <2> QED
    BY <1>3, <2>3, MirrorUnchanged DEF ListFails, InvTypeOK
<1>4. ASSUME NEW p \in Procs, Store(p) \/ Restore(p)
      PROVE  IInv'
  <2>1. CalmOK' /\ proc' \in [Procs -> Proc]
    BY <1>4, IdleKeepsCalm DEF Store, Restore
  <2>2. file \in {None} \cup SUBSET Hosts
    BY DEF InvTypeOK
  <2>3. cache' = file /\ Sync(file)
    BY <1>4 DEF Store, Restore, StoreFile
  <2>4. /\ ObjectsMirrorCache'
        /\ cache' \in {None} \cup SUBSET Hosts
        /\ servers' \in SUBSET Hosts
        /\ edited' \in SUBSET Hosts
    BY <2>2, <2>3, SyncMirrors
  <2> QED
    BY <1>4, <2>1, <2>4 DEF Store, Restore, InvTypeOK
<1>5. ASSUME NEW p \in Procs, NEW targets \in SUBSET Hosts, StopReads(p, targets)
      PROVE  IInv'
  <2> DEFINE r == [proc[p] EXCEPT !.at = "stopping", !.seen = targets, !.calm = FALSE]
  <2>1. r \in Proc /\ ~r.calm
    <3>1. proc[p] \in Proc
      BY DEF InvTypeOK
    <3> QED
      BY <3>1 DEF Proc
  <2>2. proc' = [proc EXCEPT ![p] = r]
    BY <1>5 DEF StopReads, InvTypeOK
  <2>3. CalmOK' /\ proc' \in [Procs -> Proc]
    BY <1>5, <2>1, <2>2, OwnKeepsCalm DEF StopReads
  <2> QED
    BY <1>5, <2>3, MirrorUnchanged DEF StopReads, InvTypeOK
<1>6. ASSUME NEW p \in Procs, Stops(p)
      PROVE  IInv'
  <2> DEFINE r == IF proc[p].op = "stop" THEN [proc[p] EXCEPT !.at = "stopped"] ELSE Idle
  <2>1. r \in Proc
    BY DEF InvTypeOK, Proc, Idle
  <2>2. ~r.calm
    BY <1>6 DEF InvTypeOK, Proc, Idle, CalmOK, Stops
  <2>3. proc' = [Stale(p) EXCEPT ![p] = r]
    BY <1>6, StaleType DEF Stops
  <2>4. CalmOK' /\ proc' \in [Procs -> Proc]
    BY <2>1, <2>2, <2>3, StaleKeepsCalm
  <2> QED
    BY <1>6, <2>4, MirrorUnchanged DEF Stops, InvTypeOK
<1>7. ASSUME NEW p \in Procs, NEW gone \in SUBSET Hosts, StopFails(p, gone)
      PROVE  IInv'
  <2>1. Idle \in Proc /\ ~Idle.calm
    BY DEF Idle, Proc
  <2>2. CalmOK' /\ proc' \in [Procs -> Proc]
    BY <1>7, <2>1, StaleKeepsCalm DEF StopFails
  <2> QED
    BY <1>7, <2>2, MirrorUnchanged DEF StopFails, InvTypeOK
<1>8. ASSUME NEW p \in Procs, Relist(p)
      PROVE  IInv'
  <2> DEFINE r == [proc[p] EXCEPT !.at = "relisted", !.seen = cloud, !.calm = TRUE]
  <2>1. r \in Proc /\ r.at = "relisted" /\ r.seen = cloud
    BY DEF InvTypeOK, Proc
  <2>2. proc' = [proc EXCEPT ![p] = r]
    BY <1>8 DEF Relist, InvTypeOK
  <2>3. CalmOK' /\ proc' \in [Procs -> Proc]
    BY <1>8, <2>1, <2>2, OwnKeepsCalm DEF Relist
  <2> QED
    BY <1>8, <2>3, MirrorUnchanged DEF Relist, InvTypeOK
<1>9. ASSUME NEW p \in Procs, Rewrite(p)
      PROVE  IInv'
  <2> DEFINE r == [proc[p] EXCEPT !.at = "rewritten"]
  <2>1. r \in Proc /\ (r.calm => r.seen = cloud) /\ r.at = "rewritten" /\ r.seen = proc[p].seen
    BY DEF InvTypeOK, Proc, CalmOK
  <2>2. proc' = [Stale(p) EXCEPT ![p] = r]
    BY <1>9, StaleType DEF Rewrite
  <2>3. CalmOK' /\ proc' \in [Procs -> Proc]
    BY <1>9, <2>1, <2>2, StaleKeepsCalm DEF Rewrite
  <2>4. file' \in SUBSET Hosts
    BY <1>9 DEF Rewrite, InvTypeOK, Proc
  <2> QED
    BY <1>9, <2>3, <2>4, MirrorUnchanged DEF Rewrite, InvTypeOK
<1>10. ASSUME NEW p \in Procs, NEW op \in Ops, NEW h \in Hosts, Destroy(p, op, h)
       PROVE  IInv'
  <2> DEFINE r == [at |-> "destroying", op |-> op, host |-> h, seen |-> {}, calm |-> FALSE]
  <2>1. r \in Proc /\ ~r.calm
    BY DEF InvTypeOK, Proc
  <2>2. CalmOK' /\ proc' \in [Procs -> Proc]
    BY <1>10, <2>1, OwnKeepsCalm DEF Destroy
  <2> QED
    BY <1>10, <2>2, MirrorUnchanged DEF Destroy, InvTypeOK
<1>11. ASSUME NEW p \in Procs, Destroyed(p)
       PROVE  IInv'
  <2> DEFINE r == [proc[p] EXCEPT !.at = "destroyed"]
  <2>1. r \in Proc
    BY DEF InvTypeOK, Proc
  <2>2. ~r.calm
    BY <1>11 DEF InvTypeOK, Proc, CalmOK, Destroyed
  <2>3. proc' = [Stale(p) EXCEPT ![p] = r]
    BY <1>11, StaleType DEF Destroyed
  <2>4. CalmOK' /\ proc' \in [Procs -> Proc]
    BY <2>1, <2>2, <2>3, StaleKeepsCalm
  <2> QED
    BY <1>11, <2>4, MirrorUnchanged DEF Destroyed, InvTypeOK
<1>12. ASSUME NEW p \in Procs, DropHost(p)
       PROVE  IInv'
  <2>1. CalmOK' /\ proc' \in [Procs -> Proc]
    BY <1>12, IdleKeepsCalm DEF DropHost
  <2>2. Without(proc[p].host) \in {None} \cup SUBSET Hosts
    BY DEF InvTypeOK, Without
  <2>3. /\ ObjectsMirrorCache'
        /\ cache' \in {None} \cup SUBSET Hosts
        /\ servers' \in SUBSET Hosts
        /\ edited' \in SUBSET Hosts
    BY <1>12, <2>2, SyncMirrors DEF DropHost
  <2> QED
    BY <1>12, <2>1, <2>3 DEF DropHost, InvTypeOK
<1>13. ASSUME NEW p \in Procs, DropObject(p)
       PROVE  IInv'
  <2>1. CalmOK' /\ proc' \in [Procs -> Proc]
    BY <1>13, IdleKeepsCalm DEF DropObject
  <2>2. /\ cache' \in {None} \cup SUBSET Hosts
        /\ servers' \in SUBSET Hosts
        /\ edited' \in SUBSET Hosts
    BY <1>13 DEF DropObject, InvTypeOK, Without
  <2>3. ObjectsMirrorCache'
    BY <1>13 DEF DropObject, InvTypeOK, Without, ObjectsMirrorCache
  <2> QED
    BY <1>13, <2>1, <2>2, <2>3 DEF DropObject, InvTypeOK
<1>14. ASSUME NEW p \in Procs, GivesUp(p)
       PROVE  IInv'
  <2>1. CalmOK' /\ proc' \in [Procs -> Proc]
    BY <1>14, IdleKeepsCalm DEF GivesUp
  <2> QED
    BY <1>14, <2>1, MirrorUnchanged DEF GivesUp, InvTypeOK
<1>15. ASSUME NEW h \in Hosts, CloudChanges(h)
       PROVE  IInv'
  <2>1. proc' \in [Procs -> Proc] /\ \A q \in Procs : ~proc'[q].calm
    BY <1>15, CalmLostType DEF CloudChanges, InvTypeOK
  <2>2. cloud' \in SUBSET Hosts
    BY <1>15 DEF CloudChanges, InvTypeOK
  <2> QED
    BY <1>15, <2>1, <2>2, MirrorUnchanged DEF CloudChanges, InvTypeOK, CalmOK
<1>16. ASSUME SyncType
       PROVE  IInv'
  <2>1. /\ ObjectsMirrorCache'
        /\ servers' \in SUBSET Hosts
        /\ edited' \in SUBSET Hosts
    BY <1>16, SyncKeepsMirror DEF SyncType
  <2> QED
    BY <1>16, <2>1 DEF SyncType, InvTypeOK, CalmOK
<1>17. ASSUME NEW h \in Hosts, EditObject(h)
       PROVE  IInv'
  <2>1. ObjectsMirrorCache'
    BY <1>17 DEF EditObject, ObjectsMirrorCache
  <2> QED
    BY <1>17, <2>1 DEF EditObject, InvTypeOK, CalmOK
<1>18. ASSUME InvRestart
       PROVE  IInv'
  <2> DEFINE source == IF cache = None THEN file' ELSE cache
  <2>1. proc' \in [Procs -> Proc] /\ \A q \in Procs : ~proc'[q].calm
    BY <1>18 DEF InvRestart, Proc, Idle
  <2>2. file' \in {None} \cup SUBSET Hosts /\ source \in {None} \cup SUBSET Hosts
    BY <1>18 DEF InvRestart, InvTypeOK
  <2>3. CASE source \in {None, {}}
    <3>1. UNCHANGED <<cache, servers, edited>>
      BY <1>18, <2>3 DEF InvRestart
    <3> QED
      BY <1>18, <2>1, <2>2, <3>1, MirrorUnchanged DEF InvRestart, InvTypeOK, CalmOK
  <2>4. CASE source \notin {None, {}}
    <3>1. servers' = source /\ edited' = {} /\ UNCHANGED <<cache, cloud>>
      BY <1>18, <2>4 DEF InvRestart
    <3>2. cache # None => servers' = cache
      BY <3>1
    <3>3. ObjectsMirrorCache'
      BY <3>1, <3>2 DEF ObjectsMirrorCache
    <3>4. servers' \in SUBSET Hosts
      BY <2>2, <2>4, <3>1
    <3> QED
      BY <2>1, <2>2, <3>1, <3>3, <3>4 DEF InvTypeOK, CalmOK
  <2> QED
    BY <2>3, <2>4
<1>19. CASE UNCHANGED invVars
  BY <1>19 DEF invVars, InvTypeOK, ObjectsMirrorCache, CalmOK
<1> QED
  BY <1>1, <1>2, <1>3, <1>4, <1>5, <1>6, <1>7, <1>8, <1>9, <1>10, <1>11, <1>12, <1>13,
     <1>14, <1>15, <1>16, <1>17, <1>18, <1>19 DEF InvNext

\* The invariant holds in every reachable state.
THEOREM InvInvariance == InvSpec => []IInv
BY InitIInv, NextIInv, PTL DEF InvSpec

\* Type correctness.
THEOREM InvTypeCorrect == InvSpec => []InvTypeOK
<1>1. IInv => InvTypeOK
  BY DEF IInv
<1> QED
  BY <1>1, InvInvariance, PTL

\* The cache, which the dashboard shows, and the server objects never
\* disagree on a server nobody edited by hand while the cache has a host.
THEOREM MirrorCorrect == InvSpec => []ObjectsMirrorCache
<1>1. IInv => ObjectsMirrorCache
  BY DEF IInv
<1> QED
  BY <1>1, InvInvariance, PTL

\* A refresh that nothing overlapped repairs the cache and the objects.
THEOREM RefreshCorrect == InvSpec => RefreshAloneIsExact
<1>1. ASSUME IInv, InvNext,
             NEW p \in Procs, proc[p].calm, Store(p) \/ Restore(p)
      PROVE  cache' = cloud /\ (cloud # {} => servers' = cloud)
  <2>1. file = cloud
    BY <1>1 DEF IInv, CalmOK, Store, Restore
  <2>2. cloud # None /\ cloud \in SUBSET Hosts
    BY <1>1 DEF IInv, InvTypeOK
  <2>3. cache' = cloud /\ Sync(cloud)
    BY <1>1, <2>1 DEF Store, Restore, StoreFile
  <2> QED
    BY <2>2, <2>3 DEF Sync, Source
<1>2. IInv /\ [InvNext]_invVars =>
        [\A p \in Procs :
            (proc[p].calm /\ (Store(p) \/ Restore(p))) =>
                /\ cache' = cloud
                /\ cloud # {} => servers' = cloud]_invVars
  BY <1>1
<1> QED
  BY <1>2, InvInvariance, PTL DEF InvSpec, RefreshAloneIsExact

\* A sync from the cache takes no object from a host that is in the cache.
LEMMA SyncKeepsCached ==
    ASSUME InvTypeOK, NEW c \in SUBSET Hosts, NEW h \in servers, Sync(c), c # {} => h \in c
    PROVE  h \in servers'
<1>1. Source(c) = c
  BY DEF Source
<1> QED
  BY <1>1 DEF Sync

\* No step takes the object from a running server, unless it destroys that
\* server, edits objects by hand, or stores a listing that others overtook.
THEOREM LiveServerKept == InvSpec => LiveServerStays
<1>1. ASSUME IInv, InvNext, NEW h \in (servers \cap cloud) \ edited, h \notin servers',
             cache # None, h \notin edited',
             ~ \E p \in Procs : proc[p].at = "destroyed" /\ proc[p].host = h,
             ~ \E p \in Procs : ~proc[p].calm /\ (Store(p) \/ Restore(p))
      PROVE  FALSE
  <2>1. h \in Hosts /\ cache \in SUBSET Hosts
    BY <1>1 DEF IInv, InvTypeOK
  <2>2. cache # {} => h \in cache
    BY <1>1, <2>1 DEF IInv, ObjectsMirrorCache
  <2>3. ASSUME NEW p \in Procs, Store(p) \/ Restore(p)
        PROVE  FALSE
    <3>1. proc[p].calm
      BY <1>1, <2>3
    <3>2. file = cloud
      BY <1>1, <2>3, <3>1 DEF IInv, CalmOK, Store, Restore
    <3>3. Sync(cloud) /\ cloud \in SUBSET Hosts
      BY <1>1, <2>3, <3>2 DEF Store, Restore, StoreFile, IInv, InvTypeOK
    <3> QED
      BY <1>1, <3>3, SyncKeepsCached DEF IInv
  <2>4. ASSUME NEW p \in Procs, DropHost(p)
        PROVE  FALSE
    <3>1. proc[p].host # h
      BY <1>1, <2>4 DEF DropHost
    <3>2. Without(proc[p].host) = cache \ {proc[p].host}
      BY <1>1 DEF Without
    <3>3. Sync(cache \ {proc[p].host})
      BY <2>4, <3>2 DEF DropHost
    <3> QED
      BY <1>1, <2>1, <2>2, <3>1, <3>3, SyncKeepsCached DEF IInv
  <2>5. ASSUME NEW p \in Procs, DropObject(p)
        PROVE  FALSE
    BY <1>1, <2>5 DEF DropObject
  <2>6. CASE SyncType
    BY <1>1, <2>1, <2>2, <2>6, SyncKeepsCached DEF SyncType, IInv
  <2>7. ASSUME NEW g \in Hosts, EditObject(g)
        PROVE  FALSE
    BY <1>1, <2>7 DEF EditObject
  <2>8. CASE InvRestart
    BY <1>1, <2>1, <2>2, <2>8 DEF InvRestart
  <2>9. servers' # servers
    BY <1>1
  <2> QED
    BY <1>1, <2>3, <2>4, <2>5, <2>6, <2>7, <2>8, <2>9
       DEF InvNext, List, Write, ListFails, StopReads, Stops, StopFails, Relist, Rewrite,
           Destroy, Destroyed, GivesUp, CloudChanges
<1>2. IInv /\ [InvNext]_invVars =>
        [\A h \in (servers \cap cloud) \ edited :
            h \notin servers' =>
                \/ cache = None
                \/ h \in edited'
                \/ \E p \in Procs : proc[p].at = "destroyed" /\ proc[p].host = h
                \/ \E p \in Procs : ~proc[p].calm /\ (Store(p) \/ Restore(p))]_invVars
  BY <1>1
<1> QED
  BY <1>2, InvInvariance, PTL DEF InvSpec, LiveServerStays
=============================================================================
