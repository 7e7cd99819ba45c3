--------------------------- MODULE InventorySync ---------------------------
(***************************************************************************)
(* The four places the backend knows the servers from, each derived from   *)
(* the one before: the cloud, which playbooks and people change; the file  *)
(* /inventory/vultr.yml, which one playbook writes from the cloud; the     *)
(* instances_cache in the database; and the inventory objects of type      *)
(* server, which app/inventory_sync.py makes from the cache.               *)
(*                                                                         *)
(* A playbook is a process of its own and goes on whatever the event loop  *)
(* does; what a job does after it runs on the event loop, in one step.     *)
(* After a stop the event loop itself waits for the playbook.              *)
(*                                                                         *)
(* Abstracted: what is known of a server, and the credentials.             *)
(***************************************************************************)
EXTENDS Naturals

CONSTANTS
    Hosts,  \* the names and labels of servers
    Procs,  \* bound: how many of these jobs run at a time
    None    \* no file, and Python's None or {} for the cache

ASSUME InventorySyncAssumption ==
    /\ \A S \in SUBSET Hosts : S # None
    /\ None \notin Hosts

VARIABLES
    cloud,    \* the servers that exist
    file,     \* the hosts in the inventory file, or None
    cache,    \* the hosts in instances_cache, or None
    servers,  \* the hosts that have an inventory object
    edited,   \* history: objects created or deleted by hand since a sync
    proc      \* the jobs

invVars == <<cloud, file, cache, servers, edited, proc>>

Ops == {"refresh", "stop", "script_stop", "stop_instance", "destroy"}

\* host: the server a stop_instance or a destroy is about; seen: what the
\* playbook has read; calm, a history flag: no one else has written the cloud
\* or the file since.
Proc == [at : {"idle", "listed", "written", "stopping", "stopped", "relisted",
               "rewritten", "destroying", "destroyed"},
         op : Ops \cup {None}, host : Hosts \cup {None}, seen : SUBSET Hosts,
         calm : BOOLEAN]

Idle == [at |-> "idle", op |-> None, host |-> None, seen |-> {}, calm |-> FALSE]

InvTypeOK ==
    /\ cloud \in SUBSET Hosts
    /\ file \in {None} \cup SUBSET Hosts
    /\ cache \in {None} \cup SUBSET Hosts
    /\ servers \in SUBSET Hosts
    /\ edited \in SUBSET Hosts
    /\ proc \in [Procs -> Proc]

InvInit ==
    /\ cloud \in SUBSET Hosts
    /\ file = None
    /\ cache = None
    /\ servers = {}
    /\ edited = {}
    /\ proc = [p \in Procs |-> Idle]

\* The event loop waits in subprocess.run for the playbook of a stop.
Blocked == \E p \in Procs : proc[p].at \in {"relisted", "rewritten"}

\* The map of jobs after p has done what makes the others' listings stale.
Stale(p) == [q \in Procs |-> IF q = p THEN proc[q] ELSE [proc[q] EXCEPT !.calm = FALSE]]

(***************************************************************************)
(* VultrInventorySync.sync: from the cache, or from the file when there is *)
(* no cache.  With no hosts at all it returns before it removes anything.  *)
(***************************************************************************)

\* Mutant: prefers the file.
MutantSource(c) == IF file = None THEN c ELSE file

Source(c) == IF c = None THEN file ELSE c

\* Mutant: objects of servers that are gone are not removed.
MutantSync(c) ==
    IF Source(c) \in {None, {}} THEN UNCHANGED <<servers, edited>>
    ELSE servers' = servers \cup Source(c) /\ edited' = {}

Sync(c) ==
    IF Source(c) \in {None, {}} THEN UNCHANGED <<servers, edited>>
    ELSE servers' = Source(c) /\ edited' = {}

(***************************************************************************)
(* generate-inventory.yaml, first command of a refresh, of a stop and of   *)
(* the action script_stop, and of the refresh action of the server type.   *)
(***************************************************************************)

\* The playbook asks the cloud.
List(p, op) ==
    /\ proc[p].at = "idle"
    /\ op \in {"refresh", "stop", "script_stop"}
    /\ proc' = [proc EXCEPT ![p] = [at |-> "listed", op |-> op, host |-> None,
                                    seen |-> cloud, calm |-> TRUE]]
    /\ UNCHANGED <<cloud, file, cache, servers, edited>>

Write(p) ==
    /\ proc[p].at = "listed"
    /\ file' = proc[p].seen
    /\ proc' = [Stale(p) EXCEPT ![p].at = "written"]
    /\ UNCHANGED <<cloud, cache, servers, edited>>

\* Mutant: the job is left in a state of its own.
MutantListFails(p) ==
    /\ proc[p].at = "listed"
    /\ proc' = [proc EXCEPT ![p].at = "failed"]
    /\ UNCHANGED <<cloud, file, cache, servers, edited>>

\* The playbook fails.  A refresh is over; a stop does not ask and goes on.
ListFails(p) ==
    /\ proc[p].at = "listed"
    /\ proc' = [proc EXCEPT ![p] = IF @.op = "refresh" THEN Idle
                                   ELSE [@ EXCEPT !.at = "written", !.calm = FALSE]]
    /\ UNCHANGED <<cloud, file, cache, servers, edited>>

\* The file goes to the cache and the cache to the objects.
StoreFile ==
    /\ cache' = file
    /\ Sync(file)

\* _run_refresh, and _sync_server_inventory after the refresh action.
Store(p) ==
    /\ proc[p].at = "written"
    /\ proc[p].op = "refresh"
    /\ ~Blocked
    /\ StoreFile
    /\ proc' = [proc EXCEPT ![p] = Idle]
    /\ UNCHANGED <<cloud, file>>

(***************************************************************************)
(* stop-instances.yaml, of _run_stop, _run_stop_all and script_stop.       *)
(***************************************************************************)

\* The playbook reads the inventory file; service_filter picks some hosts.
StopReads(p, targets) ==
    /\ proc[p].at = "written"
    /\ proc[p].op \in {"stop", "script_stop"}
    /\ ~Blocked
    /\ targets \subseteq (IF file = None THEN {} ELSE file)
    /\ proc' = [proc EXCEPT ![p].at = "stopping", ![p].seen = targets, ![p].calm = FALSE]
    /\ UNCHANGED <<cloud, file, cache, servers, edited>>

Stops(p) ==
    /\ proc[p].at = "stopping"
    /\ cloud' = cloud \ proc[p].seen
    /\ proc' = [Stale(p) EXCEPT ![p] = IF @.op = "stop" THEN [@ EXCEPT !.at = "stopped"]
                                       ELSE Idle]
    /\ UNCHANGED <<file, cache, servers, edited>>

\* Some servers are gone, and nothing follows.
StopFails(p, gone) ==
    /\ proc[p].at = "stopping"
    /\ gone \subseteq proc[p].seen
    /\ cloud' = cloud \ gone
    /\ proc' = [Stale(p) EXCEPT ![p] = Idle]
    /\ UNCHANGED <<file, cache, servers, edited>>

(***************************************************************************)
(* _refresh_cache_after_stop                                               *)
(***************************************************************************)
Relist(p) ==
    /\ proc[p].at = "stopped"
    /\ ~Blocked
    /\ proc' = [proc EXCEPT ![p].at = "relisted", ![p].seen = cloud, ![p].calm = TRUE]
    /\ UNCHANGED <<cloud, file, cache, servers, edited>>

Rewrite(p) ==
    /\ proc[p].at = "relisted"
    /\ file' = proc[p].seen
    /\ proc' = [Stale(p) EXCEPT ![p].at = "rewritten"]
    /\ UNCHANGED <<cloud, cache, servers, edited>>

Restore(p) ==
    /\ proc[p].at = "rewritten"
    /\ StoreFile
    /\ proc' = [proc EXCEPT ![p] = Idle]
    /\ UNCHANGED <<cloud, file>>

(***************************************************************************)
(* One server: stop_instance, by its label, and the destroy action of a    *)
(* server object.                                                          *)
(***************************************************************************)
Destroy(p, op, h) ==
    /\ proc[p].at = "idle"
    /\ ~Blocked
    /\ op \in {"stop_instance", "destroy"}
    /\ op = "destroy" => h \in servers
    /\ proc' = [proc EXCEPT ![p] = [at |-> "destroying", op |-> op, host |-> h,
                                    seen |-> {}, calm |-> FALSE]]
    /\ UNCHANGED <<cloud, file, cache, servers, edited>>

Destroyed(p) ==
    /\ proc[p].at = "destroying"
    /\ cloud' = cloud \ {proc[p].host}
    /\ proc' = [Stale(p) EXCEPT ![p].at = "destroyed"]
    /\ UNCHANGED <<file, cache, servers, edited>>

Without(h) == IF cache = None THEN None ELSE cache \ {h}

\* _run_stop_instance takes the host out of the cache and syncs.
DropHost(p) ==
    /\ proc[p].at = "destroyed"
    /\ proc[p].op = "stop_instance"
    /\ ~Blocked
    /\ cache' = Without(proc[p].host)
    /\ Sync(Without(proc[p].host))
    /\ proc' = [proc EXCEPT ![p] = Idle]
    /\ UNCHANGED <<cloud, file>>

\* Mutant: forgets the cache.
MutantDropObject(p) ==
    /\ proc[p].at = "destroyed"
    /\ proc[p].op = "destroy"
    /\ proc[p].host \in servers
    /\ ~Blocked
    /\ servers' = servers \ {proc[p].host}
    /\ edited' = edited \ {proc[p].host}
    /\ proc' = [proc EXCEPT ![p] = Idle]
    /\ UNCHANGED <<cloud, file, cache>>

\* _sync_server_inventory deletes the object it was started for, and does
\* not sync.
DropObject(p) ==
    /\ proc[p].at = "destroyed"
    /\ proc[p].op = "destroy"
    /\ proc[p].host \in servers
    /\ ~Blocked
    /\ cache' = Without(proc[p].host)
    /\ servers' = servers \ {proc[p].host}
    /\ edited' = edited \ {proc[p].host}
    /\ proc' = [proc EXCEPT ![p] = Idle]
    /\ UNCHANGED <<cloud, file>>

\* The job comes to its end without touching the database: its command
\* failed, whatever it had done by then; the write lock was held by a
\* suspended coroutine; or the object of a destroy is no longer there.
GivesUp(p) ==
    /\ \/ proc[p].at \in {"destroying", "destroyed", "rewritten", "relisted"}
       \/ proc[p].at = "written" /\ proc[p].op = "refresh"
    /\ ~Blocked \/ proc[p].at \in {"rewritten", "relisted"}
    /\ proc' = [proc EXCEPT ![p] = Idle]
    /\ UNCHANGED <<cloud, file, cache, servers, edited>>

(***************************************************************************)
(* The rest of the system.                                                 *)
(***************************************************************************)

\* A deployment or a script creates or destroys a server, or someone does it
\* at the provider's; none of them touches the file or the cache.
CloudChanges(h) ==
    /\ cloud' = IF h \in cloud THEN cloud \ {h} ELSE cloud \cup {h}
    /\ proc' = [q \in Procs |-> [proc[q] EXCEPT !.calm = FALSE]]
    /\ UNCHANGED <<file, cache, servers, edited>>

\* POST /api/inventory/server/sync
SyncType ==
    /\ ~Blocked
    /\ Sync(cache)
    /\ UNCHANGED <<cloud, file, cache, proc>>

\* POST and DELETE of /api/inventory/server, the bulk deletion included.
EditObject(h) ==
    /\ ~Blocked
    /\ servers' = IF h \in servers THEN servers \ {h} ELSE servers \cup {h}
    /\ edited' = edited \cup {h}
    /\ UNCHANGED <<cloud, file, cache, proc>>

\* The process, and with it every playbook, ends at any point and starts
\* again; /inventory is not a volume and may be gone.  The start syncs.
InvRestart ==
    /\ proc' = [p \in Procs |-> Idle]
    /\ file' \in {file, None}
    /\ LET source == IF cache = None THEN file' ELSE cache
       IN  IF source \in {None, {}} THEN UNCHANGED <<servers, edited>>
           ELSE servers' = source /\ edited' = {}
    /\ UNCHANGED <<cloud, cache>>

InvNext ==
    \/ \E p \in Procs, op \in Ops : List(p, op)
    \/ \E p \in Procs : Write(p)
    \/ \E p \in Procs : ListFails(p)
    \/ \E p \in Procs : Store(p)
    \/ \E p \in Procs, targets \in SUBSET Hosts : StopReads(p, targets)
    \/ \E p \in Procs : Stops(p)
    \/ \E p \in Procs, gone \in SUBSET Hosts : StopFails(p, gone)
    \/ \E p \in Procs : Relist(p)
    \/ \E p \in Procs : Rewrite(p)
    \/ \E p \in Procs : Restore(p)
    \/ \E p \in Procs, op \in Ops, h \in Hosts : Destroy(p, op, h)
    \/ \E p \in Procs : Destroyed(p)
    \/ \E p \in Procs : DropHost(p)
    \/ \E p \in Procs : DropObject(p)
    \/ \E p \in Procs : GivesUp(p)
    \/ \E h \in Hosts : CloudChanges(h)
    \/ SyncType
    \/ \E h \in Hosts : EditObject(h)
    \/ InvRestart

InvSpec == InvInit /\ [][InvNext]_invVars

(***************************************************************************)
(* Properties.                                                             *)
(***************************************************************************)

\* The dashboard and the health checks read the cache, the inventory pages
\* and the TTL cleanup read the objects.  As long as the cache has a host
\* they agree, but for objects edited by hand since the last sync: every way of
\* writing the one writes the other in the same step, some through the sync and
\* the destroy action without it.
ObjectsMirrorCache ==
    cache \notin {None, {}} => \A h \in Hosts \ edited : h \in servers <=> h \in cache

\* Refreshes repair: one that nothing overlapped leaves the cache equal to
\* the cloud, and the objects too when there is a server, whatever state
\* refreshes that did overlap, refused writes and restarts had left behind.
RefreshAloneIsExact ==
    [][\A p \in Procs :
        (proc[p].calm /\ (Store(p) \/ Restore(p))) =>
            /\ cache' = cloud
            /\ cloud # {} => servers' = cloud]_invVars

\* A server that exists keeps its object, unless it is being destroyed, its
\* object is edited by hand, or a listing from before its deployment is
\* stored.  Excepted too is a cache that was never stored: a sync that finds
\* none takes the hosts from the file, which may miss a server that has an
\* object.
LiveServerStays ==
    [][\A h \in (servers \cap cloud) \ edited :
        h \notin servers' =>
            \/ cache = None
            \/ h \in edited'
            \/ \E p \in Procs : proc[p].at = "destroyed" /\ proc[p].host = h
            \/ \E p \in Procs : ~proc[p].calm /\ (Store(p) \/ Restore(p))]_invVars

\* _refresh_cache_after_stop is called "so destroyed instances are removed
\* from the dashboard, health checks, and inventory".
StopRemovesObjects ==
    [][\A p \in Procs : (proc[p].calm /\ Restore(p)) => servers' \subseteq cloud]_invVars
=============================================================================
