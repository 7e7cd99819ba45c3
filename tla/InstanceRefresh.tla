--------------------------- MODULE InstanceRefresh ---------------------------
(* The Refresh button of an inventory list.  For the servers a job generates  *)
(* the inventory and syncs the objects, and the page polls it; for the other  *)
(* sources one call syncs; a type without a source has nothing to do.  Then   *)
(* the list is fetched again.  world numbers the states of the cloud, synced  *)
(* the one the objects on the server show.                                    *)
EXTENDS Naturals

CONSTANTS MaxAsked,  \* 120 in the source
          MaxWorld   \* bound on the changes in the cloud

ASSUME RefreshAssumption == MaxAsked \in Nat \ {0} /\ MaxWorld \in Nat \ {0}

VARIABLES source,      \* "vultr": with a job; "direct": one call; "none"
          step,        \* of the mutation: "idle", "asking", "waiting", "polling"
          asked,       \* iterations of its loop
          refreshJob,  \* the job of the last press: "none", "running", "listed",
                       \* "failed", "completed"
          world,       \* the cloud
          bare,        \* its states without a server
          file,        \* the state in the inventory file all jobs share, or 0
          late,        \* what another job has listed and not yet written, or 0
          synced,      \* what the objects on the server show
          pressed,     \* the world when Refresh was pressed
          missed,      \* what kept that refresh from showing it, see Misses
          toast,       \* how the last refresh ended
          due,         \* the list is to be fetched again
          listed       \* what the list shows

serverVars == <<file, late, synced, missed>>
cloudVars == <<world, bare>>
pageVars == <<source, pressed, listed>>
refreshVars == <<step, asked, refreshJob, toast, due, serverVars, cloudVars, pageVars>>

(* "emptied": the sync returned early, without a host to store; "raised": an  *)
(* error in it, which is only printed; "overtaken": another job's older       *)
(* listing was written over the job's.                                        *)
Misses == {"emptied", "raised", "overtaken"}

RefreshInit ==
    /\ source \in {"vultr", "direct", "none"}
    /\ step = "idle" /\ asked = 0 /\ refreshJob = "none"
    /\ world = 1 /\ bare \in SUBSET {1}
    /\ file = 0 /\ late = 0 /\ synced = 0 /\ pressed = 0 /\ missed = {}
    /\ toast = "none" /\ due = FALSE /\ listed = 0

-----------------------------------------------------------------------------
(* A job given up on is one of the others from now on.                        *)
PressRefresh ==
    /\ step = "idle"
    /\ step' = "asking" /\ asked' = 0 /\ toast' = "none" /\ refreshJob' = "none"
    /\ pressed' = world /\ missed' = {}
    /\ UNCHANGED <<source, file, late, synced, cloudVars, due, listed>>

(* Mutant: the list is left as it is.                                         *)
MutantEndRefresh(with) ==
    /\ step' = "idle" /\ due' = due /\ toast' = with

(* onSuccess and onError both invalidate the list.                            *)
EndRefresh(with) ==
    /\ step' = "idle" /\ due' = TRUE /\ toast' = with

Started ==
    /\ step = "asking" /\ source = "vultr"
    /\ step' = "waiting" /\ refreshJob' = "running"
    /\ UNCHANGED <<asked, toast, due, serverVars, cloudVars, pageVars>>

(* The call answers that all is well when the sync has raised an error, too.  *)
DirectSync ==
    /\ step = "asking" /\ source = "direct"
    /\ \/ synced' = world /\ UNCHANGED missed
       \/ missed' = missed \cup {"raised"} /\ UNCHANGED synced
    /\ EndRefresh("refreshed")
    /\ UNCHANGED <<asked, refreshJob, file, late, cloudVars, pageVars>>

NothingToSync ==
    /\ step = "asking" /\ source = "none"
    /\ EndRefresh("refreshed")
    /\ UNCHANGED <<asked, refreshJob, serverVars, cloudVars, pageVars>>

AskFails ==
    /\ step = "asking" /\ source # "none"
    /\ EndRefresh("failed")
    /\ UNCHANGED <<asked, refreshJob, serverVars, cloudVars, pageVars>>

(* Two seconds pass, then the job is asked for.  After MaxAsked polls the loop *)
(* ends as if the job had: its toast says refreshed, told apart here.         *)
TwoSeconds ==
    /\ step = "waiting"
    /\ step' = "polling"
    /\ UNCHANGED <<asked, refreshJob, toast, due, serverVars, cloudVars, pageVars>>

(* Mutant: the loop goes on while the job runs.                               *)
MutantPolled ==
    /\ step = "polling"
    /\ IF refreshJob = "failed" THEN EndRefresh("failed")
       ELSE IF refreshJob = "completed" THEN EndRefresh("refreshed")
       ELSE step' = "waiting" /\ UNCHANGED <<due, toast>>
    /\ UNCHANGED <<asked, refreshJob, serverVars, cloudVars, pageVars>>

(* Mutant: one poll too many.                                                 *)
MutantLastPoll ==
    /\ step = "polling"
    /\ asked' = asked + 1
    /\ IF refreshJob = "failed" THEN EndRefresh("failed")
       ELSE IF refreshJob = "completed" THEN EndRefresh("refreshed")
       ELSE IF asked' > MaxAsked THEN EndRefresh("gave up")
       ELSE step' = "waiting" /\ UNCHANGED <<due, toast>>
    /\ UNCHANGED <<refreshJob, serverVars, cloudVars, pageVars>>

Polled ==
    /\ step = "polling"
    /\ asked' = asked + 1
    /\ IF refreshJob = "failed" THEN EndRefresh("failed")
       ELSE IF refreshJob = "completed" THEN EndRefresh("refreshed")
       ELSE IF asked' = MaxAsked THEN EndRefresh("gave up")
       ELSE step' = "waiting" /\ UNCHANGED <<due, toast>>
    /\ UNCHANGED <<refreshJob, serverVars, cloudVars, pageVars>>

RefreshPollFails ==
    /\ step = "polling"
    /\ EndRefresh("failed")
    /\ UNCHANGED <<asked, refreshJob, serverVars, cloudVars, pageVars>>

-----------------------------------------------------------------------------
(* The server.  The playbook of the job lists the cloud into the file.        *)
JobLists ==
    /\ refreshJob = "running"
    /\ refreshJob' = "listed" /\ file' = world
    /\ UNCHANGED <<step, asked, toast, due, late, synced, missed, cloudVars, pageVars>>

(* A sync of what the file holds returns early when that has no host.         *)
Stored == IF file \in bare \cup {0} THEN synced ELSE file

(* When the playbook is over, _run_refresh reads the file, syncs and sets the *)
(* job completed in one step, whatever becomes of the sync.                   *)
JobSyncs ==
    /\ refreshJob = "listed"
    /\ refreshJob' = "completed"
    /\ \/ /\ synced' = Stored
          /\ missed' = IF file \in bare THEN missed \cup {"emptied"} ELSE missed
       \/ synced' = synced /\ missed' = missed \cup {"raised"}
    /\ UNCHANGED <<step, asked, toast, due, file, late, cloudVars, pageVars>>

JobFails ==
    /\ refreshJob \in {"running", "listed"}
    /\ refreshJob' = "failed"
    /\ UNCHANGED <<step, asked, toast, due, serverVars, cloudVars, pageVars>>

(* Any other job that lists the cloud: another refresh, a stop, a deployment. *)
OtherLists ==
    /\ source = "vultr" /\ late = 0
    /\ late' = world
    /\ UNCHANGED <<step, asked, refreshJob, toast, due, file, synced, missed, cloudVars, pageVars>>

OtherWrites ==
    /\ late # 0
    /\ file' = late /\ late' = 0
    /\ missed' = IF late < pressed /\ refreshJob \in {"listed", "completed"}
                 THEN missed \cup {"overtaken"} ELSE missed
    /\ UNCHANGED <<step, asked, refreshJob, toast, due, synced, cloudVars, pageVars>>

OtherSyncs ==
    /\ source = "vultr" /\ Stored # synced
    /\ synced' = Stored
    /\ UNCHANGED <<step, asked, refreshJob, toast, due, file, late, missed, cloudVars, pageVars>>

CloudChanges ==
    /\ world < MaxWorld
    /\ world' = world + 1
    /\ bare' \in {bare, bare \cup {world'}}
    /\ UNCHANGED <<step, asked, refreshJob, toast, due, serverVars, pageVars>>

FetchList ==
    /\ due
    /\ due' = FALSE /\ listed' = synced
    /\ UNCHANGED <<step, asked, refreshJob, toast, serverVars, cloudVars, source, pressed>>

RefreshNext ==
    \/ PressRefresh \/ Started \/ DirectSync \/ NothingToSync \/ AskFails
    \/ TwoSeconds \/ Polled \/ RefreshPollFails
    \/ JobLists \/ JobSyncs \/ JobFails
    \/ OtherLists \/ OtherWrites \/ OtherSyncs
    \/ CloudChanges \/ FetchList

(* Requests are answered, timers fire and the invalidated list is fetched;    *)
(* nothing is assumed of the jobs.                                            *)
RefreshFairness ==
    /\ WF_refreshVars(Started \/ DirectSync \/ NothingToSync)
    /\ WF_refreshVars(TwoSeconds) /\ WF_refreshVars(Polled)
    /\ WF_refreshVars(FetchList)

RefreshSpec == RefreshInit /\ [][RefreshNext]_refreshVars /\ RefreshFairness

-----------------------------------------------------------------------------
RefreshTypeOK ==
    /\ source \in {"vultr", "direct", "none"}
    /\ step \in {"idle", "asking", "waiting", "polling"}
    /\ asked \in 0 .. MaxAsked
    /\ (step \in {"waiting", "polling"} => asked < MaxAsked)
    /\ refreshJob \in {"none", "running", "listed", "failed", "completed"}
    /\ world \in 1 .. MaxWorld /\ bare \in SUBSET (1 .. MaxWorld)
    /\ file \in 0 .. MaxWorld /\ late \in 0 .. MaxWorld /\ synced \in 0 .. MaxWorld
    /\ pressed \in 0 .. MaxWorld /\ listed \in 0 .. MaxWorld
    /\ missed \in SUBSET Misses
    /\ toast \in {"none", "refreshed", "failed", "gave up"} /\ due \in BOOLEAN

(* Once the page says that the list is refreshed and has fetched it, the list *)
(* shows the cloud as it was when Refresh was pressed, or later, however many *)
(* jobs list it meanwhile: the job lists after the press, ends after its sync *)
(* and the list is invalidated after the job ("it also syncs inventory        *)
(* objects", InventoryHubPage.tsx:328).  The exceptions are the three Misses. *)
RefreshedShowsTheCloud ==
    toast = "refreshed" /\ ~due /\ missed = {} /\ source # "none" => listed >= pressed

(* The button does not spin for ever, whatever becomes of the job.            *)
RefreshEnds == step # "idle" ~> step = "idle"
=============================================================================
