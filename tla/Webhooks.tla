------------------------------ MODULE Webhooks ------------------------------
(***************************************************************************)
(* The webhooks of app/routes/webhook_routes.py on top of the job engine:  *)
(* a trigger starts a job and tracks it in its row, and a poller of its    *)
(* own copies the job's verdict to the row an hour later at most.          *)
(*                                                                         *)
(* A trigger reads its row before it awaits the request body and writes    *)
(* from what it has read; SQLAlchemy leaves out of the UPDATE the columns  *)
(* whose value has not changed since then.  Between the flush of that      *)
(* UPDATE and the commit at the end of the request it may await the        *)
(* delivery of a notification, and holds the write lock meanwhile.         *)
(***************************************************************************)
EXTENDS JobRunner

CONSTANTS
    Requests,  \* bound: the trigger requests external systems send
    Workload   \* bound: the kinds of job the webhooks start

ASSUME WebhooksAssumption ==
    /\ Workload \subseteq {"command", "action"}
    /\ None \notin Origins
    /\ JobIds \cap Origins = {}

VARIABLES
    hook,    \* the row of "webhook_endpoints" with that id
    req,     \* where the handler of a request stands
    poller,  \* the _update_webhook_status task of a job: its webhook, or None
    stored,  \* history: the triggers committed for a webhook
    clash    \* history: the webhooks a trigger of which was not alone

hookVars == <<vars, hook, req, poller, stored, clash>>

Hooks == Origins

Status == {"never", "running"} \cup Terminal

Webhook == [enabled : BOOLEAN, job : JobIds \cup {None}, status : Status, count : Nat]

\* read is the row as the handler's session has loaded it; alone, a history
\* flag: no other trigger or poller of the webhook was under way at the read.
Handler == [at : {"none", "body", "notifying", "over"}, hook : Hooks \cup {None},
            read : Webhook, job : JobIds \cup {None}, alone : BOOLEAN]

NewHook(enabled) == [enabled |-> enabled, job |-> None, status |-> "never", count |-> 0]
NoHandler == [at |-> "none", hook |-> None, read |-> NewHook(FALSE), job |-> None,
              alone |-> FALSE]
Answered == [NoHandler EXCEPT !.at = "over"]

HookTypeOK ==
    /\ TypeOK
    /\ hook \in [Hooks -> Webhook]
    /\ req \in [Requests -> Handler]
    /\ poller \in [JobIds -> Hooks \cup {None}]
    /\ stored \in [Hooks -> Nat]
    /\ clash \in SUBSET Hooks

HookInit ==
    /\ Init
    /\ hook \in [Hooks -> {NewHook(enabled) : enabled \in BOOLEAN}]
    /\ req = [r \in Requests |-> NoHandler]
    /\ poller = [j \in JobIds |-> None]
    /\ stored = [w \in Hooks |-> 0]
    /\ clash = {}

UnderWay(w) == {r \in Requests : req[r].hook = w /\ req[r].at \in {"body", "notifying"}}
PollersOf(w) == {j \in JobIds : poller[j] = w}

(***************************************************************************)
(* trigger_webhook.                                                        *)
(***************************************************************************)

\* The handler finds an enabled webhook and waits for the body.
Load(r, w) ==
    /\ req[r].at = "none"
    /\ w \in rows
    /\ hook[w].enabled
    /\ req' = [req EXCEPT ![r] = [at |-> "body", hook |-> w, read |-> hook[w], job |-> None,
                                  alone |-> UnderWay(w) = {} /\ PollersOf(w) = {}]]
    /\ UNCHANGED <<vars, hook, poller, stored, clash>>

\* The script is gone and the dispatch raises.
Abandon(r) ==
    /\ req[r].at = "body"
    /\ req' = [req EXCEPT ![r] = Answered]
    /\ UNCHANGED <<vars, hook, poller, stored, clash>>

\* named are the webhook's creator and the object of an inventory action, as
\* the row had them when it was read.
StartJob(j, kind, w, named) ==
    /\ named \in Named(kind)
    /\ Launch([i \in {j} |-> NewJob(kind, None, named \cup {w})], jobs, task)

\* The job is started before the row is flushed: when the webhook has been
\* deleted meanwhile, or the lock is held, the request fails and the job runs.
TriggerRefused(r, j, kind, named) ==
    /\ req[r].at = "body"
    /\ holder # None \/ req[r].hook \notin rows
    /\ StartJob(j, kind, req[r].hook, named)
    /\ req' = [req EXCEPT ![r] = Answered]
    /\ UNCHANGED <<records, rows, holder, crashes, hook, poller, stored, clash>>

\* The row is flushed, the poller created, and the handler has come to the
\* notification, the lock in its hands.
Trigger(r, j, kind, named) ==
    /\ req[r].at = "body"
    /\ holder = None
    /\ req[r].hook \in rows
    /\ StartJob(j, kind, req[r].hook, named)
    /\ poller' = [poller EXCEPT ![j] = req[r].hook]
    /\ req' = [req EXCEPT ![r].at = "notifying", ![r].job = j]
    /\ holder' = req[r].hook
    /\ UNCHANGED <<records, rows, crashes, hook, stored, clash>>

\* Mutant: the counter is left to someone else.
MutantTracked(row, read, j) == [row EXCEPT !.job = j, !.status = "running"]

\* The row after the commit of a trigger that had read read: a status that
\* already was "running" is not part of the UPDATE.
Tracked(row, read, j) ==
    [row EXCEPT !.job = j,
                !.count = read.count + 1,
                !.status = IF read.status = "running" THEN @ ELSE "running"]

\* Mutant: the session is never committed, nor closed.
MutantCommit(r) ==
    /\ req[r].at = "notifying"
    /\ req' = [req EXCEPT ![r] = Answered]
    /\ UNCHANGED <<vars, hook, poller, stored, clash>>

\* The notification has been delivered and the request commits.
Commit(r) ==
    /\ req[r].at = "notifying"
    /\ LET w == req[r].hook
       IN  /\ hook' = [hook EXCEPT ![w] = Tracked(@, req[r].read, req[r].job)]
           /\ stored' = [stored EXCEPT ![w] = @ + 1]
           /\ clash' = IF req[r].alone /\ UnderWay(w) = {r} /\ PollersOf(w) \subseteq {req[r].job}
                       THEN clash ELSE clash \cup {w}
    /\ holder' = None
    /\ req' = [req EXCEPT ![r] = Answered]
    /\ UNCHANGED <<jobs, task, records, rows, used, crashes, poller>>

\* POST /api/webhooks/{id}/test: the same without a body and a notification,
\* hence in one step; refused as above when the lock is held.
TestTrigger(w, j, kind, named) ==
    /\ w \in rows
    /\ hook[w].enabled
    /\ StartJob(j, kind, w, named)
    /\ IF holder = None
       THEN /\ hook' = [hook EXCEPT ![w] = Tracked(@, @, j)]
            /\ poller' = [poller EXCEPT ![j] = w]
            /\ stored' = [stored EXCEPT ![w] = @ + 1]
            /\ clash' = IF UnderWay(w) = {} /\ PollersOf(w) = {} THEN clash
                        ELSE clash \cup {w}
       ELSE UNCHANGED <<hook, poller, stored, clash>>
    /\ UNCHANGED <<records, rows, holder, crashes, req>>

(***************************************************************************)
(* _update_webhook_status.                                                 *)
(***************************************************************************)

\* Mutant: a status no reader of the row knows.
MutantPolledObject(row, verdict) == [row EXCEPT !.status = "done"]

\* Mutant: takes the end of the job for its success.
MutantPolled(row, verdict) == [row EXCEPT !.status = "completed"]

\* The verdict goes to the row, whichever job the row names by now.
Polled(row, verdict) == [row EXCEPT !.status = verdict]

\* The job has ended: the verdict is written if the webhook is still there,
\* unless the commit is refused; the task ends in every case.
Poll(j) ==
    /\ poller[j] # None
    /\ HasEnded(j)
    /\ hook' = IF poller[j] \in rows /\ holder = None
               THEN [hook EXCEPT ![poller[j]] = Polled(@, jobs[j].status)]
               ELSE hook
    /\ poller' = [poller EXCEPT ![j] = None]
    /\ UNCHANGED <<vars, req, stored, clash>>

\* The hour is over and the job still runs.
GiveUp(j) ==
    /\ poller[j] # None
    /\ Running(j)
    /\ poller' = [poller EXCEPT ![j] = None]
    /\ UNCHANGED <<vars, hook, req, stored, clash>>

(***************************************************************************)
(* The rest of the system.                                                 *)
(***************************************************************************)

\* PUT /api/webhooks/{id}
UpdateWebhook(w, enabled) ==
    /\ w \in rows
    /\ holder = None
    /\ hook' = [hook EXCEPT ![w].enabled = enabled]
    /\ UNCHANGED <<vars, req, poller, stored, clash>>

Others ==
    /\ \/ \E j \in JobIds : TaskStep(j)
       \/ \E r \in Rows : DeleteRow(r)
    /\ UNCHANGED <<hook, req, poller, stored, clash>>

\* A trigger that had not committed leaves no trace, nor do the pollers.
HookRestart ==
    /\ Restart
    /\ req' = [r \in Requests |-> IF req[r].at = "none" THEN req[r]
                                  ELSE Answered]
    /\ poller' = [j \in JobIds |-> None]
    /\ UNCHANGED <<hook, stored, clash>>

HookNext ==
    \/ \E r \in Requests, w \in Hooks : Load(r, w)
    \/ \E r \in Requests : Abandon(r)
    \/ \E r \in Requests : Commit(r)
    \/ \E r \in Requests, j \in JobIds \ used, kind \in Workload, named \in SUBSET (Users \cup Objects) :
            \/ Trigger(r, j, kind, named)
            \/ TriggerRefused(r, j, kind, named)
    \/ \E w \in Hooks, j \in JobIds \ used, kind \in Workload,
          named \in SUBSET ((Users \cup Objects) \cap rows) :
            TestTrigger(w, j, kind, named)
    \/ \E j \in JobIds : Poll(j)
    \/ \E j \in JobIds : GiveUp(j)
    \/ \E w \in Hooks, enabled \in BOOLEAN : UpdateWebhook(w, enabled)
    \/ Others
    \/ HookRestart

HookSpec == HookInit /\ [][HookNext]_hookVars

(***************************************************************************)
(* Properties.                                                             *)
(***************************************************************************)

JobStatus(j) ==
    IF j = None THEN "unknown"
    ELSE IF jobs[j] # None THEN jobs[j].status
    ELSE IF records[j] # None THEN records[j].status
    ELSE "unknown"

StatusMatches(w) ==
    hook[w].job # None =>
        /\ hook[w].status \in Terminal =>
               JobStatus(hook[w].job) \in {hook[w].status, "unknown"}
        /\ JobStatus(hook[w].job) = "running" => hook[w].status = "running"

\* A webhook whose triggers have not met shows the status of its last job,
\* late but never wrong, whatever is deleted, refused or restarted.
AloneStatusMatches == \A w \in Hooks \ clash : StatusMatches(w)

\* The counter never runs ahead of the triggers that were committed, and
\* counts them all unless two of them met.
CountsTriggers ==
    \A w \in Hooks :
        /\ hook[w].count <= stored[w]
        /\ w \notin clash => hook[w].count = stored[w]

\* The lock a trigger holds is released with it: the lock is in the hands of
\* one handler that awaits a delivery, or of one job's notification.
LockHasOwner ==
    holder # None =>
        \/ \E r \in Requests : req[r].at = "notifying" /\ req[r].hook = holder
        \/ holder \in JobIds /\ task[holder].at \in Notifying

\* The list shows last_status beside the link to last_job_id: they should be
\* about the same job.
HookStatusIsOfLastJob == \A w \in Hooks : StatusMatches(w)
=============================================================================
