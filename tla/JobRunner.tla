----------------------------- MODULE JobRunner -----------------------------
(***************************************************************************)
(* The job engine of the backend, AnsibleRunner of app/ansible_runner.py:  *)
(* the jobs it keeps in memory, the asyncio task that drives each of them, *)
(* and the rows of the "jobs" table that outlive the process.              *)
(*                                                                         *)
(* One asyncio event loop runs every handler and every task, so the code   *)
(* between two awaits that really suspend is one step.  Starting a job     *)
(* never suspends: the caller's "child.parent_job_id = parent.id" and      *)
(* "job.schedule_id = ..." happen before the task's first step.            *)
(*                                                                         *)
(* Abstracted: the text of the output, the arguments of the commands and   *)
(* what the commands do to the cloud (module InventorySync models that).   *)
(***************************************************************************)
EXTENDS Integers, Sequences, FiniteSets

CONSTANTS
    JobIds,       \* the ids uuid4()[:8] may produce; never produced twice
    Users,        \* rows of "users" a job may be attributed to
    Objects,      \* rows of "inventory_objects" a job may act on
    Origins,      \* rows of "scheduled_jobs" and "webhook_endpoints"
    MaxChildren,  \* bound: how many services or objects one bulk request names
    MaxCrashes,   \* bound: how often the process is restarted
    None          \* Python's None

ASSUME JobRunnerAssumption ==
    /\ None \notin JobIds
    /\ MaxChildren \in Nat \ {0}
    /\ MaxCrashes \in Nat

VARIABLES
    jobs,     \* AnsibleRunner.jobs: the Job held in memory for an id, or None
    task,     \* the asyncio task of that job
    records,  \* the row of table "jobs" with that id, or None
    rows,     \* the users, objects, schedules and webhooks that exist
    used,     \* ids produced so far
    holder,   \* who holds SQLite's write lock across an await, or None
    crashes   \* how often the process has been restarted

vars == <<jobs, task, records, rows, used, holder, crashes>>

Rows == Users \cup Objects \cup Origins

AtMostOne(S) == {{}} \cup {{x} : x \in S}

(***************************************************************************)
(* Kinds of job, by the shape of the coroutine that runs them.  "command"  *)
(* stands for deploy, stop, stop_all, script, refresh, costs,              *)
(* destroy_instance and snapshot sync: commands, then the verdict.         *)
(***************************************************************************)
Bulk  == {"bulk"}
Single == {"command", "action", "create_snapshot", "delete_snapshot",
           "restore_snapshot"}
Kinds == Single \cup Bulk

Terminal == {"completed", "failed"}
Phases == {"none", "new", "command", "report", "pause", "polling", "notify",
           "summary", "done", "dead"}

\* The phases in which the coroutine is inside notify().
Notifying == {"report", "notify", "summary"}

Job == [kind : Kinds, status : {"running"} \cup Terminal,
        parent : JobIds \cup {None}, refs : SUBSET Rows]
ASSUME NoneIsNoJob == None \notin Job

Task == [at : Phases, ok : BOOLEAN, kids : Seq(JobIds), next : Nat]

TaskAt(at) == [at |-> at, ok |-> FALSE, kids |-> <<>>, next |-> 1]
NoTask == TaskAt("none")
NewTask == TaskAt("new")
NewJob(kind, parent, refs) ==
    [kind |-> kind, status |-> "running", parent |-> parent, refs |-> refs]

TypeOK ==
    /\ jobs \in [JobIds -> Job \cup {None}]
    /\ task \in [JobIds -> Task]
    /\ records \in [JobIds -> Job \cup {None}]
    /\ rows \in SUBSET Rows
    /\ used \in SUBSET JobIds
    /\ holder \in JobIds \cup Origins \cup {None}
    /\ crashes \in Nat

Init ==
    /\ jobs = [j \in JobIds |-> None]
    /\ task = [j \in JobIds |-> NoTask]
    /\ records = [j \in JobIds |-> None]
    /\ rows = Rows
    /\ used = {}
    /\ holder = None
    /\ crashes = 0

InMemory(j) == jobs[j] # None
Running(j) == InMemory(j) /\ jobs[j].status = "running"

(***************************************************************************)
(* Starting jobs.                                                          *)
(***************************************************************************)

\* The effect of storing new jobs, given as a function from fresh ids to
\* Jobs, in runner.jobs and creating their tasks; old and t are the two maps
\* as the rest of the step leaves them.
Launch(new, old, t) ==
    /\ DOMAIN new \cap used = {}
    /\ used' = used \cup DOMAIN new
    /\ jobs' = [j \in JobIds |-> IF j \in DOMAIN new THEN new[j] ELSE old[j]]
    /\ task' = [j \in JobIds |-> IF j \in DOMAIN new THEN NewTask ELSE t[j]]

\* The rows a job's foreign keys may name: the user who asked (no one, for a
\* poller), the object an inventory action acts on, the schedule or webhook.
OwnObject(kind) == IF kind = "action" THEN AtMostOne(Objects) ELSE {{}}

Named(kind) == {user \cup object : user \in AtMostOne(Users), object \in OwnObject(kind)}

RefSets(kind) ==
    {named \cup origin :
        named \in Named(kind),
        origin \in IF kind \in {"command", "action"} THEN AtMostOne(Origins)
                  ELSE {{}}}

\* A handler, the scheduler, a webhook or a poller starts a job.
Request(j, kind, refs) ==
    /\ refs \subseteq rows
    /\ Launch([i \in {j} |-> NewJob(kind, None, refs)], jobs, task)
    /\ UNCHANGED <<records, rows, holder, crashes>>

\* What a rerun of a job of this kind dispatches to: the kinds the handler
\* does not name (bulk jobs and all of the snapshot jobs, the sync among the
\* commands included) fall through to the generic inventory action.
RerunKinds(kind) == IF kind = "command" THEN {"command", "action"} ELSE {"action"}

\* POST /api/jobs/{id}/rerun reads the record only, so a job that is still
\* running, or whose record was never stored, is "not found".
Rerun(j, original, kind, user) ==
    /\ records[original] # None
    /\ records[original].status # "running"
    /\ kind \in RerunKinds(records[original].kind)
    /\ user \in Users \cap rows
    /\ LET object == IF kind = "action"
                     THEN records[original].refs \cap Objects ELSE {}
       IN  Launch([i \in {j} |-> NewJob(kind, original, object \cup {user})],
                  jobs, task)
    /\ UNCHANGED <<records, rows, holder, crashes>>

(***************************************************************************)
(* Ending jobs.  The verdict and _persist_job run in one step; the insert  *)
(* is refused, and the refusal swallowed, when a foreign key of the record *)
(* names a row that does not exist, and when another suspended coroutine   *)
(* holds the write lock: the insert waits for it on the event loop's own   *)
(* thread, so the lock cannot be released before the busy timeout.  A      *)
(* notification that held it for this job has returned by then.            *)
(***************************************************************************)

Released(j) == IF holder = j THEN None ELSE holder

Persistable(j, job) ==
    /\ Released(j) = None
    /\ job.refs \subseteq rows
    /\ job.parent = None \/ records[job.parent] # None

\* Mutant: a third verdict, which no reader of the status knows.
MutantEnded(j, ok) == [jobs[j] EXCEPT !.status = IF ok THEN "completed" ELSE "stopped"]

Ended(j, ok) == [jobs[j] EXCEPT !.status = IF ok THEN "completed" ELSE "failed"]

\* Mutant: the record is written before the verdict is assigned.
MutantPersist(j, job) ==
    records' = IF Persistable(j, job) THEN [records EXCEPT ![j] = jobs[j]] ELSE records

Persist(j, job) ==
    records' = IF Persistable(j, job) THEN [records EXCEPT ![j] = job] ELSE records

Finish(j, ok) ==
    /\ jobs' = [jobs EXCEPT ![j] = Ended(j, ok)]
    /\ task' = [task EXCEPT ![j].at = "notify", ![j].ok = ok]
    /\ Persist(j, Ended(j, ok))
    /\ holder' = Released(j)
    /\ UNCHANGED <<rows, used, crashes>>

(***************************************************************************)
(* The coroutine of a single job.                                          *)
(***************************************************************************)

\* The first step of the task reaches the subprocess ...
StartCommand(j) ==
    /\ task[j].at = "new"
    /\ jobs[j].kind \in Single
    /\ task' = [task EXCEPT ![j].at = "command"]
    /\ UNCHANGED <<jobs, records, rows, used, holder, crashes>>

\* ... or finds the service directory, the script or the playbook gone, or
\* the action type unknown.

\* Mutant: the early return forgets _persist_job.
MutantFailAtStart(j) ==
    /\ task[j].at = "new"
    /\ jobs[j].kind \in {"command", "action"}
    /\ jobs' = [jobs EXCEPT ![j] = Ended(j, FALSE)]
    /\ task' = [task EXCEPT ![j].at = "notify"]
    /\ UNCHANGED <<records, rows, used, holder, crashes>>

FailAtStart(j) ==
    /\ task[j].at = "new"
    /\ jobs[j].kind \in {"command", "action"}
    /\ Finish(j, FALSE)

\* An exception nothing catches ends the task and leaves the job "running":
\* a vars_mapping value that is not a string, before the playbook runs; the
\* commit of _run_delete_snapshot when the database is locked, after it ran.
Die(j) ==
    /\ \/ task[j].at = "new" /\ jobs[j].kind = "action"
       \/ task[j].at = "command" /\ jobs[j].kind = "delete_snapshot" /\ holder # None
    /\ task' = [task EXCEPT ![j].at = "dead"]
    /\ UNCHANGED <<jobs, records, rows, used, holder, crashes>>

\* The kinds that send a notification of their own before the verdict; among
\* the commands it is a refresh of the costs that finds them over the budget.
Reports(kind, ok) ==
    \/ kind = "restore_snapshot"
    \/ kind \in {"create_snapshot", "delete_snapshot", "command"} /\ ok

CommandEnds(j, ok) ==
    /\ task[j].at = "command"
    /\ jobs[j].kind = "command" \/ ~Reports(jobs[j].kind, ok)
    /\ Finish(j, ok)

CommandEndsThenReports(j, ok) ==
    /\ task[j].at = "command"
    /\ Reports(jobs[j].kind, ok)
    /\ ~(jobs[j].kind = "restore_snapshot" /\ ok)
    /\ task' = [task EXCEPT ![j].at = "report", ![j].ok = ok]
    /\ UNCHANGED <<jobs, records, rows, used, holder, crashes>>

\* A restored snapshot is a new instance: a refresh job is started at once.
RestoreEnds(j, refresh) ==
    /\ task[j].at = "command"
    /\ jobs[j].kind = "restore_snapshot"
    /\ Launch([i \in {refresh} |-> NewJob("command", None, {})], jobs,
              [task EXCEPT ![j].at = "report", ![j].ok = TRUE])
    /\ UNCHANGED <<records, rows, holder, crashes>>

Reported(j) ==
    /\ task[j].at = "report"
    /\ jobs[j].kind # "create_snapshot"
    /\ Finish(j, task[j].ok)

\* After the notification a created snapshot is given 5 s ...
Pause(j) ==
    /\ task[j].at = "report"
    /\ jobs[j].kind = "create_snapshot"
    /\ task' = [task EXCEPT ![j].at = "pause"]
    /\ holder' = Released(j)
    /\ UNCHANGED <<jobs, records, rows, used, crashes>>

\* ... before it starts a sync job; the verdict follows in the same step.
CreateReported(j, sync) ==
    /\ task[j].at = "pause"
    /\ Launch([i \in {sync} |-> NewJob("command", None, {})],
              [jobs EXCEPT ![j] = Ended(j, TRUE)],
              [task EXCEPT ![j].at = "notify", ![j].ok = TRUE])
    /\ Persist(j, Ended(j, TRUE))
    /\ UNCHANGED <<rows, holder, crashes>>

\* notify() goes through the rules of the event in one session.  When an
\* in-app rule comes before an e-mail or a Slack rule, the rows it flushed
\* hold the write lock while the coroutine awaits the delivery.
NotifyHolding(j) ==
    /\ task[j].at \in Notifying
    /\ holder = None
    /\ holder' = j
    /\ UNCHANGED <<jobs, task, records, rows, used, crashes>>

\* _notify_job catches everything, and the session is committed or rolled
\* back at the end.  A bulk stop or deploy sends a summary after it.
Notified(j, next) ==
    /\ task[j].at \in {"notify", "summary"}
    /\ next = "summary" => task[j].at = "notify" /\ jobs[j].kind \in Bulk
    /\ holder' = Released(j)
    /\ task' = [task EXCEPT ![j].at = next]
    /\ UNCHANGED <<jobs, records, rows, used, crashes>>

(***************************************************************************)
(* Bulk jobs: the parent starts every child in one step, then waits for    *)
(* them in turn, once a second, until none is "running".                   *)
(***************************************************************************)

SetOf(kids) == {kids[i] : i \in DOMAIN kids}

\* kids[i] is the i-th child; the children of a bulk inventory action act on
\* an object each, own says which, those of bulk-stop and bulk-deploy on a
\* service.
StartChildren(p, kids, kind, own) ==
    /\ task[p].at = "new"
    /\ jobs[p].kind \in Bulk
    /\ Launch([j \in SetOf(kids) |-> NewJob(kind, p, jobs[p].refs \cup own[j])],
              jobs, [task EXCEPT ![p].at = "polling", ![p].kids = kids])
    /\ UNCHANGED <<records, rows, holder, crashes>>

\* Mutant: waits for "completed", not for the end of "running".
MutantPending(p) ==
    {i \in task[p].next .. Len(task[p].kids) :
        InMemory(task[p].kids[i]) /\ jobs[task[p].kids[i]].status # "completed"}

\* The children the parent has not been seen to pass that still run.
Pending(p) == {i \in task[p].next .. Len(task[p].kids) : Running(task[p].kids[i])}

\* The parent wakes up and moves on to the next child that still runs.
PollChildren(p) ==
    /\ task[p].at = "polling"
    /\ Pending(p) # {}
    /\ \E i \in Pending(p) :
        /\ \A k \in Pending(p) : i <= k
        /\ i # task[p].next
        /\ task' = [task EXCEPT ![p].next = i]
    /\ UNCHANGED <<jobs, records, rows, used, holder, crashes>>

\* Mutant: one failed child makes the bulk job fail.
MutantAllFailed(kids) == \E i \in DOMAIN kids : jobs[kids[i]].status # "completed"

AllFailed(kids) == \A i \in DOMAIN kids : jobs[kids[i]].status # "completed"

\* No child is left: the parent fails only if every child failed.
FinishBulk(p) ==
    /\ task[p].at = "polling"
    /\ Pending(p) = {}
    /\ Finish(p, ~AllFailed(task[p].kids))

(***************************************************************************)
(* The rest of the system.                                                 *)
(***************************************************************************)

\* Mutant: ON DELETE CASCADE in place of SET NULL.
MutantDeleteRow(r) ==
    /\ r \in rows
    /\ holder = None
    /\ rows' = rows \ {r}
    /\ records' = [j \in JobIds |-> IF records[j] # None /\ r \in records[j].refs
                                    THEN None ELSE records[j]]
    /\ UNCHANGED <<jobs, task, used, holder, crashes>>

\* A handler deletes a user, an object, a schedule or a webhook: the foreign
\* keys of the stored records are set to NULL, those of the jobs in memory
\* are not.
DeleteRow(r) ==
    /\ r \in rows
    /\ holder = None
    /\ rows' = rows \ {r}
    /\ records' = [j \in JobIds |-> IF records[j] = None THEN None
                                    ELSE [records[j] EXCEPT !.refs = @ \ {r}]]
    /\ UNCHANGED <<jobs, task, used, holder, crashes>>

\* The process stops, at any point, and starts again: nothing reloads
\* runner.jobs and no task is resumed.
Restart ==
    /\ crashes < MaxCrashes
    /\ crashes' = crashes + 1
    /\ jobs' = [j \in JobIds |-> None]
    /\ task' = [j \in JobIds |-> NoTask]
    /\ holder' = None
    /\ UNCHANGED <<records, rows, used>>

\* The children's ids: distinct, at least one, at most MaxChildren.
ChildLists == {s \in UNION {[1 .. n -> JobIds] : n \in 1 .. MaxChildren} :
                  \A a, b \in DOMAIN s : s[a] = s[b] => a = b}

TaskStep(j) ==
    \/ StartCommand(j)
    \/ FailAtStart(j)
    \/ Die(j)
    \/ \E ok \in BOOLEAN : CommandEnds(j, ok)
    \/ \E ok \in BOOLEAN : CommandEndsThenReports(j, ok)
    \/ \E refresh \in JobIds : RestoreEnds(j, refresh)
    \/ Reported(j)
    \/ Pause(j)
    \/ \E sync \in JobIds : CreateReported(j, sync)
    \/ NotifyHolding(j)
    \/ \E next \in {"summary", "done"} : Notified(j, next)
    \/ \E kids \in ChildLists, kind \in {"command", "action"} :
          \E own \in [SetOf(kids) -> OwnObject(kind)] : StartChildren(j, kids, kind, own)
    \/ PollChildren(j)
    \/ FinishBulk(j)

Next ==
    \/ \E j \in JobIds, kind \in Kinds : \E refs \in RefSets(kind) :
            Request(j, kind, refs)
    \/ \E j, original \in JobIds, kind \in {"command", "action"}, user \in Users :
            Rerun(j, original, kind, user)
    \/ \E j \in JobIds : TaskStep(j)
    \/ \E r \in Rows : DeleteRow(r)
    \/ Restart

\* The event loop resumes every task that can go on, and every command ends.
Fairness == \A j \in JobIds : WF_vars(TaskStep(j))

Spec == Init /\ [][Next]_vars /\ Fairness

(***************************************************************************)
(* Properties.                                                             *)
(***************************************************************************)

\* The children a bulk task of this process has started.
Children(p) == SetOf(task[p].kids)
IsChild(j) == \E p \in JobIds : j \in Children(p)
HasEnded(j) == InMemory(j) /\ jobs[j].status \in Terminal

\* A bulk job is over only when every child it started is, and it has failed
\* exactly when every child failed (_run_bulk_stop, _run_bulk_deploy and
\* _run_bulk_action wait for the children one after another, so this relies
\* on a child's verdict never being taken back).
BulkVerdict ==
    \A p \in JobIds :
        (HasEnded(p) /\ jobs[p].kind \in Bulk) =>
            /\ Children(p) # {}
            /\ \A c \in Children(p) : HasEnded(c)
            /\ jobs[p].status = "failed"
                   <=> \A c \in Children(p) : jobs[c].status = "failed"

\* The history holds verdicts only, those of the jobs in memory: the merged
\* list of GET /api/jobs never shows two truths, and a record never says
\* "running".
RecordsAreVerdicts ==
    \A j \in JobIds : records[j] # None =>
        /\ records[j].status \in Terminal
        /\ InMemory(j) => /\ jobs[j].status = records[j].status
                         /\ jobs[j].parent = records[j].parent
                         /\ records[j].refs = jobs[j].refs \cap rows

\* Only a foreign key or a lock loses a record: the step that ends a job which
\* is no child of a bulk job leaves it in the history when its rows exist and
\* nobody holds the lock.  For a rerun this needs the record of the original
\* to be still there.
RecordedAsItEnds ==
    [][\A j \in JobIds :
        (Running(j) /\ HasEnded(j)' /\ ~IsChild(j) /\ holder = None
            /\ jobs[j].refs \subseteq rows) => records'[j] # None]_vars

\* CloudLabManager/Architecture.md says of jobs that they are also persisted
\* to the job_records table; every job that has ended should be there.
EveryJobRecorded == \A j \in JobIds : HasEnded(j) => records[j] # None

\* A bulk job that polls comes to an end, unless the process restarts or the
\* task of a child has died of an exception.
BulkEnds ==
    \A p \in JobIds :
        (task[p].at = "polling") ~>
            (HasEnded(p) \/ ~InMemory(p) \/ \E c \in Children(p) : task[c].at = "dead")

\* The job engine implements the ledger the API shows.
Ledger == INSTANCE JobLedger WITH
    answer <- [j \in JobIds |->
                  IF jobs[j] # None THEN jobs[j].status
                  ELSE IF records[j] # None THEN records[j].status
                  ELSE "not found"],
    history <- {j \in JobIds : records[j] # None},
    born <- used

LedgerSpec == Ledger!LedgerSpec
=============================================================================
