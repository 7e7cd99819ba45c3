----------------------------- MODULE Scheduler -----------------------------
(***************************************************************************)
(* The background scheduler of app/scheduler.py on top of the job engine:  *)
(* every 30 s one task dispatches the schedules that are due and then      *)
(* copies the verdicts of the jobs it started to their schedules.          *)
(*                                                                         *)
(* Dispatching never suspends, so everything from the query of the due     *)
(* schedules to its commit, and on to the first notification that really   *)
(* waits for a mail or a Slack server, is one step.  While it waits there, *)
(* the verdicts noticed so far are in the session and not in the table.    *)
(***************************************************************************)
EXTENDS JobRunner

CONSTANTS
    Cleanups,  \* the schedules of the system task personal_instance_cleanup
    Workload   \* bound: the kinds of job that are started

ASSUME SchedulerAssumption ==
    /\ Cleanups \subseteq Origins
    /\ Workload \subseteq Kinds
    /\ None \notin Origins
    /\ (Users \cup Objects) \cap Origins = {}

VARIABLES
    sched,  \* the row of "scheduled_jobs" with that id
    tick,   \* where the scheduler's task stands
    loose   \* history: schedules that started a job nothing was checked against

schedVars == <<vars, sched, tick, loose>>

Schedules == Origins

\* next is next_run_at: NULL, in the future, or in the past; is_enabled is
\* next # "off", every writer keeps the two together.
Schedule == [next : {"off", "later", "due"}, skip : BOOLEAN,
             job : JobIds \cup {None}, status : {"never", "running"} \cup Terminal]

Asleep == [at |-> "asleep", mail |-> None, left |-> {},
           seen |-> [s \in Schedules |-> None]]

\* at "notifying": mail is the schedule being notified, left those still to
\* look at, seen the statuses assigned but not committed.
Ticks == [at : {"asleep", "notifying"}, mail : Schedules \cup {None},
          left : SUBSET Schedules, seen : [Schedules -> Terminal \cup {None}]]

SchedTypeOK ==
    /\ TypeOK
    /\ sched \in [Schedules -> Schedule]
    /\ tick \in Ticks
    /\ loose \in SUBSET Schedules

SchedInit ==
    /\ Init
    /\ sched \in [Schedules -> {[next |-> n, skip |-> k, job |-> None, status |-> "never"] :
                                   n \in {"off", "later"}, k \in BOOLEAN}]
    /\ tick = Asleep
    /\ loose = {}

(***************************************************************************)
(* What the scheduler knows of a job: the one in memory first, then its    *)
(* record.                                                                 *)
(***************************************************************************)
JobStatus(j) ==
    IF j = None THEN "unknown"
    ELSE IF jobs[j] # None THEN jobs[j].status
    ELSE IF records[j] # None THEN records[j].status
    ELSE "unknown"

\* Mutant: asks the table, which has no running jobs.
MutantIsJobRunning(j) == j # None /\ records[j] # None /\ records[j].status = "running"

IsJobRunning(j) == JobStatus(j) = "running"

\* Mutant: asks the table, where the record of a job may be missing.
MutantNoticed(row) == row.job # None /\ records[row.job] # None

\* Mutant: assigns whatever status the job has.
MutantNoticedAny(row) == row.job # None

Noticed(row) == JobStatus(row.job) \in Terminal

(***************************************************************************)
(* _update_completed_schedules: the loop goes through the schedules that   *)
(* say "running", assigns the verdicts it finds and notifies each of them. *)
(* It is suspended in the notification of mail with left still to go, or   *)
(* comes to the commit.  The UPDATE of a schedule that was deleted         *)
(* meanwhile matches no row, and a lock someone else holds refuses all of  *)
(* them: either way the whole session is rolled back.                      *)
(***************************************************************************)

\* The statuses assigned once every schedule of looked has been looked at.
Assigned(row, looked, seen) ==
    [s \in Schedules |-> IF s \in looked /\ Noticed(row[s]) THEN JobStatus(row[s].job)
                         ELSE seen[s]]

Committed(row, seen, lock) ==
    LET dirty == {s \in Schedules : seen[s] # None}
    IN  IF dirty \subseteq rows /\ lock = None
        THEN [s \in Schedules |-> IF s \in dirty THEN [row[s] EXCEPT !.status = seen[s]]
                                  ELSE row[s]]
        ELSE row

\* The loop runs on with queue to go through, from the table row, the lock
\* being held by lock, until it ends ...
LoopEnds(row, queue, seen, lock) ==
    /\ sched' = Committed(row, Assigned(row, queue, seen), lock)
    /\ tick' = Asleep
    /\ holder' = lock

\* ... or is suspended; an in-app rule before the rule that waits makes the
\* notification hold the lock.
LoopSuspends(row, queue, seen, lock, mail, left, holds) ==
    /\ mail \in queue \ left
    /\ left \subseteq queue
    /\ Noticed(row[mail])
    /\ holds => lock = None
    /\ sched' = row
    /\ tick' = [at |-> "notifying", mail |-> mail, left |-> left,
                seen |-> Assigned(row, queue \ left, seen)]
    /\ holder' = IF holds THEN mail ELSE lock

LoopRuns(row, queue, seen, lock) ==
    \/ LoopEnds(row, queue, seen, lock)
    \/ \E mail \in queue, left \in SUBSET queue, holds \in BOOLEAN :
            LoopSuspends(row, queue, seen, lock, mail, left, holds)

(***************************************************************************)
(* _check_and_dispatch, and the loop up to its first suspension.           *)
(***************************************************************************)

Due == {s \in Schedules \cap rows : sched[s].next = "due"}

\* The last job of the schedule still runs, and the schedule asks to skip.
Skipped == {s \in Due : sched[s].skip /\ IsJobRunning(sched[s].job)}

\* Mutant: a dispatch forgets to set last_status.
MutantDispatched(started, cleaned) ==
    [s \in Schedules |->
        IF s \in DOMAIN started
        THEN [sched[s] EXCEPT !.next = "later", !.job = started[s]]
        ELSE IF s \in Skipped THEN [sched[s] EXCEPT !.next = "later"]
        ELSE IF s \in cleaned
        THEN [sched[s] EXCEPT !.next = "later", !.status = "completed"]
        ELSE sched[s]]

\* started maps the schedules whose dispatch succeeds to their new jobs; the
\* cleanup task has no job of its own, and cleaned are those it completes.  A
\* dispatch that raises, for a script that is gone or in the midst of a
\* cleanup, leaves its row alone.
Dispatched(started, cleaned) ==
    [s \in Schedules |->
        IF s \in DOMAIN started
        THEN [sched[s] EXCEPT !.next = "later", !.job = started[s], !.status = "running"]
        ELSE IF s \in Skipped THEN [sched[s] EXCEPT !.next = "later"]
        ELSE IF s \in cleaned
        THEN [sched[s] EXCEPT !.next = "later", !.status = "completed"]
        ELSE sched[s]]

\* What a schedule orders: the kind of its job and the rows the job names,
\* its creator and the object an inventory action acts on.  Both are foreign
\* keys of the schedule, so they exist.
Orders == {order \in [kind : Workload \cap {"command", "action"}, refs : SUBSET (Users \cup Objects)] :
              order.refs \in Named(order.kind) /\ order.refs \subseteq rows}

\* The jobs a tick starts: one for each schedule of started, attributed to it,
\* and the destroy jobs of a cleanup.
LaunchedBy(started, ordered, destroys) ==
    /\ \A r, s \in DOMAIN started : started[r] = started[s] => r = s
    /\ destroys \cap SetOf(started) = {}
    /\ Launch([j \in destroys \cup SetOf(started) |->
                  IF j \in destroys THEN NewJob("command", None, {})
                  ELSE LET s == CHOOSE s \in DOMAIN started : started[s] = j
                       IN  NewJob(ordered[s].kind, None, ordered[s].refs \cup {s})],
              jobs, task)

Unchecked(started) == {s \in DOMAIN started : ~sched[s].skip}

\* The commit succeeds and the loop goes on with the schedules that say
\* "running", those just dispatched included.
Tick(started, ordered, cleaned, destroys) ==
    /\ holder = None \/ Dispatched(started, cleaned) = sched
    /\ LaunchedBy(started, ordered, destroys)
    /\ loose' = loose \cup Unchecked(started)
    /\ LET row == Dispatched(started, cleaned)
       IN  LoopRuns(row, {s \in Schedules \cap rows : row[s].status = "running"},
                    Asleep.seen, holder)
    /\ UNCHANGED <<records, rows, crashes>>

\* A suspended coroutine holds the lock: the commit is refused, the exception
\* ends the tick, and the jobs that were started run on unrecorded.
TickRefused(started, ordered, cleaned, destroys) ==
    /\ holder # None
    /\ Dispatched(started, cleaned) # sched
    /\ LaunchedBy(started, ordered, destroys)
    /\ loose' = loose \cup DOMAIN started
    /\ UNCHANGED <<records, rows, holder, crashes, sched, tick>>

\* The mail or Slack server answers, or fails, and the loop goes on.
Delivered ==
    /\ tick.at = "notifying"
    /\ LoopRuns(sched, tick.left, tick.seen,
                IF holder = tick.mail THEN None ELSE holder)
    /\ UNCHANGED <<jobs, task, records, rows, used, crashes, loose>>

(***************************************************************************)
(* The rest of the system.                                                 *)
(***************************************************************************)

\* The cron expression comes due.
ClockPasses(s) ==
    /\ s \in rows
    /\ sched[s].next = "later"
    /\ sched' = [sched EXCEPT ![s].next = "due"]
    /\ UNCHANGED <<vars, tick, loose>>

\* PUT /api/schedules/{id}: next_run_at is computed anew in every case.
UpdateSchedule(s, enabled, skip) ==
    /\ s \in rows
    /\ holder = None
    /\ sched' = [sched EXCEPT ![s].next = IF enabled THEN "later" ELSE "off",
                              ![s].skip = skip]
    /\ UNCHANGED <<vars, tick, loose>>

\* The steps of the job engine that are not the scheduler's.
Others ==
    /\ \/ \E j \in JobIds, kind \in Workload, refs \in AtMostOne(Users) : Request(j, kind, refs)
       \/ \E j, original \in JobIds, kind \in Workload, user \in Users : Rerun(j, original, kind, user)
       \/ \E j \in JobIds : TaskStep(j)
       \/ \E r \in Rows : DeleteRow(r)
    /\ UNCHANGED <<sched, tick, loose>>

SchedRestart ==
    /\ Restart
    /\ tick' = Asleep
    /\ loose' = {}
    /\ UNCHANGED sched

\* The dispatches that may succeed, and the destroy jobs a cleanup starts
\* before it ends or raises.
Starts == UNION {[D -> JobIds \ used] : D \in SUBSET (Due \ (Skipped \cup Cleanups))}
Destroys == IF Due \cap Cleanups = {} THEN {{}} ELSE SUBSET (JobIds \ used)

AnyTick ==
    /\ tick.at = "asleep"
    /\ \E started \in Starts, cleaned \in SUBSET (Due \cap Cleanups), destroys \in Destroys :
          \E ordered \in [DOMAIN started -> Orders] :
              \/ Tick(started, ordered, cleaned, destroys)
              \/ TickRefused(started, ordered, cleaned, destroys)

SchedNext ==
    \/ AnyTick
    \/ Delivered
    \/ \E s \in Schedules : ClockPasses(s)
    \/ \E s \in Schedules, enabled, skip \in BOOLEAN : UpdateSchedule(s, enabled, skip)
    \/ Others
    \/ SchedRestart

\* The loop sleeps 30 s and wakes up again, servers answer or time out, and
\* the tasks of the jobs go on.
SchedFairness ==
    /\ WF_schedVars(AnyTick)
    /\ WF_schedVars(Delivered)
    /\ \A j \in JobIds : WF_schedVars(TaskStep(j) /\ UNCHANGED <<sched, tick, loose>>)

SchedSpec == SchedInit /\ [][SchedNext]_schedVars /\ SchedFairness

(***************************************************************************)
(* Properties.                                                             *)
(***************************************************************************)

JobsOf(s) == {j \in JobIds : Running(j) /\ s \in jobs[j].refs}

\* Skip-if-running keeps the jobs of a schedule apart: two of them run
\* together only if one was dispatched with the check switched off, or by a
\* tick whose commit was refused so that the check does not know of it.
NoOverlap == \A s \in Schedules \ loose : Cardinality(JobsOf(s)) <= 1

\* The status of a schedule is that of its last job, and late but never wrong:
\* a verdict is that job's verdict (unless the process restarted before the
\* job was recorded), "running" is what it was at the last tick.
StatusIsOfLastJob ==
    \A s \in Schedules : sched[s].job # None =>
        /\ sched[s].status # "never"
        /\ sched[s].status \in Terminal =>
               JobStatus(sched[s].job) \in {sched[s].status, "unknown"}

\* The end of a schedule's job reaches the schedule: across rollbacks caused
\* by deleted schedules and refused commits, the scheduler comes back to it,
\* unless a restart forgets the job before it is recorded.
EndIsNoticed ==
    \A s \in Schedules : \A j \in JobIds :
        (sched[s].job = j /\ sched[s].status = "running" /\ JobStatus(j) \in Terminal)
            ~> (s \notin rows \/ sched[s].job # j \/ sched[s].status # "running"
                    \/ JobStatus(j) = "unknown")

\* The form of a schedule offers "Skip if already running": with the box
\* ticked no job of the schedule starts while another one runs.
SkipsIfRunning ==
    [][\A s \in Schedules : \A j \in JobIds :
        (sched[s].skip /\ j \in JobsOf(s)' \ JobsOf(s)) => JobsOf(s) = {}]_schedVars
=============================================================================
