--------------------------- MODULE SchedulerProofs ---------------------------
(***************************************************************************)
(* What the scheduler promises, for every set of schedules and jobs: no    *)
(* two jobs of a schedule that skips run together, and the status of a     *)
(* schedule is that of its last job.                                       *)
(*                                                                         *)
(* SInv adds to the job engine's invariant IInv what relates a schedule to *)
(* its jobs: the only job of a schedule that may run is the one its row    *)
(* names, and the verdicts a suspended tick has in its session are those   *)
(* of the jobs the rows name.                                              *)
(***************************************************************************)
EXTENDS Scheduler, JobLedgerProofs, FiniteSetTheorems

\* v is a verdict of the job c, unless a restart has forgotten it.
VerdictOf(c, v) == c \in used /\ v \in Terminal /\ JobStatus(c) \in {v, "unknown"}

\* Rows name jobs that were started, those of the cleanup task none.
RowsOK ==
    \A s \in Schedules :
        /\ sched[s].job # None => sched[s].job \in used
        /\ s \in Cleanups => sched[s].job = None

\* The statuses assigned and not yet committed.
SeenOK ==
    \A s \in Schedules : tick.seen[s] # None => VerdictOf(sched[s].job, tick.seen[s])

\* The only job of a schedule that may run is the one its row names.
OneJob ==
    \A s \in Schedules \ loose : \A j \in JobsOf(s) : j = sched[s].job

\* No bulk job, hence no child of one, is a schedule's.
BulkOK ==
    \A j \in JobIds : InMemory(j) /\ jobs[j].kind \in Bulk => jobs[j].refs \cap Origins = {}

SInv == /\ SchedTypeOK /\ IInv
        /\ RowsOK /\ SeenOK /\ StatusIsOfLastJob /\ OneJob /\ BulkOK

(***************************************************************************)
(* What the scheduler knows of a job.                                      *)
(***************************************************************************)

\* The status a schedule asks for is what memory knows of the job.
LEMMA StatusIsKnown ==
    /\ \A c \in JobIds : JobStatus(c) = Known(c)
    /\ \A c \in JobIds : JobStatus(c)' = Known(c)'
BY JobRunnerAssumption DEF JobStatus, Known

\* Of an id that has not been given out nothing is known.
LEMMA FreshIsUnknown ==
    ASSUME IInv, NEW c \in JobIds, c \notin used
    PROVE  JobStatus(c) = "unknown"
BY FreshIsEmpty DEF JobStatus

\* A verdict, or "running", is that of a job that was started.
LEMMA StatusOfUsed ==
    ASSUME IInv, NEW c \in JobIds \cup {None}, JobStatus(c) # "unknown"
    PROVE  c \in used /\ c \in JobIds
<1>1. c \in JobIds
  BY DEF JobStatus
<1> QED
  BY <1>1, FreshIsUnknown

\* A verdict of a job stays one.
LEMMA VerdictOfStays ==
    ASSUME IInv, VerdictsStay, NEW c \in JobIds, NEW v, VerdictOf(c, v)
    PROVE  /\ c \in used'
           /\ JobStatus(c)' \in {v, "unknown"}
<1>1. /\ c \in used'
      /\ JobStatus(c) \in Terminal => JobStatus(c)' \in {JobStatus(c), "unknown"}
      /\ JobStatus(c) = "unknown" => JobStatus(c)' = "unknown"
  BY StatusIsKnown DEF VerdictsStay, VerdictOf
<1> QED
  BY <1>1 DEF VerdictOf

(***************************************************************************)
(* Jobs of schedules.                                                      *)
(***************************************************************************)

\* The step starts no job of a schedule and takes none back.
Plain ==
    \A c \in JobIds : jobs'[c] # None =>
        \/ /\ jobs[c] # None
           /\ jobs'[c].refs = jobs[c].refs /\ jobs'[c].kind = jobs[c].kind
           /\ jobs'[c].status = "running" => jobs[c].status = "running"
        \/ jobs'[c].refs \cap Origins = {}

\* After such a step the invariants about the jobs of schedules hold on.
LEMMA PlainKeeps ==
    ASSUME IInv, BulkOK, OneJob, Plain, loose' = loose,
           \A s \in Schedules : sched'[s].job = sched[s].job
    PROVE  BulkOK' /\ OneJob'
<1>1. BulkOK'
  BY DEF BulkOK, Plain, InMemory
<1>2. OneJob'
  <2> SUFFICES ASSUME NEW s \in Schedules \ loose, NEW j \in JobsOf(s)'
               PROVE  j = sched[s].job
    BY DEF OneJob
  <2>1. j \in JobIds /\ jobs'[j] # None /\ jobs'[j].status = "running" /\ s \in jobs'[j].refs
    BY DEF JobsOf, Running, InMemory
  <2>2. s \in Origins
    BY DEF Schedules
  <2>3. jobs[j] # None /\ jobs[j].status = "running" /\ s \in jobs[j].refs
    BY <2>1, <2>2 DEF Plain
  <2> QED
    BY <2>1, <2>3 DEF OneJob, JobsOf, Running, InMemory
<1> QED
  BY <1>1, <1>2

\* In the map old jobs have ended at most.
NothingNew(old) ==
    \A c \in JobIds : old[c] # None =>
        /\ jobs[c] # None
        /\ old[c].refs = jobs[c].refs /\ old[c].kind = jobs[c].kind
        /\ old[c].status = "running" => jobs[c].status = "running"

\* The end of a job and a launch of jobs no schedule asked for are such steps.
LEMMA LaunchPlain ==
    ASSUME IInv, NEW S \in SUBSET JobIds, NEW new, DOMAIN new = S, NEW old, NEW t,
           Launch(new, old, t),
           NothingNew(old),
           \A c \in S : new[c].refs \cap Origins = {}
    PROVE  Plain
<1>1. /\ \A c \in JobIds : c \in S => jobs'[c] = new[c]
      /\ \A c \in JobIds : c \notin S => jobs'[c] = old[c]
  BY LaunchEffect
<1> QED
  BY <1>1 DEF Plain, NothingNew

\* A job that ends brings forth none.
LEMMA EndedPlain ==
    ASSUME IInv, NEW j \in JobIds, NEW ok, jobs[j] # None
    PROVE  NothingNew([jobs EXCEPT ![j] = Ended(j, ok)])
<1>1. jobs \in [JobIds -> Job \cup {None}] /\ jobs[j] \in Job
  BY DEF IInv, TypeOK
<1>2. /\ Ended(j, ok).refs = jobs[j].refs /\ Ended(j, ok).kind = jobs[j].kind
      /\ Ended(j, ok).status # "running"
  BY <1>1 DEF Ended, Job
<1> QED
  BY <1>1, <1>2 DEF NothingNew

\* The steps of the tasks are such steps: a child has the rows of its bulk
\* parent, which is no schedule's.
LEMMA TaskStepPlain ==
    ASSUME IInv, BulkOK, NEW j \in JobIds, TaskStep(j)
    PROVE  Plain
<1>1. task[j].at \in {"new", "command", "report", "pause", "polling"} => jobs[j] # None
  BY DEF IInv, Consistent, TaskOK
<1>2. ASSUME jobs' = jobs
      PROVE  Plain
  BY <1>2 DEF Plain
<1>3. ASSUME NEW ok, Finish(j, ok), jobs[j] # None
      PROVE  Plain
  <2>1. jobs' = [jobs EXCEPT ![j] = Ended(j, ok)]
    BY <1>3 DEF Finish
  <2> QED
    BY <1>3, <2>1, EndedPlain DEF Plain, NothingNew
<1>4. \A c : NewJob("command", None, {}).refs \cap Origins = {}
  BY DEF NewJob
<1>5. CASE StartCommand(j)
  BY <1>2, <1>5 DEF StartCommand
<1>6. CASE FailAtStart(j)
  BY <1>1, <1>3, <1>6 DEF FailAtStart
<1>7. CASE Die(j)
  BY <1>2, <1>7 DEF Die
<1>8. ASSUME NEW ok \in BOOLEAN, CommandEnds(j, ok)
      PROVE  Plain
  BY <1>1, <1>3, <1>8 DEF CommandEnds
<1>9. ASSUME NEW ok \in BOOLEAN, CommandEndsThenReports(j, ok)
      PROVE  Plain
  BY <1>2, <1>9 DEF CommandEndsThenReports
<1>10. ASSUME NEW refresh \in JobIds, RestoreEnds(j, refresh)
       PROVE  Plain
  <2> DEFINE new == [i \in {refresh} |-> NewJob("command", None, {})]
             t == [task EXCEPT ![j].at = "report", ![j].ok = TRUE]
  <2>1. Launch(new, jobs, t)
    BY <1>10 DEF RestoreEnds
  <2>2. /\ DOMAIN new = {refresh} /\ {refresh} \in SUBSET JobIds
        /\ \A c \in {refresh} : new[c].refs \cap Origins = {}
    BY <1>4
  <2> HIDE DEF new, t
  <2> QED
    BY <2>1, <2>2, LaunchPlain DEF NothingNew
<1>11. CASE Reported(j)
  BY <1>1, <1>3, <1>11 DEF Reported
<1>12. ASSUME NEW sync \in JobIds, CreateReported(j, sync)
       PROVE  Plain
  <2> DEFINE new == [i \in {sync} |-> NewJob("command", None, {})]
             old == [jobs EXCEPT ![j] = Ended(j, TRUE)]
             t == [task EXCEPT ![j].at = "notify", ![j].ok = TRUE]
  <2>1. Launch(new, old, t) /\ jobs[j] # None
    BY <1>1, <1>12 DEF CreateReported
  <2>2. /\ DOMAIN new = {sync} /\ {sync} \in SUBSET JobIds
        /\ \A c \in {sync} : new[c].refs \cap Origins = {}
    BY <1>4
  <2>3. NothingNew(old)
    BY <2>1, EndedPlain
  <2> HIDE DEF new, old, t
  <2> QED
    BY <2>1, <2>2, <2>3, LaunchPlain
<1>13. CASE NotifyHolding(j)
  BY <1>2, <1>13 DEF NotifyHolding
<1>14. ASSUME NEW next \in {"summary", "done"}, Notified(j, next)
       PROVE  Plain
  BY <1>2, <1>14 DEF Notified
<1>18. CASE Pause(j)
  BY <1>2, <1>18 DEF Pause
<1>15. ASSUME NEW kids \in ChildLists, NEW kind \in {"command", "action"},
              NEW own \in [SetOf(kids) -> OwnObject(kind)], StartChildren(j, kids, kind, own)
       PROVE  Plain
  <2>1. SUFFICES ASSUME NEW S, S = SetOf(kids),
                        NEW new, new = [c \in S |-> NewJob(kind, j, jobs[j].refs \cup own[c])],
                        NEW t, t = [task EXCEPT ![j].at = "polling", ![j].kids = kids]
                 PROVE  Plain
    OBVIOUS
  <2>2. Launch(new, jobs, t) /\ task[j].at = "new" /\ jobs[j].kind \in Bulk
    BY <1>15, <2>1 DEF StartChildren
  <2>3. jobs[j].refs \cap Origins = {}
    BY <1>1, <2>2 DEF BulkOK, InMemory
  <2>4. DOMAIN new = S /\ S \in SUBSET JobIds
    BY <2>1, ChildListsAreSequences DEF SetOf
  <2>5. ASSUME NEW c \in S
        PROVE  new[c].refs \cap Origins = {}
    <3>1. own[c] \in SUBSET Objects
      BY <2>1 DEF OwnObject, AtMostOne
    <3>2. new[c].refs = jobs[j].refs \cup own[c]
      BY <2>1 DEF NewJob
    <3> QED
      BY <2>3, <3>1, <3>2, SchedulerAssumption
  <2> QED
    BY <2>2, <2>4, <2>5, LaunchPlain DEF NothingNew
<1>16. CASE PollChildren(j)
  BY <1>2, <1>16 DEF PollChildren
<1>17. CASE FinishBulk(j)
  BY <1>1, <1>3, <1>17 DEF FinishBulk
<1> QED
  BY <1>5, <1>6, <1>7, <1>8, <1>9, <1>10, <1>11, <1>12, <1>13, <1>14, <1>15, <1>16, <1>17,
     <1>18 DEF TaskStep

\* A job users start or run again is nobody's but theirs.
LEMMA OthersPlain ==
    ASSUME IInv, BulkOK, Others
    PROVE  IInv' /\ VerdictsStay /\ Plain /\ (Shape \/ Restart)
<1>1. ASSUME NEW j \in JobIds, NEW kind \in Workload, NEW refs \in AtMostOne(Users),
             Request(j, kind, refs)
      PROVE  IInv' /\ VerdictsStay /\ Plain /\ Shape
  <2> DEFINE job == NewJob(kind, None, refs)
  <2>1. refs \in SUBSET Users
    BY DEF AtMostOne
  <2>2. /\ job \in Job /\ job.status = "running" /\ job.parent = None
        /\ job.refs \cap Origins = {}
    BY <2>1, NewJobType, SchedulerAssumption DEF NewJob, Rows
  <2>3. /\ Launch([i \in {j} |-> job], jobs, task)
        /\ UNCHANGED <<records, rows, crashes>> /\ holder' = holder
    BY <1>1 DEF Request
  <2> HIDE DEF job
  <2>4. PICK new \in [{j} -> Job] : new = [i \in {j} |-> job]
    BY <2>2
  <2>5. \A c \in {j} : new[c] = job
    BY <2>4
  <2>6. IInv' /\ VerdictsStay /\ Shape
    BY <2>2, <2>3, <2>4, <2>5, LaunchKeeps DEF IInv, TypeOK
  <2>7. Plain
    BY <2>2, <2>3, <2>4, <2>5, LaunchPlain DEF NothingNew
  <2> QED
    BY <2>6, <2>7
<1>2. ASSUME NEW j \in JobIds, NEW original \in JobIds, NEW kind \in Workload, NEW user \in Users,
             Rerun(j, original, kind, user)
      PROVE  Next /\ Plain
  <2> DEFINE object == IF kind = "action" THEN records[original].refs \cap Objects ELSE {}
             refs == object \cup {user}
             new == [i \in {j} |-> NewJob(kind, original, refs)]
  <2>1. kind \in {"command", "action"}
    BY <1>2 DEF Rerun, RerunKinds
  <2>2. Next
    BY <1>2, <2>1 DEF Next
  <2>3. refs \cap Origins = {}
    BY SchedulerAssumption
  <2>4. Launch(new, jobs, task)
    BY <1>2 DEF Rerun
  <2> HIDE DEF refs
  <2>5. /\ DOMAIN new = {j} /\ {j} \in SUBSET JobIds
        /\ \A c \in {j} : new[c].refs \cap Origins = {}
    BY <2>3 DEF NewJob
  <2> HIDE DEF new
  <2> QED
    BY <2>2, <2>4, <2>5, LaunchPlain DEF NothingNew
<1>3. ASSUME NEW j \in JobIds, TaskStep(j)
      PROVE  Next /\ Plain
  BY <1>3, TaskStepPlain DEF Next
<1>4. ASSUME NEW r \in Rows, DeleteRow(r)
      PROVE  Next /\ Plain
  BY <1>4 DEF Next, DeleteRow, Plain
<1> QED
  BY <1>1, <1>2, <1>3, <1>4, EngineKeeps DEF Others

(***************************************************************************)
(* The loop of _update_completed_schedules.                                *)
(***************************************************************************)

\* The statuses in the session are verdicts of the jobs the rows name.
LEMMA AssignedVerdicts ==
    ASSUME IInv, NEW row \in [Schedules -> Schedule], NEW looked,
           NEW seen \in [Schedules -> Terminal \cup {None}],
           \A s \in Schedules : seen[s] # None => VerdictOf(row[s].job, seen[s])
    PROVE  /\ Assigned(row, looked, seen) \in [Schedules -> Terminal \cup {None}]
           /\ \A s \in Schedules : Assigned(row, looked, seen)[s] # None =>
                  VerdictOf(row[s].job, Assigned(row, looked, seen)[s])
<1>1. ASSUME NEW s \in Schedules, Noticed(row[s])
      PROVE  JobStatus(row[s].job) \in Terminal /\ VerdictOf(row[s].job, JobStatus(row[s].job))
  <2>1. row[s].job \in JobIds \cup {None}
    BY DEF Schedule
  <2>2. JobStatus(row[s].job) \in Terminal
    BY <1>1 DEF Noticed
  <2>3. row[s].job \in used
    BY <2>1, <2>2, StatusOfUsed DEF Terminal
  <2> QED
    BY <2>2, <2>3 DEF VerdictOf
<1> QED
  BY <1>1 DEF Assigned

\* The commit writes such verdicts, or nothing.
LEMMA CommittedRows ==
    ASSUME NEW row \in [Schedules -> Schedule], NEW lock,
           NEW seen \in [Schedules -> Terminal \cup {None}],
           \A s \in Schedules : seen[s] # None => VerdictOf(row[s].job, seen[s])
    PROVE  /\ Committed(row, seen, lock) \in [Schedules -> Schedule]
           /\ \A s \in Schedules :
                  /\ Committed(row, seen, lock)[s].job = row[s].job
                  /\ Committed(row, seen, lock)[s].skip = row[s].skip
                  /\ \/ Committed(row, seen, lock)[s].status = row[s].status
                     \/ VerdictOf(row[s].job, Committed(row, seen, lock)[s].status)
<1> DEFINE dirty == {s \in Schedules : seen[s] # None}
           out == [s \in Schedules |-> IF s \in dirty THEN [row[s] EXCEPT !.status = seen[s]]
                                       ELSE row[s]]
<1>1. Committed(row, seen, lock) = IF dirty \subseteq rows /\ lock = None THEN out ELSE row
  BY DEF Committed
<1>2. ASSUME NEW s \in Schedules
      PROVE  /\ out[s] \in Schedule
             /\ out[s].job = row[s].job /\ out[s].skip = row[s].skip
             /\ out[s].status = row[s].status \/ VerdictOf(row[s].job, out[s].status)
  <2>1. row[s] \in Schedule
    OBVIOUS
  <2>2. CASE s \in dirty
    <3>1. out[s] = [row[s] EXCEPT !.status = seen[s]] /\ seen[s] \in Terminal
      BY <2>2
    <3>2. /\ out[s] \in Schedule /\ out[s].status = seen[s]
          /\ out[s].job = row[s].job /\ out[s].skip = row[s].skip
      BY <2>1, <3>1 DEF Schedule
    <3> QED
      BY <2>2, <3>2
  <2>3. CASE s \notin dirty
    BY <2>1, <2>3
  <2> QED
    BY <2>2, <2>3
<1>3. out \in [Schedules -> Schedule]
  BY <1>2
<1> HIDE DEF out, dirty
<1> QED
  BY <1>1, <1>2, <1>3

\* However the loop goes on: the rows keep their jobs, and every status it has
\* written or assigned is a verdict of the row's job.
LEMMA LoopRunsEffect ==
    ASSUME IInv, NEW row \in [Schedules -> Schedule], NEW queue \in SUBSET Schedules,
           NEW seen \in [Schedules -> Terminal \cup {None}],
           NEW lock \in JobIds \cup Origins \cup {None},
           \A s \in Schedules : seen[s] # None => VerdictOf(row[s].job, seen[s]),
           LoopRuns(row, queue, seen, lock)
    PROVE  /\ sched' \in [Schedules -> Schedule]
           /\ tick' \in Ticks
           /\ holder' \in JobIds \cup Origins \cup {None}
           /\ \A s \in Schedules :
                  /\ sched'[s].job = row[s].job /\ sched'[s].skip = row[s].skip
                  /\ \/ sched'[s].status = row[s].status
                     \/ VerdictOf(row[s].job, sched'[s].status)
                  /\ tick'.seen[s] # None => VerdictOf(row[s].job, tick'.seen[s])
<1>1. CASE LoopEnds(row, queue, seen, lock)
  <2>1. /\ sched' = Committed(row, Assigned(row, queue, seen), lock)
        /\ tick' = Asleep /\ holder' = lock
    BY <1>1 DEF LoopEnds
  <2>2. /\ Asleep \in Ticks
        /\ \A s \in Schedules : Asleep.seen[s] = None
    BY DEF Asleep, Ticks
  <2>3. PICK a : a = Assigned(row, queue, seen)
    OBVIOUS
  <2>4. /\ a \in [Schedules -> Terminal \cup {None}]
        /\ \A s \in Schedules : a[s] # None => VerdictOf(row[s].job, a[s])
    BY <2>3, AssignedVerdicts
  <2>5. PICK c : c = Committed(row, a, lock)
    OBVIOUS
  <2>6. /\ c \in [Schedules -> Schedule]
        /\ \A s \in Schedules :
               /\ c[s].job = row[s].job /\ c[s].skip = row[s].skip
               /\ c[s].status = row[s].status \/ VerdictOf(row[s].job, c[s].status)
    BY <2>4, <2>5, CommittedRows
  <2>7. sched' = c
    BY <2>1, <2>3, <2>5
  <2> QED
    BY <2>1, <2>2, <2>6, <2>7
<1>2. ASSUME NEW mail \in queue, NEW left \in SUBSET queue, NEW holds \in BOOLEAN,
             LoopSuspends(row, queue, seen, lock, mail, left, holds)
      PROVE  /\ sched' = row
             /\ tick' \in Ticks
             /\ holder' \in JobIds \cup Origins \cup {None}
             /\ \A s \in Schedules : tick'.seen[s] # None => VerdictOf(row[s].job, tick'.seen[s])
  <2>1. PICK a : a = Assigned(row, queue \ left, seen)
    OBVIOUS
  <2>2. /\ a \in [Schedules -> Terminal \cup {None}]
        /\ \A s \in Schedules : a[s] # None => VerdictOf(row[s].job, a[s])
    BY <2>1, AssignedVerdicts
  <2>3. /\ sched' = row
        /\ tick' = [at |-> "notifying", mail |-> mail, left |-> left, seen |-> a]
        /\ holder' = IF holds THEN mail ELSE lock
    BY <1>2, <2>1 DEF LoopSuspends
  <2>4. tick' \in Ticks /\ tick'.seen = a
    BY <2>2, <2>3 DEF Ticks
  <2>5. mail \in Origins
    BY DEF Schedules
  <2> QED
    BY <2>2, <2>3, <2>4, <2>5
<1> QED
  BY <1>1, <1>2 DEF LoopRuns

(***************************************************************************)
(* The dispatch.                                                           *)
(***************************************************************************)

\* The schedules that may start a job, and the ids they may get.
LEMMA StartsType ==
    ASSUME NEW started \in Starts
    PROVE  /\ DOMAIN started \subseteq Schedules
           /\ started \in [DOMAIN started -> JobIds \ used]
           /\ \A s \in DOMAIN started : /\ s \in Due /\ s \notin Skipped /\ s \notin Cleanups
                                        /\ started[s] \in JobIds /\ started[s] \notin used
<1>1. PICK D \in SUBSET (Due \ (Skipped \cup Cleanups)) : started \in [D -> JobIds \ used]
  BY DEF Starts
<1> QED
  BY <1>1 DEF Due

\* The jobs that are new after the step are no bulk jobs, and a schedule's
\* only if started says so.
Dispatches(started) ==
    \A c \in JobIds :
        \/ jobs'[c] = jobs[c]
        \/ /\ jobs'[c].kind = "action" \/ jobs'[c].kind = "command"
           /\ \A s \in jobs'[c].refs \cap Origins : s \in DOMAIN started /\ started[s] = c

\* The jobs of a dispatch: one for each schedule of started, and the destroy
\* jobs, which are no schedule's.
LEMMA LaunchedByEffect ==
    ASSUME IInv, NEW started \in Starts, NEW ordered \in [DOMAIN started -> Orders],
           NEW destroys \in SUBSET (JobIds \ used),
           LaunchedBy(started, ordered, destroys),
           UNCHANGED <<records, rows, crashes>>, holder' \in JobIds \cup Origins \cup {None}
    PROVE  /\ IInv' /\ VerdictsStay /\ Shape
           /\ \A s \in DOMAIN started : started[s] \in used'
           /\ Dispatches(started)
<1> DEFINE owner(c) == CHOOSE s \in DOMAIN started : started[s] = c
           mine(c) == NewJob(ordered[owner(c)].kind, None, ordered[owner(c)].refs \cup {owner(c)})
           destroy == NewJob("command", None, {})
           S == destroys \cup SetOf(started)
           new == [c \in S |-> IF c \in destroys THEN destroy ELSE mine(c)]
<1>1. /\ DOMAIN started \subseteq Origins
      /\ \A s \in DOMAIN started : started[s] \in JobIds
  BY StartsType DEF Schedules
<1>2. S \in SUBSET JobIds /\ \A s \in DOMAIN started : started[s] \in S
  BY <1>1 DEF SetOf
<1>3. \A r, s \in DOMAIN started : started[r] = started[s] => r = s
  BY DEF LaunchedBy
<1>4. Launch(new, jobs, task)
  BY DEF LaunchedBy
<1>5. /\ destroy \in Job /\ destroy.status = "running" /\ destroy.parent = None
      /\ destroy.kind = "command" /\ destroy.refs = {}
  <2>1. destroy \in Job
    BY NewJobType DEF Kinds, Single
  <2> QED
    BY <2>1 DEF NewJob
<1> HIDE DEF destroy
<1>6. ASSUME NEW c \in SetOf(started)
      PROVE  /\ mine(c) \in Job /\ mine(c).status = "running" /\ mine(c).parent = None
             /\ mine(c).kind = "action" \/ mine(c).kind = "command"
             /\ \A s \in mine(c).refs \cap Origins : s \in DOMAIN started /\ started[s] = c
  <2>1. PICK s \in DOMAIN started : started[s] = c
    BY DEF SetOf
  <2>2. owner(c) = s
    BY <1>3, <2>1
  <2>3. ordered[s] \in Orders
    BY <2>1
  <2>4. /\ ordered[s].kind = "action" \/ ordered[s].kind = "command"
        /\ ordered[s].refs \in SUBSET (Users \cup Objects)
    BY <2>3 DEF Orders
  <2>5. /\ ordered[s].refs \cup {s} \in SUBSET Rows
        /\ (ordered[s].refs \cup {s}) \cap Origins = {s}
    BY <1>1, <2>1, <2>4, SchedulerAssumption DEF Rows
  <2>6. mine(c) = NewJob(ordered[s].kind, None, ordered[s].refs \cup {s})
    BY <2>2
  <2>7. mine(c) \in Job
    BY <2>4, <2>5, <2>6, NewJobType DEF Kinds, Single
  <2>8. /\ mine(c).status = "running" /\ mine(c).parent = None
        /\ mine(c).kind = ordered[s].kind /\ mine(c).refs = ordered[s].refs \cup {s}
    BY <2>6 DEF NewJob
  <2> QED
    BY <2>1, <2>4, <2>5, <2>7, <2>8
<1> HIDE DEF mine
<1>8. ASSUME NEW c \in S
      PROVE  /\ new[c] \in Job
             /\ new[c].status = "running" /\ new[c].parent = None
             /\ new[c].kind = "action" \/ new[c].kind = "command"
             /\ \A s \in new[c].refs \cap Origins : s \in DOMAIN started /\ started[s] = c
  <2>1. CASE c \in destroys
    BY <1>5, <2>1
  <2>2. CASE c \notin destroys
    BY <1>6, <2>2
  <2> QED
    BY <2>1, <2>2
<1>9. new \in [S -> Job]
  BY <1>8
<1> HIDE DEF new, S
<1>10. /\ IInv' /\ VerdictsStay /\ Shape
       /\ \A c \in JobIds : c \in S =>
              c \notin used /\ c \in used' /\ jobs'[c] = new[c] /\ task'[c] = NewTask
       /\ \A c \in JobIds : c \notin S => jobs'[c] = jobs[c] /\ task'[c] = task[c]
  BY <1>2, <1>4, <1>8, <1>9, LaunchKeeps
<1>11. ASSUME NEW c \in JobIds, c \in S
       PROVE  /\ jobs'[c].kind = "action" \/ jobs'[c].kind = "command"
              /\ \A s \in jobs'[c].refs \cap Origins : s \in DOMAIN started /\ started[s] = c
  BY <1>8, <1>10, <1>11
<1> QED
  BY <1>1, <1>2, <1>10, <1>11 DEF Dispatches

\* Bulk jobs are no schedule's after a dispatch either.
LEMMA LaunchedBulk ==
    ASSUME BulkOK, NEW started, Dispatches(started)
    PROVE  BulkOK'
BY DEF BulkOK, InMemory, Bulk, Dispatches

\* What a dispatch assigns: the new job and "running", or the row as it was
\* but for its next run, or the end of a cleanup.
LEMMA DispatchedRows ==
    ASSUME SchedTypeOK, RowsOK, NEW started \in Starts, NEW cleaned \in SUBSET (Due \cap Cleanups)
    PROVE  /\ Dispatched(started, cleaned) \in [Schedules -> Schedule]
           /\ \A s \in Schedules :
                  \/ /\ s \in DOMAIN started
                     /\ Dispatched(started, cleaned)[s].job = started[s]
                     /\ Dispatched(started, cleaned)[s].status = "running"
                  \/ /\ s \notin DOMAIN started
                     /\ Dispatched(started, cleaned)[s].job = sched[s].job
                     /\ \/ Dispatched(started, cleaned)[s].status = sched[s].status
                        \/ sched[s].job = None
<1> SUFFICES ASSUME NEW s \in Schedules
             PROVE  /\ Dispatched(started, cleaned)[s] \in Schedule
                    /\ \/ /\ s \in DOMAIN started
                          /\ Dispatched(started, cleaned)[s].job = started[s]
                          /\ Dispatched(started, cleaned)[s].status = "running"
                       \/ /\ s \notin DOMAIN started
                          /\ Dispatched(started, cleaned)[s].job = sched[s].job
                          /\ \/ Dispatched(started, cleaned)[s].status = sched[s].status
                             \/ sched[s].job = None
  BY DEF Dispatched
<1>1. sched[s] \in Schedule
  BY DEF SchedTypeOK
<1>2. CASE s \in DOMAIN started
  <2>1. Dispatched(started, cleaned)[s] = [sched[s] EXCEPT !.next = "later", !.job = started[s],
                                                  !.status = "running"]
    BY <1>2 DEF Dispatched
  <2>2. started[s] \in JobIds
    BY <1>2, StartsType
  <2>3. Dispatched(started, cleaned)[s] = [next |-> "later", skip |-> sched[s].skip, job |-> started[s],
                                  status |-> "running"]
    BY <1>1, <2>1 DEF Schedule
  <2> QED
    BY <1>1, <1>2, <2>2, <2>3 DEF Schedule
<1>3. CASE s \notin DOMAIN started
  <2>1. CASE s \in Skipped
    <3>1. Dispatched(started, cleaned)[s] = [sched[s] EXCEPT !.next = "later"]
      BY <1>3, <2>1 DEF Dispatched
    <3> QED
      BY <1>1, <1>3, <3>1 DEF Schedule
  <2>2. CASE s \notin Skipped /\ s \in cleaned
    <3>1. Dispatched(started, cleaned)[s] = [sched[s] EXCEPT !.next = "later", !.status = "completed"]
      BY <1>3, <2>2 DEF Dispatched
    <3>2. sched[s].job = None
      BY <2>2 DEF RowsOK
    <3>3. Dispatched(started, cleaned)[s] = [next |-> "later", skip |-> sched[s].skip,
                                    job |-> sched[s].job, status |-> "completed"]
      BY <1>1, <3>1 DEF Schedule
    <3> QED
      BY <1>1, <1>3, <3>2, <3>3 DEF Schedule, Terminal
  <2>3. CASE s \notin Skipped /\ s \notin cleaned
    <3>1. Dispatched(started, cleaned)[s] = sched[s]
      BY <1>3, <2>3 DEF Dispatched
    <3> QED
      BY <1>1, <1>3, <3>1
  <2> QED
    BY <2>1, <2>2, <2>3
<1> QED
  BY <1>2, <1>3

(***************************************************************************)
(* The steps of the scheduler.                                             *)
(***************************************************************************)

\* The status of s is about the job its row names.
LastOK(s) ==
    sched[s].job # None =>
        /\ sched[s].status # "never"
        /\ sched[s].status \in Terminal =>
               JobStatus(sched[s].job) \in {sched[s].status, "unknown"}

\* A verdict written, or seen, by a step that keeps the verdicts.
LEMMA VerdictFollows ==
    ASSUME IInv, VerdictsStay, NEW s \in Schedules, NEW c \in JobIds, NEW v,
           sched'[s].job = c, c \in used, JobStatus(c) \in {v, "unknown"}, v \in Terminal
    PROVE  /\ sched'[s].status = v => LastOK(s)'
           /\ tick'.seen[s] = v => VerdictOf(sched[s].job, tick.seen[s])'
<1>1. VerdictOf(c, v)
  BY DEF VerdictOf
<1>2. c \in used' /\ JobStatus(c)' \in {v, "unknown"}
  BY <1>1, VerdictOfStays
<1>3. JobStatus(sched[s].job)' = JobStatus(c)'
  BY DEF JobStatus
<1>4. sched'[s].status = v => LastOK(s)'
  BY <1>2, <1>3 DEF LastOK, Terminal
<1>5. tick'.seen[s] = v => VerdictOf(sched[s].job, tick.seen[s])'
  BY <1>2, <1>3 DEF VerdictOf
<1> QED
  BY <1>4, <1>5

\* A row whose job and status stay, or whose status becomes a verdict of its
\* job.
LEMMA LastFollows ==
    ASSUME SInv, VerdictsStay, NEW s \in Schedules, NEW c \in JobIds \cup {None},
           sched[s].job = c, sched'[s].job = c,
           \/ sched'[s].status = sched[s].status
           \/ VerdictOf(c, sched'[s].status)
    PROVE  LastOK(s)'
<1>1. CASE c = None
  BY <1>1 DEF LastOK
<1>2. CASE c # None
  <2>1. c \in JobIds /\ c \in used
    BY <1>2 DEF SInv, RowsOK
  <2>2. PICK v : v = sched'[s].status
    OBVIOUS
  <2>3. /\ v # "never" \/ v = sched[s].status
        /\ v \in Terminal => JobStatus(c) \in {v, "unknown"}
    BY <1>2, <2>2 DEF SInv, StatusIsOfLastJob, VerdictOf, Terminal
  <2>4. v # "never"
    BY <1>2, <2>2, <2>3 DEF SInv, StatusIsOfLastJob
  <2>5. CASE v \in Terminal
    BY <2>1, <2>2, <2>3, <2>5, VerdictFollows DEF SInv
  <2>6. CASE v \notin Terminal
    BY <2>2, <2>4, <2>6 DEF LastOK
  <2> QED
    BY <2>5, <2>6
<1> QED
  BY <1>1, <1>2

\* A step that leaves the statuses, the jobs of the rows and the session alone.
LEMMA RowsStay ==
    ASSUME SInv, VerdictsStay, tick' = tick,
           \A s \in Schedules : sched'[s].job = sched[s].job /\ sched'[s].status = sched[s].status
    PROVE  SeenOK' /\ StatusIsOfLastJob'
<1>1. ASSUME NEW s \in Schedules
      PROVE  /\ LastOK(s)'
             /\ tick'.seen[s] # None => VerdictOf(sched[s].job, tick.seen[s])'
  <2>1. PICK c \in JobIds \cup {None} : c = sched[s].job
    BY DEF SInv, SchedTypeOK, Schedule
  <2>2. LastOK(s)'
    BY <2>1, LastFollows
  <2>3. ASSUME tick'.seen[s] # None
        PROVE  VerdictOf(sched[s].job, tick.seen[s])'
    <3>1. PICK v : v = tick.seen[s]
      OBVIOUS
    <3>2. VerdictOf(c, v) /\ sched'[s].job = c /\ tick'.seen[s] = v
      BY <2>1, <2>3, <3>1 DEF SInv, SeenOK
    <3>3. c \in JobIds /\ c \in used /\ v \in Terminal /\ JobStatus(c) \in {v, "unknown"}
      BY <3>2 DEF VerdictOf, SInv, IInv, TypeOK
    <3> QED
      BY <3>2, <3>3, VerdictFollows DEF SInv
  <2> QED
    BY <2>2, <2>3
<1> QED
  BY <1>1 DEF SeenOK, StatusIsOfLastJob, LastOK

\* A tick dispatches, commits and goes through the schedules that say
\* "running".
LEMMA TickKeeps ==
    ASSUME SInv, NEW started \in Starts, NEW ordered \in [DOMAIN started -> Orders],
           NEW cleaned \in SUBSET (Due \cap Cleanups), NEW destroys \in SUBSET (JobIds \ used),
           Tick(started, ordered, cleaned, destroys)
    PROVE  SInv'
<1>1. PICK d \in [Schedules -> Schedule] : d = Dispatched(started, cleaned)
  BY DispatchedRows DEF SInv
<1>2. \A s \in Schedules :
          \/ /\ s \in DOMAIN started
             /\ d[s].job = started[s] /\ d[s].status = "running"
          \/ /\ s \notin DOMAIN started
             /\ d[s].job = sched[s].job
             /\ d[s].status = sched[s].status \/ sched[s].job = None
  BY <1>1, DispatchedRows DEF SInv
<1>3. /\ LaunchedBy(started, ordered, destroys)
      /\ loose' = loose \cup Unchecked(started)
      /\ UNCHANGED <<records, rows, crashes>>
  BY DEF Tick
<1>4. PICK queue \in SUBSET Schedules : LoopRuns(d, queue, Asleep.seen, holder)
  <2>1. LoopRuns(d, {s \in Schedules \cap rows : d[s].status = "running"}, Asleep.seen, holder)
    BY <1>1 DEF Tick
  <2> QED
    BY <2>1
<1>5. /\ Asleep.seen \in [Schedules -> Terminal \cup {None}]
      /\ \A s \in Schedules : Asleep.seen[s] = None
  BY DEF Asleep
<1>6. /\ sched' \in [Schedules -> Schedule]
      /\ tick' \in Ticks
      /\ holder' \in JobIds \cup Origins \cup {None}
      /\ \A s \in Schedules :
             /\ sched'[s].job = d[s].job
             /\ \/ sched'[s].status = d[s].status
                \/ VerdictOf(d[s].job, sched'[s].status)
             /\ tick'.seen[s] # None => VerdictOf(d[s].job, tick'.seen[s])
  BY <1>4, <1>5, LoopRunsEffect DEF SInv, IInv, TypeOK
<1>7. /\ IInv' /\ VerdictsStay
      /\ \A s \in DOMAIN started : started[s] \in used'
      /\ Dispatches(started)
  BY <1>3, <1>6, LaunchedByEffect DEF SInv
<1>8. used \subseteq used' /\ used \subseteq JobIds
  BY <1>7 DEF SInv, IInv, TypeOK, VerdictsStay
<1>9. SchedTypeOK'
  BY <1>3, <1>6, <1>7, StartsType DEF SInv, SchedTypeOK, IInv, Unchecked
<1>10. RowsOK'
  BY <1>2, <1>6, <1>7, <1>8, StartsType DEF SInv, RowsOK
<1>11. ASSUME NEW s \in Schedules
       PROVE  /\ LastOK(s)'
              /\ tick'.seen[s] # None => VerdictOf(sched[s].job, tick.seen[s])'
  <2>1. PICK c \in JobIds \cup {None} : c = d[s].job
    BY DEF Schedule
  <2>2. sched'[s].job = c
    BY <1>6, <2>1
  <2>3. ASSUME tick'.seen[s] # None
        PROVE  VerdictOf(sched[s].job, tick.seen[s])'
    <3>1. PICK v : v = tick'.seen[s]
      OBVIOUS
    <3>2. VerdictOf(c, v)
      BY <1>6, <2>1, <2>3, <3>1
    <3>3. c \in JobIds /\ c \in used /\ v \in Terminal /\ JobStatus(c) \in {v, "unknown"}
      BY <1>8, <3>2 DEF VerdictOf
    <3> QED
      BY <1>7, <2>2, <3>1, <3>3, VerdictFollows DEF SInv
  <2>4. CASE s \in DOMAIN started
    <3>1. c \notin used /\ d[s].status = "running"
      BY <1>2, <2>1, <2>4, StartsType
    <3>2. sched'[s].status = "running"
      BY <1>6, <2>1, <3>1 DEF VerdictOf
    <3> QED
      BY <2>3, <3>2 DEF LastOK, Terminal
  <2>5. CASE s \notin DOMAIN started
    <3>1. sched[s].job = c
      BY <1>2, <2>1, <2>5
    <3>2. CASE c = None
      BY <2>2, <2>3, <3>2 DEF LastOK
    <3>3. CASE c # None
      <4>1. sched'[s].status = sched[s].status \/ VerdictOf(c, sched'[s].status)
        BY <1>2, <1>6, <2>1, <2>5, <3>1, <3>3
      <4> QED
        BY <1>7, <2>2, <2>3, <3>1, <4>1, LastFollows
    <3> QED
      BY <3>2, <3>3
  <2> QED
    BY <2>3, <2>4, <2>5
<1>12. SeenOK' /\ StatusIsOfLastJob'
  BY <1>11 DEF SeenOK, StatusIsOfLastJob, LastOK
<1>13. BulkOK'
  BY <1>7, LaunchedBulk DEF SInv
<1>14. OneJob'
  <2> SUFFICES ASSUME NEW s \in Schedules, s \notin loose', NEW j \in JobsOf(s)'
               PROVE  j = sched'[s].job
    BY DEF OneJob
  <2>1. /\ j \in JobIds /\ jobs'[j] # None /\ jobs'[j].status = "running"
        /\ s \in jobs'[j].refs /\ s \in Origins
    BY DEF JobsOf, Running, InMemory, Schedules
  <2>2. CASE jobs'[j] = jobs[j]
    <3>1. j \in JobsOf(s) /\ s \notin loose
      BY <1>3, <2>1, <2>2 DEF JobsOf, Running, InMemory
    <3>2. j = sched[s].job
      BY <3>1 DEF SInv, OneJob
    <3>3. s \notin DOMAIN started
      <4>1. IsJobRunning(sched[s].job)
        BY <2>1, <2>2, <3>2, JobRunnerAssumption DEF IsJobRunning, JobStatus
      <4>2. ASSUME s \in DOMAIN started
            PROVE  FALSE
        <5>1. s \in Due /\ s \notin Skipped
          BY <4>2, StartsType
        <5>2. sched[s].skip
          BY <1>3, <4>2 DEF Unchecked
        <5> QED
          BY <4>1, <5>1, <5>2 DEF Skipped
      <4> QED
        BY <4>2
    <3> QED
      BY <1>2, <1>6, <3>2, <3>3
  <2>3. CASE jobs'[j] # jobs[j]
    <3>1. s \in DOMAIN started /\ started[s] = j
      BY <1>7, <2>1, <2>3 DEF Dispatches
    <3> QED
      BY <1>2, <1>6, <3>1
  <2> QED
    BY <2>2, <2>3
<1> QED
  BY <1>7, <1>9, <1>10, <1>12, <1>13, <1>14 DEF SInv

\* A tick whose commit is refused: its jobs run, and no row knows of them.
LEMMA TickRefusedKeeps ==
    ASSUME SInv, NEW started \in Starts, NEW ordered \in [DOMAIN started -> Orders],
           NEW cleaned \in SUBSET (Due \cap Cleanups), NEW destroys \in SUBSET (JobIds \ used),
           TickRefused(started, ordered, cleaned, destroys)
    PROVE  SInv'
<1>1. /\ LaunchedBy(started, ordered, destroys)
      /\ loose' = loose \cup DOMAIN started
      /\ UNCHANGED <<records, rows, holder, crashes, sched, tick>>
  BY DEF TickRefused
<1>2. /\ IInv' /\ VerdictsStay
      /\ Dispatches(started)
  BY <1>1, LaunchedByEffect DEF SInv, IInv, TypeOK
<1>3. used \subseteq used' /\ used \subseteq JobIds
  BY <1>2 DEF SInv, IInv, TypeOK, VerdictsStay
<1>4. SchedTypeOK'
  BY <1>1, <1>2, StartsType DEF SInv, SchedTypeOK, IInv
<1>5. RowsOK'
  BY <1>1, <1>3 DEF SInv, RowsOK
<1>6. SeenOK' /\ StatusIsOfLastJob'
  BY <1>1, <1>2, RowsStay
<1>7. BulkOK'
  BY <1>2, LaunchedBulk DEF SInv
<1>8. OneJob'
  <2> SUFFICES ASSUME NEW s \in Schedules, s \notin loose', NEW j \in JobsOf(s)'
               PROVE  j = sched[s].job
    BY <1>1 DEF OneJob
  <2>1. /\ j \in JobIds /\ jobs'[j] # None /\ jobs'[j].status = "running"
        /\ s \in jobs'[j].refs /\ s \in Origins
    BY DEF JobsOf, Running, InMemory, Schedules
  <2>2. jobs'[j] = jobs[j]
    BY <1>1, <1>2, <2>1 DEF Dispatches
  <2>3. j \in JobsOf(s) /\ s \notin loose
    BY <1>1, <2>1, <2>2 DEF JobsOf, Running, InMemory
  <2> QED
    BY <2>3 DEF SInv, OneJob
<1> QED
  BY <1>2, <1>4, <1>5, <1>6, <1>7, <1>8 DEF SInv

\* A server answers: the loop goes on with the rows as they are now.
LEMMA DeliveredKeeps ==
    ASSUME SInv, Delivered
    PROVE  SInv'
<1> DEFINE lock == IF holder = tick.mail THEN None ELSE holder
<1>1. /\ LoopRuns(sched, tick.left, tick.seen, lock)
      /\ UNCHANGED <<jobs, task, records, rows, used, crashes, loose>>
  BY DEF Delivered
<1>2. /\ sched \in [Schedules -> Schedule] /\ tick.left \in SUBSET Schedules
      /\ tick.seen \in [Schedules -> Terminal \cup {None}]
      /\ lock \in JobIds \cup Origins \cup {None}
      /\ \A s \in Schedules : tick.seen[s] # None => VerdictOf(sched[s].job, tick.seen[s])
  BY DEF SInv, SchedTypeOK, Ticks, IInv, TypeOK, SeenOK
<1> HIDE DEF lock
<1>3. /\ sched' \in [Schedules -> Schedule]
      /\ tick' \in Ticks
      /\ holder' \in JobIds \cup Origins \cup {None}
      /\ \A s \in Schedules :
             /\ sched'[s].job = sched[s].job
             /\ \/ sched'[s].status = sched[s].status
                \/ VerdictOf(sched[s].job, sched'[s].status)
             /\ tick'.seen[s] # None => VerdictOf(sched[s].job, tick'.seen[s])
  <2>1. PICK queue \in SUBSET Schedules, seen \in [Schedules -> Terminal \cup {None}],
             held \in JobIds \cup Origins \cup {None} :
                 queue = tick.left /\ seen = tick.seen /\ held = lock
    BY <1>2
  <2>2. LoopRuns(sched, queue, seen, held)
    BY <1>1, <2>1
  <2>3. \A s \in Schedules : seen[s] # None => VerdictOf(sched[s].job, seen[s])
    BY <1>2, <2>1
  <2> QED
    BY <1>2, <2>2, <2>3, LoopRunsEffect DEF SInv
<1>4. IInv'
  <2>1. TypeOK'
    BY <1>1, <1>3 DEF SInv, IInv, TypeOK
  <2> QED
    BY <1>1, <2>1 DEF SInv, IInv, RecordsOK, InMemory
<1>5. VerdictsStay
  BY <1>1 DEF VerdictsStay, Known
<1>6. SchedTypeOK' /\ RowsOK'
  BY <1>1, <1>3, <1>4 DEF SInv, SchedTypeOK, RowsOK, IInv
<1>7. ASSUME NEW s \in Schedules
      PROVE  /\ LastOK(s)'
             /\ tick'.seen[s] # None => VerdictOf(sched[s].job, tick.seen[s])'
  <2>1. PICK c \in JobIds \cup {None} : c = sched[s].job
    BY <1>2 DEF Schedule
  <2>2. LastOK(s)'
    BY <1>3, <1>5, <2>1, LastFollows
  <2>3. ASSUME tick'.seen[s] # None
        PROVE  VerdictOf(sched[s].job, tick.seen[s])'
    <3>1. PICK v : v = tick'.seen[s]
      OBVIOUS
    <3>2. VerdictOf(c, v) /\ sched'[s].job = c
      BY <1>3, <2>1, <2>3, <3>1
    <3>3. c \in JobIds /\ c \in used /\ v \in Terminal /\ JobStatus(c) \in {v, "unknown"}
      BY <3>2 DEF VerdictOf, SInv, IInv, TypeOK
    <3> QED
      BY <1>5, <3>1, <3>2, <3>3, VerdictFollows DEF SInv
  <2> QED
    BY <2>2, <2>3
<1>8. SeenOK' /\ StatusIsOfLastJob'
  BY <1>7 DEF SeenOK, StatusIsOfLastJob, LastOK
<1>9. BulkOK' /\ OneJob'
  <2>1. Plain
    BY <1>1 DEF Plain
  <2> QED
    BY <1>1, <1>3, <2>1, PlainKeeps DEF SInv
<1> QED
  BY <1>4, <1>6, <1>8, <1>9 DEF SInv

\* An expression comes due, or a schedule is edited.
LEMMA EditKeeps ==
    ASSUME SInv, UNCHANGED <<vars, tick, loose>>, sched' \in [Schedules -> Schedule],
           \A s \in Schedules : sched'[s].job = sched[s].job /\ sched'[s].status = sched[s].status
    PROVE  SInv'
<1>1. IInv' /\ VerdictsStay
  BY EngineKeeps DEF SInv
<1>2. SchedTypeOK' /\ RowsOK'
  BY <1>1 DEF SInv, SchedTypeOK, RowsOK, IInv, vars
<1>3. SeenOK' /\ StatusIsOfLastJob'
  BY <1>1, RowsStay
<1>4. BulkOK' /\ OneJob'
  <2>1. Plain
    BY DEF Plain, vars
  <2> QED
    BY <2>1, PlainKeeps DEF SInv
<1> QED
  BY <1>1, <1>2, <1>3, <1>4 DEF SInv

\* The rest of the job engine.
LEMMA SchedOthersKeeps ==
    ASSUME SInv, Others
    PROVE  SInv'
<1>1. UNCHANGED <<sched, tick, loose>>
  BY DEF Others
<1>2. IInv' /\ VerdictsStay /\ Plain
  BY OthersPlain DEF SInv
<1>3. used \subseteq used'
  BY <1>2 DEF SInv, IInv, TypeOK, VerdictsStay
<1>4. SchedTypeOK' /\ RowsOK'
  BY <1>1, <1>2, <1>3 DEF SInv, SchedTypeOK, RowsOK, IInv
<1>5. SeenOK' /\ StatusIsOfLastJob'
  BY <1>1, <1>2, RowsStay
<1>6. BulkOK' /\ OneJob'
  BY <1>1, <1>2, PlainKeeps DEF SInv
<1> QED
  BY <1>2, <1>4, <1>5, <1>6 DEF SInv

\* A restart forgets the jobs, the session of the tick, and every overlap.
LEMMA SchedRestartKeeps ==
    ASSUME SInv, SchedRestart
    PROVE  SInv'
<1>1. Restart /\ tick' = Asleep /\ loose' = {} /\ sched' = sched
  BY DEF SchedRestart
<1>2. IInv' /\ VerdictsStay
  BY <1>1, EngineKeeps DEF SInv, Next
<1>3. Asleep \in Ticks /\ \A s \in Schedules : Asleep.seen[s] = None
  BY DEF Asleep, Ticks
<1>4. \A c \in JobIds : jobs'[c] = None
  BY <1>1 DEF Restart
<1>5. SchedTypeOK' /\ RowsOK'
  BY <1>1, <1>2, <1>3 DEF SInv, SchedTypeOK, RowsOK, IInv, Restart
<1>6. SeenOK'
  BY <1>1, <1>3 DEF SeenOK
<1>7. StatusIsOfLastJob'
  <2> SUFFICES ASSUME NEW s \in Schedules
               PROVE  LastOK(s)'
    BY DEF StatusIsOfLastJob, LastOK
  <2>1. PICK c \in JobIds \cup {None} : c = sched[s].job
    BY DEF SInv, SchedTypeOK, Schedule
  <2> QED
    BY <1>1, <1>2, <2>1, LastFollows
<1>8. BulkOK' /\ OneJob'
  BY <1>4 DEF BulkOK, OneJob, JobsOf, Running, InMemory
<1> QED
  BY <1>2, <1>5, <1>6, <1>7, <1>8 DEF SInv

(***************************************************************************)
(* The theorems.                                                           *)
(***************************************************************************)

\* At the start no schedule has a job.
LEMMA SchedInitInv == SchedInit => SInv
<1> SUFFICES ASSUME SchedInit PROVE SInv
  OBVIOUS
<1>1. IInv
  BY InitIInv DEF SchedInit
<1>2. \A s \in Schedules : sched[s] \in Schedule /\ sched[s].job = None
  BY DEF SchedInit, Schedule
<1>3. Asleep \in Ticks /\ \A s \in Schedules : Asleep.seen[s] = None
  BY DEF Asleep, Ticks
<1>4. SchedTypeOK
  <2>1. sched \in [Schedules -> Schedule]
    BY <1>2 DEF SchedInit
  <2> QED
    BY <1>1, <1>3, <2>1 DEF SchedInit, SchedTypeOK, IInv
<1>5. RowsOK /\ SeenOK /\ StatusIsOfLastJob
  BY <1>2, <1>3 DEF SchedInit, RowsOK, SeenOK, StatusIsOfLastJob
<1>6. OneJob /\ BulkOK
  BY DEF SchedInit, Init, OneJob, BulkOK, JobsOf, Running, InMemory
<1> QED
  BY <1>1, <1>4, <1>5, <1>6 DEF SInv

\* Every step of the scheduler keeps its invariant.
LEMMA SchedNextInv == SInv /\ [SchedNext]_schedVars => SInv'
<1> SUFFICES ASSUME SInv, [SchedNext]_schedVars PROVE SInv'
  OBVIOUS
<1>1. CASE AnyTick
  <2>1. PICK started \in Starts, cleaned \in SUBSET (Due \cap Cleanups), destroys \in Destroys :
             \E ordered \in [DOMAIN started -> Orders] :
                 \/ Tick(started, ordered, cleaned, destroys)
                 \/ TickRefused(started, ordered, cleaned, destroys)
    BY <1>1 DEF AnyTick
  <2>2. destroys \in SUBSET (JobIds \ used)
    BY <2>1 DEF Destroys
  <2> QED
    BY <2>1, <2>2, TickKeeps, TickRefusedKeeps
<1>2. CASE Delivered
  BY <1>2, DeliveredKeeps
<1>3. ASSUME NEW s \in Schedules, ClockPasses(s)
      PROVE  SInv'
  <2>1. /\ sched' = [sched EXCEPT ![s].next = "due"]
        /\ UNCHANGED <<vars, tick, loose>>
    BY <1>3 DEF ClockPasses
  <2>2. /\ sched' \in [Schedules -> Schedule]
        /\ \A r \in Schedules : sched'[r].job = sched[r].job /\ sched'[r].status = sched[r].status
    BY <2>1 DEF SInv, SchedTypeOK, Schedule
  <2> QED
    BY <2>1, <2>2, EditKeeps
<1>4. ASSUME NEW s \in Schedules, NEW enabled \in BOOLEAN, NEW skip \in BOOLEAN,
             UpdateSchedule(s, enabled, skip)
      PROVE  SInv'
  <2>1. PICK next \in {"off", "later"} : next = IF enabled THEN "later" ELSE "off"
    OBVIOUS
  <2>2. /\ sched' = [sched EXCEPT ![s].next = next, ![s].skip = skip]
        /\ UNCHANGED <<vars, tick, loose>>
    BY <1>4, <2>1 DEF UpdateSchedule
  <2>3. sched \in [Schedules -> Schedule]
    BY DEF SInv, SchedTypeOK
  <2>4. /\ sched'[s] = [next |-> next, skip |-> skip, job |-> sched[s].job,
                        status |-> sched[s].status]
        /\ \A r \in Schedules : r # s => sched'[r] = sched[r]
    BY <2>2, <2>3 DEF Schedule
  <2>5. sched'[s] \in Schedule
    BY <2>3, <2>4 DEF Schedule
  <2>6. /\ sched' \in [Schedules -> Schedule]
        /\ \A r \in Schedules : sched'[r].job = sched[r].job /\ sched'[r].status = sched[r].status
    BY <2>2, <2>3, <2>4, <2>5
  <2> QED
    BY <2>2, <2>6, EditKeeps
<1>5. CASE Others
  BY <1>5, SchedOthersKeeps
<1>6. CASE SchedRestart
  BY <1>6, SchedRestartKeeps
<1>7. CASE UNCHANGED schedVars
  <2>1. UNCHANGED <<vars, tick, loose>> /\ sched' = sched
    BY <1>7 DEF schedVars
  <2> QED
    BY <2>1, EditKeeps DEF SInv, SchedTypeOK
<1> QED
  BY <1>1, <1>2, <1>3, <1>4, <1>5, <1>6, <1>7 DEF SchedNext

\* The scheduler's inductive invariant, for any schedules and jobs, any number
\* of suspended notifications, refused commits, deletions and restarts.
THEOREM SchedInvariance == SchedSpec => []SInv
BY SchedInitInv, SchedNextInv, PTL DEF SchedSpec

\* Rows, the tick and its session have their types, and so has the job engine
\* under dispatches that are committed or refused.
THEOREM SchedTypes == SchedSpec => []SchedTypeOK
<1>1. SInv => SchedTypeOK
  BY DEF SInv
<1> QED
  BY <1>1, SchedInvariance, PTL

\* Skip-if-running keeps the jobs of a schedule apart, with the exceptions the
\* property names and no others.
THEOREM NeverOverlaps == SchedSpec => []NoOverlap
<1>1. SInv => NoOverlap
  <2> SUFFICES ASSUME SInv, NEW s \in Schedules \ loose
               PROVE  Cardinality(JobsOf(s)) <= 1
    BY DEF NoOverlap
  <2>1. \A j \in JobsOf(s) : j = sched[s].job
    BY DEF SInv, OneJob
  <2>2. CASE JobsOf(s) = {}
    BY <2>2, FS_EmptySet
  <2>3. CASE JobsOf(s) # {}
    <3>1. JobsOf(s) = {sched[s].job}
      BY <2>1, <2>3
    <3> QED
      BY <3>1, FS_Singleton
  <2> QED
    BY <2>2, <2>3
<1> QED
  BY <1>1, SchedInvariance, PTL

\* last_status of a schedule is a verdict of last_job_id, or "running" and
\* late, through every rollback, deletion and restart.
THEOREM ScheduleStatus == SchedSpec => []StatusIsOfLastJob
<1>1. SInv => StatusIsOfLastJob
  BY DEF SInv
<1> QED
  BY <1>1, SchedInvariance, PTL

\* A client that polls is promised no less under the scheduler: a dispatch, be
\* it committed or refused, is a birth of jobs, and what the loop writes is none
\* of the ledger's.
THEOREM SchedulerKeepsLedger == SchedSpec => LedgerSpec
<1>1. SchedInit => Ledger!LedgerInit
  BY DEF SchedInit, Init, Ledger!LedgerInit
<1>2. SInv /\ SInv' /\ [SchedNext]_schedVars => [Ledger!LedgerNext]_(Ledger!ledger)
  <2> SUFFICES ASSUME SInv, SInv', [SchedNext]_schedVars
               PROVE  Shape \/ Restart \/ UNCHANGED <<jobs, records, used>>
    BY LedgerStep DEF SInv
  <2>1. CASE AnyTick
    <3>1. PICK started \in Starts, cleaned \in SUBSET (Due \cap Cleanups), destroys \in Destroys :
               \E ordered \in [DOMAIN started -> Orders] :
                   \/ Tick(started, ordered, cleaned, destroys)
                   \/ TickRefused(started, ordered, cleaned, destroys)
      BY <2>1 DEF AnyTick
    <3>4. PICK ordered \in [DOMAIN started -> Orders] :
               \/ Tick(started, ordered, cleaned, destroys)
               \/ TickRefused(started, ordered, cleaned, destroys)
      BY <3>1
    <3>2. LaunchedBy(started, ordered, destroys) /\ UNCHANGED <<records, rows, crashes>>
      BY <3>4 DEF Tick, TickRefused
    <3>3. destroys \in SUBSET (JobIds \ used) /\ holder' \in JobIds \cup Origins \cup {None}
      BY <3>1 DEF Destroys, SInv, IInv, TypeOK
    <3> QED
      BY <3>1, <3>2, <3>3, LaunchedByEffect DEF SInv
  <2>2. CASE Delivered
    BY <2>2 DEF Delivered
  <2>3. CASE \/ \E s \in Schedules : ClockPasses(s)
             \/ \E s \in Schedules, enabled, skip \in BOOLEAN : UpdateSchedule(s, enabled, skip)
             \/ UNCHANGED schedVars
    BY <2>3 DEF ClockPasses, UpdateSchedule, schedVars, vars
  <2>4. CASE Others
    BY <2>4, OthersPlain DEF SInv
  <2>5. CASE SchedRestart
    BY <2>5 DEF SchedRestart
  <2> QED
    BY <2>1, <2>2, <2>3, <2>4, <2>5 DEF SchedNext
<1> QED
  BY <1>1, <1>2, SchedInvariance, PTL DEF SchedSpec, LedgerSpec, Ledger!LedgerSpec
=============================================================================
