-------------------------- MODULE JobRunnerProofs --------------------------
(***************************************************************************)
(* Proofs about JobRunner, for every set of ids and rows.                  *)
(***************************************************************************)
EXTENDS JobRunner, TLAPS, SequenceTheorems

USE JobRunnerAssumption DEF Terminal, Kinds, Single, Bulk

(***************************************************************************)
(* The inductive invariant.  It is stated of any maps js and ts of jobs    *)
(* and tasks, because a step may end a job and start others: it is carried *)
(* over the first half of the step, then over the second.                  *)
(***************************************************************************)

\* The task's phase tells the status, and only bulk jobs have children.
TaskOK(js, ts, j) ==
    /\ js[j] = None => ts[j].at = "none" /\ ts[j].kids = <<>>
    /\ js[j] # None =>
        /\ ts[j].at # "none"
        /\ js[j].status = "running"
              <=> ts[j].at \in {"new", "command", "report", "pause", "polling", "dead"}
        /\ ts[j].at \in {"command", "report", "pause"} => js[j].kind \in Single
        /\ ts[j].at = "new" => ts[j].kids = <<>> /\ ts[j].next = 1

Over(js, c) == js[c] # None /\ js[c].status \in Terminal

\* The children before "next" are over.
PollOK(js, ts, p) ==
    ts[p].at = "polling" =>
        /\ ts[p].kids # <<>>
        /\ \A i \in DOMAIN ts[p].kids : i < ts[p].next => Over(js, ts[p].kids[i])

VerdictOK(js, ts, p) ==
    Over(js, p) /\ js[p].kind \in Bulk =>
        /\ ts[p].kids # <<>>
        /\ \A i \in DOMAIN ts[p].kids : Over(js, ts[p].kids[i])
        /\ js[p].status = "failed"
              <=> \A i \in DOMAIN ts[p].kids : js[ts[p].kids[i]].status = "failed"

\* new: the jobs the step is about to start; their ids count as in memory.
Consistent(js, ts, us, new) ==
    /\ \A j \in JobIds : js[j] # None => j \in us
    /\ \A j \in JobIds : TaskOK(js, ts, j)
    /\ \A p \in JobIds : \A i \in DOMAIN ts[p].kids :
          js[ts[p].kids[i]] # None \/ ts[p].kids[i] \in new
    /\ \A p \in JobIds : PollOK(js, ts, p)
    /\ \A p \in JobIds : VerdictOK(js, ts, p)

RecordsOK ==
    \A j \in JobIds : records[j] # None =>
        /\ j \in used
        /\ records[j].status \in Terminal
        /\ InMemory(j) => /\ jobs[j].status = records[j].status
                         /\ jobs[j].parent = records[j].parent
                         /\ records[j].refs = jobs[j].refs \cap rows

IInv == TypeOK /\ Consistent(jobs, task, used, {}) /\ RecordsOK

\* The lists of children are sequences of distinct ids, not empty.
LEMMA ChildListsAreSequences ==
    ASSUME NEW kids \in ChildLists
    PROVE  /\ kids \in Seq(JobIds)
           /\ Len(kids) \in Nat \ {0}
           /\ DOMAIN kids = 1 .. Len(kids)
<1>1. PICK n \in 1 .. MaxChildren : kids \in [1 .. n -> JobIds]
  BY DEF ChildLists
<1>2. n \in Nat \ {0}
  BY <1>1
<1>3. kids \in Seq(JobIds)
  BY <1>1, <1>2, SeqDef
<1> QED
  BY <1>1, <1>2, <1>3, LenProperties

\* What starting jobs does to the two maps: the jobs it starts are new and
\* running, every other job is as the rest of the step leaves it.
LEMMA LaunchEffect ==
    ASSUME NEW new, NEW old, NEW t, Launch(new, old, t),
           DOMAIN new \subseteq JobIds
    PROVE  /\ \A j \in JobIds : j \in DOMAIN new =>
                  j \notin used /\ jobs'[j] = new[j] /\ task'[j] = NewTask
           /\ \A j \in JobIds : j \notin DOMAIN new =>
                  jobs'[j] = old[j] /\ task'[j] = t[j]
           /\ used' = used \cup DOMAIN new
           /\ DOMAIN jobs' = JobIds /\ DOMAIN task' = JobIds
BY DEF Launch

\* A new task and the absence of one are tasks.
LEMMA NewTaskType == NewTask \in Task /\ NoTask \in Task
<1>1. <<>> \in Seq(JobIds)
  OBVIOUS
<1> QED
  BY <1>1 DEF NewTask, NoTask, TaskAt, Task, Phases

\* A launch keeps the types of the two maps.
LEMMA LaunchType ==
    ASSUME NEW S \in SUBSET JobIds, NEW new \in [S -> Job],
           NEW old \in [JobIds -> Job \cup {None}], NEW t \in [JobIds -> Task],
           used \in SUBSET JobIds, Launch(new, old, t)
    PROVE  /\ jobs' \in [JobIds -> Job \cup {None}]
           /\ task' \in [JobIds -> Task]
           /\ used' \in SUBSET JobIds
<1>1. NewTask \in Task
  BY NewTaskType
<1> QED
  BY <1>1 DEF Launch

\* A new job is a job.
LEMMA NewJobType ==
    ASSUME NEW kind \in Kinds, NEW parent \in JobIds \cup {None},
           NEW refs \in SUBSET Rows
    PROVE  NewJob(kind, parent, refs) \in Job
BY DEF NewJob, Job

\* The foreign keys of a request name rows.
LEMMA RefSetsType ==
    ASSUME NEW kind, NEW refs \in RefSets(kind)
    PROVE  refs \in SUBSET Rows
BY DEF RefSets, Named, OwnObject, AtMostOne, Rows

\* A step of the task of j changes the phase of that task at most.
LEMMA PhaseType ==
    ASSUME TypeOK, NEW j \in JobIds, NEW at \in Phases,
           task' = [task EXCEPT ![j].at = at]
    PROVE  task' \in [JobIds -> Task]
<1>1. task[j] \in Task
  BY DEF TypeOK
<1>2. [task[j] EXCEPT !.at = at] \in Task
  BY <1>1 DEF Task
<1> QED
  BY <1>2 DEF TypeOK

\* A task that comes to its notification is a task.
LEMMA NotifyType ==
    ASSUME TypeOK, NEW j \in JobIds, NEW ok \in BOOLEAN
    PROVE  [task EXCEPT ![j].at = "notify", ![j].ok = ok] \in [JobIds -> Task]
<1>1. task[j] \in Task
  BY DEF TypeOK
<1>2. [task[j] EXCEPT !.at = "notify", !.ok = ok] \in Task
  BY <1>1 DEF Task, Phases
<1> QED
  BY <1>2 DEF TypeOK

\* The lock is released to no one.
LEMMA ReleasedType ==
    ASSUME TypeOK, NEW j
    PROVE  Released(j) \in JobIds \cup Origins \cup {None}
BY DEF TypeOK, Released

\* The verdict of a job in memory is a job, and so is what is stored of it.
LEMMA FinishType ==
    ASSUME TypeOK, NEW j \in JobIds, NEW ok \in BOOLEAN, InMemory(j), Finish(j, ok)
    PROVE  TypeOK'
<1>1. jobs[j] \in Job
  BY DEF TypeOK, InMemory
<1>2. Ended(j, ok) \in Job
  BY <1>1 DEF Ended, Job
<1>3. task' \in [JobIds -> Task]
  BY NotifyType DEF Finish
<1>4. holder' \in JobIds \cup Origins \cup {None}
  BY ReleasedType DEF Finish
<1> QED
  BY <1>2, <1>3, <1>4 DEF TypeOK, Finish, Persist

\* A task that starts to poll its children is a task.
LEMMA PollingType ==
    ASSUME NEW t \in Task, NEW kids \in Seq(JobIds)
    PROVE  [t EXCEPT !.at = "polling", !.kids = kids] \in Task
BY DEF Task, Phases

\* A task that starts to report is a task.
LEMMA ReportType ==
    ASSUME TypeOK, NEW j \in JobIds, NEW ok \in BOOLEAN
    PROVE  [task EXCEPT ![j].at = "report", ![j].ok = ok] \in [JobIds -> Task]
<1>1. [task[j] EXCEPT !.at = "report", !.ok = ok] \in Task
  <2>1. task[j] \in Task
    BY DEF TypeOK
  <2> QED
    BY <2>1 DEF Task, Phases
<1> QED
  BY <1>1 DEF TypeOK

\* The initial states are well typed.
LEMMA InitType == Init => TypeOK
<1> SUFFICES ASSUME Init PROVE TypeOK
  OBVIOUS
<1> QED
  BY NewTaskType DEF Init, TypeOK

\* Every step keeps the types.
LEMMA NextType ==
    ASSUME TypeOK, \A j \in JobIds : TaskOK(jobs, task, j), [Next]_vars
    PROVE  TypeOK'
<1>1. ASSUME NEW j \in JobIds, NEW kind \in Kinds, NEW refs \in RefSets(kind),
             Request(j, kind, refs)
      PROVE  TypeOK'
  <2>1. [i \in {j} |-> NewJob(kind, None, refs)] \in [{j} -> Job]
    BY <1>1, NewJobType, RefSetsType
  <2> QED
    BY <1>1, <2>1, LaunchType DEF Request, TypeOK
<1>2. ASSUME NEW j \in JobIds, NEW original \in JobIds,
             NEW kind \in {"command", "action"}, NEW user \in Users,
             Rerun(j, original, kind, user)
      PROVE  TypeOK'
  <2> DEFINE object == IF kind = "action"
                       THEN records[original].refs \cap Objects ELSE {}
             new == [i \in {j} |-> NewJob(kind, original, object \cup {user})]
  <2>1. object \cup {user} \in SUBSET Rows
    BY DEF Rows
  <2>2. new \in [{j} -> Job]
    BY <2>1, NewJobType
  <2>3. Launch(new, jobs, task) /\ UNCHANGED <<records, rows, holder, crashes>>
    BY <1>2 DEF Rerun
  <2> HIDE DEF new
  <2>4. {j} \in SUBSET JobIds
    OBVIOUS
  <2>5. /\ jobs' \in [JobIds -> Job \cup {None}]
        /\ task' \in [JobIds -> Task]
        /\ used' \in SUBSET JobIds
    BY <2>2, <2>3, <2>4, LaunchType DEF TypeOK
  <2> QED
    BY <2>3, <2>5 DEF TypeOK
<1>3. ASSUME NEW j \in JobIds, TaskStep(j)
      PROVE  TypeOK'
  <2>0. task[j].at # "none" => InMemory(j)
    BY DEF TaskOK, InMemory
  <2>1. CASE StartCommand(j)
    BY <2>1, PhaseType DEF StartCommand, TypeOK, Phases
  <2>2. CASE FailAtStart(j)
    BY <2>0, <2>2, FinishType DEF FailAtStart
  <2>3. CASE Die(j)
    BY <2>3, PhaseType DEF Die, TypeOK, Phases
  <2>4. ASSUME NEW ok \in BOOLEAN, CommandEnds(j, ok)
        PROVE  TypeOK'
    BY <2>0, <2>4, FinishType DEF CommandEnds
  <2>5. ASSUME NEW ok \in BOOLEAN, CommandEndsThenReports(j, ok)
        PROVE  TypeOK'
    BY <2>5, ReportType DEF CommandEndsThenReports, TypeOK
  <2>6. ASSUME NEW refresh \in JobIds, RestoreEnds(j, refresh)
        PROVE  TypeOK'
    <3>1. [i \in {refresh} |-> NewJob("command", None, {})] \in [{refresh} -> Job]
      BY NewJobType
    <3>2. [task EXCEPT ![j].at = "report", ![j].ok = TRUE] \in [JobIds -> Task]
      BY ReportType
    <3> QED
      BY <2>6, <3>1, <3>2, LaunchType DEF RestoreEnds, TypeOK
  <2>7. CASE Reported(j)
    <3>1. task[j].ok \in BOOLEAN
      BY DEF TypeOK, Task
    <3> QED
      BY <2>0, <2>7, <3>1, FinishType DEF Reported
  <2>8. ASSUME NEW sync \in JobIds, CreateReported(j, sync)
        PROVE  TypeOK'
    <3> DEFINE new == [i \in {sync} |-> NewJob("command", None, {})]
               old == [jobs EXCEPT ![j] = Ended(j, TRUE)]
               t == [task EXCEPT ![j].at = "notify", ![j].ok = TRUE]
    <3>1. new \in [{sync} -> Job]
      BY NewJobType
    <3>2. t \in [JobIds -> Task]
      BY NotifyType
    <3>3. Ended(j, TRUE) \in Job
      BY <2>0, <2>8 DEF CreateReported, TypeOK, InMemory, Ended, Job
    <3>4. old \in [JobIds -> Job \cup {None}]
      BY <3>3 DEF TypeOK
    <3>5. records' \in [JobIds -> Job \cup {None}]
      BY <2>8, <3>3 DEF CreateReported, Persist, TypeOK
    <3>6. Launch(new, old, t)
      BY <2>8 DEF CreateReported
    <3> HIDE DEF new, old, t
    <3>7. /\ jobs' \in [JobIds -> Job \cup {None}]
          /\ task' \in [JobIds -> Task]
          /\ used' \in SUBSET JobIds
      BY <3>1, <3>2, <3>4, <3>6, LaunchType DEF TypeOK
    <3> QED
      BY <2>8, <3>5, <3>7 DEF CreateReported, TypeOK
  <2>9. CASE NotifyHolding(j)
    BY <2>9 DEF NotifyHolding, TypeOK
  <2>10. ASSUME NEW next \in {"summary", "done"}, Notified(j, next)
         PROVE  TypeOK'
    <3>1. next \in Phases
      BY DEF Phases
    <3> QED
      BY <2>10, <3>1, PhaseType, ReleasedType DEF Notified, TypeOK
  <2>14. CASE Pause(j)
    BY <2>14, PhaseType, ReleasedType DEF Pause, TypeOK, Phases
  <2>11. ASSUME NEW kids \in ChildLists, NEW kind \in {"command", "action"},
                NEW own \in [SetOf(kids) -> OwnObject(kind)],
                StartChildren(j, kids, kind, own)
         PROVE  TypeOK'
    <3> DEFINE S == SetOf(kids)
               new == [c \in S |-> NewJob(kind, j, jobs[j].refs \cup own[c])]
    <3>0. kids \in Seq(JobIds)
      BY ChildListsAreSequences
    <3>1. S \in SUBSET JobIds
      BY ChildListsAreSequences DEF SetOf
    <3>2. \A c \in S : jobs[j].refs \cup own[c] \in SUBSET Rows
      BY <2>0, <2>11 DEF StartChildren, TypeOK, InMemory, Job, OwnObject, AtMostOne, Rows
    <3>3. new \in [S -> Job]
      BY <3>2, NewJobType
    <3>4. [task EXCEPT ![j].at = "polling", ![j].kids = kids] \in [JobIds -> Task]
      <4>1. [task[j] EXCEPT !.at = "polling", !.kids = kids] \in Task
        <5>1. task[j] \in Task
          BY DEF TypeOK
        <5> QED
          BY <3>0, <5>1, PollingType
      <4> QED
        BY <4>1 DEF TypeOK
    <3>5. Launch(new, jobs, [task EXCEPT ![j].at = "polling", ![j].kids = kids])
      BY <2>11 DEF StartChildren
    <3> HIDE DEF new, S
    <3>6. /\ jobs' \in [JobIds -> Job \cup {None}]
          /\ task' \in [JobIds -> Task]
          /\ used' \in SUBSET JobIds
      BY <3>1, <3>3, <3>4, <3>5, LaunchType DEF TypeOK
    <3> QED
      BY <2>11, <3>6 DEF StartChildren, TypeOK
  <2>12. CASE PollChildren(j)
    <3>1. \A i \in Pending(j) : i \in Nat
      BY DEF Pending, TypeOK, Task
    <3>2. ASSUME NEW i \in Nat
          PROVE  [task EXCEPT ![j].next = i] \in [JobIds -> Task]
      <4>1. [task[j] EXCEPT !.next = i] \in Task
        <5>1. task[j] \in Task
          BY DEF TypeOK
        <5> QED
          BY <3>2, <5>1 DEF Task
      <4> QED
        BY <4>1 DEF TypeOK
    <3> QED
      BY <2>12, <3>1, <3>2 DEF PollChildren, TypeOK
  <2>13. CASE FinishBulk(j)
    BY <2>0, <2>13, FinishType DEF FinishBulk
  <2> QED
    BY <1>3, <2>1, <2>2, <2>3, <2>4, <2>5, <2>6, <2>7, <2>8, <2>9, <2>10,
       <2>11, <2>12, <2>13, <2>14 DEF TaskStep
<1>4. ASSUME NEW r \in Rows, DeleteRow(r)
      PROVE  TypeOK'
  BY <1>4 DEF DeleteRow, TypeOK, Job
<1>5. CASE Restart
  BY <1>5, NewTaskType DEF Restart, TypeOK
<1>6. CASE UNCHANGED vars
  BY <1>6 DEF vars, TypeOK
<1> QED
  BY <1>1, <1>2, <1>3, <1>4, <1>5, <1>6 DEF Next

(***************************************************************************)
(* The two halves of a step.                                               *)
(***************************************************************************)

\* Starting jobs keeps the invariant.
LEMMA LaunchConsistent ==
    ASSUME TypeOK, NEW S \in SUBSET JobIds, NEW new \in [S -> Job],
           NEW old \in [JobIds -> Job \cup {None}], NEW t \in [JobIds -> Task],
           \A j \in S : new[j].status = "running",
           Consistent(old, t, used, S), Launch(new, old, t)
    PROVE  Consistent(jobs', task', used', {})
<1>1. /\ \A j \in JobIds : j \in S =>
             j \notin used /\ jobs'[j] = new[j] /\ task'[j] = NewTask
      /\ \A j \in JobIds : j \notin S => jobs'[j] = old[j] /\ task'[j] = t[j]
      /\ used' = used \cup S
  BY LaunchEffect
<1>2. \A j \in S : new[j] # None /\ old[j] = None
  <2> QED
    BY <1>1, NoneIsNoJob DEF Consistent
<1>3. /\ NewTask.at = "new" /\ NewTask.kids = <<>> /\ NewTask.next = 1
      /\ DOMAIN NewTask.kids = {}
  BY DEF NewTask, TaskAt
<1>4. \A c \in JobIds : Over(old, c) =>
         c \notin S /\ Over(jobs', c) /\ jobs'[c] = old[c]
  BY <1>1, <1>2 DEF Over
<1>5. \A p \in JobIds : \A i \in DOMAIN t[p].kids : t[p].kids[i] \in JobIds
  BY DEF Task
<1>6. \A j \in JobIds : jobs'[j] # None => j \in used'
  BY <1>1 DEF Consistent
<1>7. \A j \in JobIds : TaskOK(jobs', task', j)
  <2> SUFFICES ASSUME NEW j \in JobIds PROVE TaskOK(jobs', task', j)
    OBVIOUS
  <2>1. CASE j \in S
    BY <1>1, <1>2, <1>3, <2>1 DEF TaskOK
  <2>2. CASE j \notin S
    BY <1>1, <2>2 DEF TaskOK, Consistent
  <2> QED
    BY <2>1, <2>2
<1>8. \A p \in JobIds : \A i \in DOMAIN task'[p].kids : jobs'[task'[p].kids[i]] # None
  <2> SUFFICES ASSUME NEW p \in JobIds, NEW i \in DOMAIN task'[p].kids
               PROVE  jobs'[task'[p].kids[i]] # None
    OBVIOUS
  <2>1. p \notin S
    BY <1>1, <1>3
  <2>2. task'[p] = t[p] /\ t[p].kids[i] \in JobIds
    BY <1>1, <1>5, <2>1
  <2>3. old[t[p].kids[i]] # None \/ t[p].kids[i] \in S
    BY <2>2 DEF Consistent
  <2> QED
    BY <1>1, <1>2, <2>2, <2>3
<1>9. \A p \in JobIds : PollOK(jobs', task', p)
  <2> SUFFICES ASSUME NEW p \in JobIds, task'[p].at = "polling"
               PROVE  PollOK(jobs', task', p)
    BY DEF PollOK
  <2>1. p \notin S /\ task'[p] = t[p]
    BY <1>1, <1>3
  <2>2. PollOK(old, t, p)
    BY DEF Consistent
  <2> QED
    BY <1>4, <1>5, <2>1, <2>2 DEF PollOK
<1>10. \A p \in JobIds : VerdictOK(jobs', task', p)
  <2> SUFFICES ASSUME NEW p \in JobIds, Over(jobs', p)
               PROVE  VerdictOK(jobs', task', p)
    BY DEF VerdictOK
  <2>1. p \notin S
    BY <1>1 DEF Over
  <2>2. jobs'[p] = old[p] /\ task'[p] = t[p] /\ Over(old, p)
    BY <1>1, <2>1 DEF Over
  <2>3. VerdictOK(old, t, p)
    BY DEF Consistent
  <2> QED
    BY <1>4, <1>5, <2>2, <2>3 DEF VerdictOK
<1> QED
  BY <1>6, <1>7, <1>8, <1>9, <1>10 DEF Consistent

\* Ending a job keeps the invariant: no job that is over counts the ending
\* job among its children, and a bulk job ends when its children are over.
LEMMA FinishConsistent ==
    ASSUME TypeOK, Consistent(jobs, task, used, {}), NEW j \in JobIds, NEW ok,
           Running(j),
           \/ jobs[j].kind \in Single
           \/ /\ task[j].at = "polling"
              /\ Pending(j) = {}
              /\ ok = ~AllFailed(task[j].kids)
    PROVE  Consistent([jobs EXCEPT ![j] = Ended(j, ok)],
                      [task EXCEPT ![j].at = "notify", ![j].ok = ok], used, {})
<1> DEFINE js == [jobs EXCEPT ![j] = Ended(j, ok)]
           ts == [task EXCEPT ![j].at = "notify", ![j].ok = ok]
<1>1. jobs[j] \in Job /\ task[j] \in Task /\ jobs[j].status = "running"
  BY DEF TypeOK, Running, InMemory
<1>2. /\ js[j] # None
      /\ js[j].status \in Terminal
      /\ js[j].kind = jobs[j].kind
      /\ js[j].status = IF ok THEN "completed" ELSE "failed"
  <2>1. Ended(j, ok) \in Job
    BY <1>1 DEF Ended, Job
  <2>2. js[j] = Ended(j, ok)
    BY DEF TypeOK
  <2> QED
    BY <1>1, <2>1, <2>2, NoneIsNoJob DEF Ended, Job
<1>3. \A c \in JobIds : c # j => js[c] = jobs[c] /\ ts[c] = task[c]
  BY DEF TypeOK
<1>4. /\ ts[j].at = "notify"
      /\ ts[j].kids = task[j].kids
      /\ ts[j].next = task[j].next
  BY <1>1 DEF TypeOK, Task
<1>5. \A p \in JobIds : ts[p].kids = task[p].kids /\ ts[p].next = task[p].next
  BY <1>3, <1>4
<1>6. \A p \in JobIds : \A i \in DOMAIN task[p].kids : task[p].kids[i] \in JobIds
  BY DEF TypeOK, Task
<1>7. \A c \in JobIds : Over(jobs, c) => Over(js, c) /\ js[c] = jobs[c]
  BY <1>1, <1>3 DEF Over
<1> HIDE DEF js, ts
<1>8. \A c \in JobIds : js[c] # None => c \in used
  BY <1>1, <1>3 DEF Consistent, Running, InMemory
<1>9. \A c \in JobIds : TaskOK(js, ts, c)
  <2> SUFFICES ASSUME NEW c \in JobIds PROVE TaskOK(js, ts, c)
    OBVIOUS
  <2>1. CASE c = j
    BY <1>2, <1>4, <2>1 DEF TaskOK
  <2>2. CASE c # j
    BY <1>3, <2>2 DEF TaskOK, Consistent
  <2> QED
    BY <2>1, <2>2
<1>10. \A p \in JobIds : \A i \in DOMAIN ts[p].kids : js[ts[p].kids[i]] # None
  BY <1>2, <1>3, <1>5, <1>6 DEF Consistent
<1>11. \A p \in JobIds : PollOK(js, ts, p)
  <2> SUFFICES ASSUME NEW p \in JobIds, ts[p].at = "polling"
               PROVE  PollOK(js, ts, p)
    BY DEF PollOK
  <2>1. p # j /\ ts[p] = task[p]
    BY <1>3, <1>4
  <2>2. PollOK(jobs, task, p)
    BY DEF Consistent
  <2> QED
    BY <1>6, <1>7, <2>1, <2>2 DEF PollOK
<1>12. \A p \in JobIds : VerdictOK(js, ts, p)
  <2> SUFFICES ASSUME NEW p \in JobIds, Over(js, p), js[p].kind \in Bulk
               PROVE  VerdictOK(js, ts, p)
    BY DEF VerdictOK
  <2>1. CASE p # j
    <3>1. Over(jobs, p) /\ VerdictOK(jobs, task, p) /\ jobs[p] = js[p]
      BY <1>3, <2>1 DEF Over, Consistent
    <3> QED
      BY <1>5, <1>6, <1>7, <3>1 DEF VerdictOK
  <2>2. CASE p = j
    <3>1. /\ task[j].at = "polling"
          /\ Pending(j) = {}
          /\ ok = ~AllFailed(task[j].kids)
      BY <1>2, <2>2
    <3>2. task[j].kids # <<>>
      BY <3>1 DEF Consistent, PollOK
    <3>3. \A i \in DOMAIN task[j].kids : Over(jobs, task[j].kids[i])
      <4> SUFFICES ASSUME NEW i \in DOMAIN task[j].kids
                   PROVE  Over(jobs, task[j].kids[i])
        OBVIOUS
      <4>1. i \in Nat /\ task[j].next \in Nat /\ i <= Len(task[j].kids)
        BY <1>1 DEF Task
      <4>2. CASE i < task[j].next
        BY <3>1, <4>2 DEF Consistent, PollOK
      <4>3. CASE i >= task[j].next
        <5>1. ~Running(task[j].kids[i])
          <6>1. i \in task[j].next .. Len(task[j].kids)
            BY <1>1, <4>1, <4>3 DEF Task
          <6> QED
            BY <3>1, <6>1 DEF Pending
        <5>2. jobs[task[j].kids[i]] \in Job
          BY <1>6 DEF Consistent, TypeOK
        <5> QED
          BY <5>1, <5>2, NoneIsNoJob DEF Running, InMemory, Over, Job
      <4>4. i < task[j].next \/ i >= task[j].next
        BY <4>1
      <4> QED
        BY <4>2, <4>3, <4>4
    <3>4. \A i \in DOMAIN task[j].kids :
             /\ Over(js, task[j].kids[i])
             /\ js[task[j].kids[i]] = jobs[task[j].kids[i]]
      BY <1>6, <1>7, <3>3
    <3>5. AllFailed(task[j].kids)
             <=> \A i \in DOMAIN task[j].kids : jobs[task[j].kids[i]].status = "failed"
      BY <3>3 DEF AllFailed, Over
    <3>6. js[j].status = "failed" <=> AllFailed(task[j].kids)
      BY <1>2, <3>1
    <3>7. ts[j].kids = task[j].kids
      BY <1>5
    <3> QED
      BY <2>2, <3>2, <3>4, <3>5, <3>6, <3>7 DEF VerdictOK
  <2> QED
    BY <2>1, <2>2
<1> QED
  BY <1>8, <1>9, <1>10, <1>11, <1>12 DEF Consistent, js, ts

\* The records after the verdict of j is stored, or refused.
LEMMA PersistRecords ==
    ASSUME TypeOK, RecordsOK, NEW j \in JobIds, NEW ok, Running(j),
           j \in used, Persist(j, Ended(j, ok))
    PROVE  \A c \in JobIds : records'[c] # None =>
              /\ c \in used
              /\ records'[c].status \in Terminal
              /\ c = j => /\ records'[c] = Ended(j, ok)
                         /\ Ended(j, ok).refs = jobs[j].refs
                         /\ jobs[j].refs \subseteq rows
              /\ c # j => records'[c] = records[c]
<1>1. jobs[j] \in Job
  BY DEF TypeOK, Running, InMemory
<1>2. records[j] = None
  BY <1>1 DEF RecordsOK, Running, InMemory
<1>3. /\ Ended(j, ok) \in Job
      /\ Ended(j, ok).status \in Terminal
      /\ Ended(j, ok).refs = jobs[j].refs
      /\ Ended(j, ok).parent = jobs[j].parent
  BY <1>1 DEF Ended, Job
<1>4. CASE Persistable(j, Ended(j, ok))
  <2>1. records' = [records EXCEPT ![j] = Ended(j, ok)]
    BY <1>4 DEF Persist
  <2>2. records'[j] = Ended(j, ok) /\ \A c \in JobIds \ {j} : records'[c] = records[c]
    BY <2>1 DEF TypeOK
  <2>3. jobs[j].refs \subseteq rows
    BY <1>3, <1>4 DEF Persistable
  <2> QED
    BY <1>3, <2>2, <2>3 DEF RecordsOK
<1>5. CASE ~Persistable(j, Ended(j, ok))
  BY <1>2, <1>5 DEF Persist, RecordsOK
<1> QED
  BY <1>4, <1>5

\* Finish, as every way of ending a job uses it.
LEMMA FinishKeeps ==
    ASSUME IInv, NEW j \in JobIds, NEW ok, Running(j), Finish(j, ok),
           \/ jobs[j].kind \in Single
           \/ /\ task[j].at = "polling"
              /\ Pending(j) = {}
              /\ ok = ~AllFailed(task[j].kids)
    PROVE  Consistent(jobs', task', used', {}) /\ RecordsOK'
<1>1. Consistent(jobs', task', used', {})
  BY FinishConsistent DEF IInv, Finish
<1>2. j \in used /\ jobs[j] \in Job
  BY DEF IInv, Consistent, Running, InMemory, TypeOK
<1>3. \A c \in JobIds : records'[c] # None =>
         /\ c \in used
         /\ records'[c].status \in Terminal
         /\ c = j => /\ records'[c] = Ended(j, ok)
                    /\ Ended(j, ok).refs = jobs[j].refs
                    /\ jobs[j].refs \subseteq rows
         /\ c # j => records'[c] = records[c]
  BY <1>2, PersistRecords DEF IInv, Finish
<1>4. /\ jobs'[j] = Ended(j, ok) /\ \A c \in JobIds : c # j => jobs'[c] = jobs[c]
      /\ used' = used /\ rows' = rows
  BY DEF Finish, IInv, TypeOK
<1>5. RecordsOK'
  <2> SUFFICES ASSUME NEW c \in JobIds, records'[c] # None
               PROVE  /\ c \in used'
                      /\ records'[c].status \in Terminal
                      /\ jobs'[c] # None =>
                            /\ jobs'[c].status = records'[c].status
                            /\ jobs'[c].parent = records'[c].parent
                            /\ records'[c].refs = jobs'[c].refs \cap rows'
    BY DEF RecordsOK, InMemory
  <2>1. CASE c = j
    BY <1>3, <1>4, <2>1
  <2>2. CASE c # j
    BY <1>3, <1>4, <2>2 DEF IInv, RecordsOK, InMemory
  <2> QED
    BY <2>1, <2>2
<1> QED
  BY <1>1, <1>5

\* A launch alone touches neither records nor rows, and no id it gives out
\* has a record.
LEMMA LaunchRecords ==
    ASSUME RecordsOK, NEW S \in SUBSET JobIds, NEW new, DOMAIN new = S,
           NEW t, Launch(new, jobs, t), UNCHANGED <<records, rows>>
    PROVE  RecordsOK'
<1>1. /\ \A c \in JobIds : c \in S => c \notin used
      /\ \A c \in JobIds : c \notin S => jobs'[c] = jobs[c]
      /\ used' = used \cup S
  BY LaunchEffect
<1> QED
  BY <1>1 DEF RecordsOK, InMemory

\* A step that moves the task of j between two phases of the same meaning.
LEMMA PhaseKeeps ==
    ASSUME IInv, NEW j \in JobIds, NEW at \in Phases,
           task' = [task EXCEPT ![j].at = at], InMemory(j),
           UNCHANGED <<jobs, records, rows, used>>,
           \/ /\ task[j].at \in {"new", "command"} /\ at \in {"command", "report", "dead"}
              /\ jobs[j].kind \in Single
           \/ task[j].at = "report" /\ at = "pause"
           \/ task[j].at \in {"notify", "summary"} /\ at \in {"summary", "done"}
    PROVE  Consistent(jobs', task', used', {}) /\ RecordsOK'
<1>1. /\ task'[j].at = at /\ task'[j].kids = task[j].kids /\ task'[j].next = task[j].next
      /\ \A c \in JobIds : c # j => task'[c] = task[c]
  BY DEF IInv, TypeOK, Task
<1>2. \A c \in JobIds : task'[c].kids = task[c].kids
  BY <1>1
<1>3. \A c \in JobIds : TaskOK(jobs, task', c)
  <2> SUFFICES ASSUME NEW c \in JobIds PROVE TaskOK(jobs, task', c)
    OBVIOUS
  <2>1. TaskOK(jobs, task, c)
    BY DEF IInv, Consistent
  <2> QED
    BY <1>1, <2>1 DEF TaskOK, InMemory
<1>4. \A p \in JobIds : PollOK(jobs, task', p)
  <2> SUFFICES ASSUME NEW p \in JobIds, task'[p].at = "polling" PROVE PollOK(jobs, task', p)
    BY DEF PollOK
  <2>1. task'[p] = task[p] /\ PollOK(jobs, task, p)
    BY <1>1 DEF IInv, Consistent
  <2> QED
    BY <2>1 DEF PollOK
<1>5. \A p \in JobIds : VerdictOK(jobs, task', p)
  <2> SUFFICES ASSUME NEW p \in JobIds PROVE VerdictOK(jobs, task', p)
    OBVIOUS
  <2>1. VerdictOK(jobs, task, p) /\ task'[p].kids = task[p].kids
    BY <1>2 DEF IInv, Consistent
  <2> QED
    BY <2>1 DEF VerdictOK
<1>6. Consistent(jobs, task', used, {})
  BY <1>2, <1>3, <1>4, <1>5 DEF IInv, Consistent
<1>7. RecordsOK'
  BY DEF IInv, RecordsOK, InMemory
<1> QED
  BY <1>6, <1>7

(***************************************************************************)
(* The invariant is inductive.                                             *)
(***************************************************************************)

\* The invariant holds initially: no job, no record.
LEMMA InitIInv == Init => IInv
<1> SUFFICES ASSUME Init PROVE IInv
  OBVIOUS
<1>1. \A j \in JobIds : jobs[j] = None /\ records[j] = None /\ task[j] = NoTask
  BY DEF Init
<1>2. NoTask.at = "none" /\ NoTask.kids = <<>> /\ DOMAIN NoTask.kids = {}
  BY DEF NoTask, TaskAt
<1>3. Consistent(jobs, task, used, {})
  BY <1>1, <1>2 DEF Consistent, TaskOK, PollOK, VerdictOK, Over
<1> QED
  BY <1>1, <1>3, InitType DEF IInv, RecordsOK

\* Starting one job beside the others.
LEMMA LaunchOneKeeps ==
    ASSUME IInv, NEW j \in JobIds, NEW job \in Job, job.status = "running",
           Launch([i \in {j} |-> job], jobs, task), UNCHANGED <<records, rows>>
    PROVE  Consistent(jobs', task', used', {}) /\ RecordsOK'
<1> DEFINE new == [i \in {j} |-> job]
<1>1. new \in [{j} -> Job] /\ DOMAIN new = {j} /\ \A i \in {j} : new[i].status = "running"
  OBVIOUS
<1>2. Consistent(jobs, task, used, {j})
  BY DEF IInv, Consistent
<1>3. {j} \in SUBSET JobIds
  OBVIOUS
<1>4. Launch(new, jobs, task)
  OBVIOUS
<1> HIDE DEF new
<1>5. Consistent(jobs', task', used', {})
  BY <1>1, <1>2, <1>3, <1>4, LaunchConsistent DEF IInv, TypeOK
<1>6. RecordsOK'
  BY <1>1, <1>3, <1>4, LaunchRecords DEF IInv
<1> QED
  BY <1>5, <1>6

\* A new job is running.
LEMMA NewJobStatus ==
    ASSUME NEW kind, NEW parent, NEW refs
    PROVE  NewJob(kind, parent, refs).status = "running"
BY DEF NewJob

\* A bulk parent starts its children.
LEMMA StartChildrenKeeps ==
    ASSUME IInv, NEW j \in JobIds, NEW kids \in ChildLists,
           NEW kind \in {"command", "action"}, NEW own \in [SetOf(kids) -> OwnObject(kind)],
           StartChildren(j, kids, kind, own)
    PROVE  Consistent(jobs', task', used', {}) /\ RecordsOK'
<1> DEFINE S == SetOf(kids)
           new == [c \in S |-> NewJob(kind, j, jobs[j].refs \cup own[c])]
           t == [task EXCEPT ![j].at = "polling", ![j].kids = kids]
<1>1. kids \in Seq(JobIds) /\ kids # <<>>
  BY ChildListsAreSequences
<1>2. S \in SUBSET JobIds
  BY ChildListsAreSequences DEF SetOf
<1>3. InMemory(j) /\ task[j].at = "new" /\ jobs[j] \in Job /\ jobs[j].status = "running"
  BY DEF StartChildren, IInv, Consistent, TaskOK, InMemory, TypeOK
<1>4. \A c \in S : jobs[j].refs \cup own[c] \in SUBSET Rows
  BY <1>3 DEF Job, OwnObject, AtMostOne, Rows
<1>5. new \in [S -> Job] /\ DOMAIN new = S /\ \A c \in S : new[c].status = "running"
  BY <1>4, NewJobType, NewJobStatus
<1>6. t \in [JobIds -> Task]
  <2>1. task[j] \in Task
    BY DEF IInv, TypeOK
  <2>2. [task[j] EXCEPT !.at = "polling", !.kids = kids] \in Task
    BY <1>1, <2>1, PollingType
  <2> QED
    BY <2>2 DEF IInv, TypeOK
<1>7. /\ t[j].at = "polling" /\ t[j].kids = kids /\ t[j].next = 1
      /\ \A c \in JobIds : c # j => t[c] = task[c]
  <2>1. task[j] \in Task /\ task[j].next = 1
    BY <1>3 DEF IInv, TypeOK, Consistent, TaskOK, InMemory
  <2> QED
    BY <2>1 DEF IInv, TypeOK, Task
<1>8. Launch(new, jobs, t) /\ UNCHANGED <<records, rows>>
  BY DEF StartChildren
<1>9. \A i \in DOMAIN kids : kids[i] \in S /\ i \in Nat /\ ~(i < 1)
  BY <1>1 DEF SetOf
<1> HIDE DEF new, S, t
<1>10. Consistent(jobs, t, used, S)
  <2>1. \A c \in JobIds : TaskOK(jobs, t, c)
    BY <1>3, <1>7 DEF IInv, Consistent, TaskOK, InMemory
  <2>2. \A p \in JobIds : \A i \in DOMAIN t[p].kids :
           jobs[t[p].kids[i]] # None \/ t[p].kids[i] \in S
    BY <1>7, <1>9 DEF IInv, Consistent
  <2>3. \A p \in JobIds : PollOK(jobs, t, p)
    <3> SUFFICES ASSUME NEW p \in JobIds PROVE PollOK(jobs, t, p)
      OBVIOUS
    <3>1. CASE p = j
      BY <1>1, <1>7, <1>9, <3>1 DEF PollOK
    <3>2. CASE p # j
      BY <1>7, <3>2 DEF IInv, Consistent, PollOK
    <3> QED
      BY <3>1, <3>2
  <2>4. \A p \in JobIds : VerdictOK(jobs, t, p)
    <3> SUFFICES ASSUME NEW p \in JobIds, Over(jobs, p) PROVE VerdictOK(jobs, t, p)
      BY DEF VerdictOK
    <3>1. p # j
      BY <1>3 DEF Over
    <3> QED
      BY <1>7, <3>1 DEF IInv, Consistent, VerdictOK
  <2> QED
    BY <2>1, <2>2, <2>3, <2>4 DEF IInv, Consistent
<1>11. Consistent(jobs', task', used', {})
  BY <1>2, <1>5, <1>6, <1>8, <1>10, LaunchConsistent DEF IInv, TypeOK
<1>12. RecordsOK'
  BY <1>2, <1>5, <1>8, LaunchRecords DEF IInv
<1> QED
  BY <1>11, <1>12

\* A restored snapshot: the restore goes on to report, a refresh starts.
LEMMA RestoreEndsKeeps ==
    ASSUME IInv, NEW j \in JobIds, NEW refresh \in JobIds, RestoreEnds(j, refresh)
    PROVE  Consistent(jobs', task', used', {}) /\ RecordsOK'
<1> DEFINE new == [i \in {refresh} |-> NewJob("command", None, {})]
           t == [task EXCEPT ![j].at = "report", ![j].ok = TRUE]
<1>1. new \in [{refresh} -> Job] /\ DOMAIN new = {refresh}
      /\ \A i \in {refresh} : new[i].status = "running"
  BY NewJobType, NewJobStatus
<1>2. t \in [JobIds -> Task]
  BY ReportType DEF IInv
<1>3. /\ t[j].at = "report" /\ t[j].kids = task[j].kids /\ t[j].next = task[j].next
      /\ \A c \in JobIds : c # j => t[c] = task[c]
  <2>1. task[j] \in Task
    BY DEF IInv, TypeOK
  <2> QED
    BY <2>1 DEF IInv, TypeOK, Task
<1>4. Launch(new, jobs, t) /\ UNCHANGED <<records, rows>> /\ {refresh} \in SUBSET JobIds
  BY DEF RestoreEnds
<1>5. task[j].at = "command" /\ jobs[j].kind = "restore_snapshot"
  BY DEF RestoreEnds
<1> HIDE DEF new, t
<1>6. Consistent(jobs, t, used, {refresh})
  <2>0. \A c \in JobIds : t[c].kids = task[c].kids /\ t[c].next = task[c].next
    BY <1>3
  <2>1. \A c \in JobIds : TaskOK(jobs, t, c)
    BY <1>3, <1>5 DEF IInv, Consistent, TaskOK
  <2>2. \A p \in JobIds : PollOK(jobs, t, p)
    BY <1>3 DEF IInv, Consistent, PollOK
  <2>3. \A p \in JobIds : VerdictOK(jobs, t, p)
    BY <2>0 DEF IInv, Consistent, VerdictOK
  <2> QED
    BY <2>0, <2>1, <2>2, <2>3 DEF IInv, Consistent
<1>7. Consistent(jobs', task', used', {})
  BY <1>1, <1>2, <1>4, <1>6, LaunchConsistent DEF IInv, TypeOK
<1>8. RecordsOK'
  BY <1>1, <1>4, LaunchRecords DEF IInv
<1> QED
  BY <1>7, <1>8

\* A created snapshot: the create ends and a sync starts, in one step.
LEMMA CreateReportedKeeps ==
    ASSUME IInv, NEW j \in JobIds, NEW sync \in JobIds, CreateReported(j, sync)
    PROVE  Consistent(jobs', task', used', {}) /\ RecordsOK'
<1> DEFINE new == [i \in {sync} |-> NewJob("command", None, {})]
           old == [jobs EXCEPT ![j] = Ended(j, TRUE)]
           t == [task EXCEPT ![j].at = "notify", ![j].ok = TRUE]
<1>1. new \in [{sync} -> Job] /\ DOMAIN new = {sync}
      /\ \A i \in {sync} : new[i].status = "running"
  BY NewJobType, NewJobStatus
<1>2. Running(j) /\ jobs[j] \in Job /\ j \in used
  BY DEF CreateReported, IInv, TypeOK, Consistent, TaskOK, Running, InMemory
<1>3. Ended(j, TRUE) \in Job
  BY <1>2 DEF Ended, Job
<1>4. old \in [JobIds -> Job \cup {None}]
  BY <1>3 DEF IInv, TypeOK
<1>5. t \in [JobIds -> Task]
  BY NotifyType DEF IInv
<1>6. /\ Launch(new, old, t) /\ {sync} \in SUBSET JobIds
      /\ Persist(j, Ended(j, TRUE)) /\ rows' = rows
  BY DEF CreateReported
<1>7. Consistent(old, t, used, {})
  <2>1. jobs[j].kind \in Single
    BY <1>2 DEF CreateReported, IInv, Consistent, TaskOK, Running, InMemory
  <2> QED
    BY <1>2, <2>1, FinishConsistent DEF IInv
<1>8. old[j] = Ended(j, TRUE) /\ \A c \in JobIds : c # j => old[c] = jobs[c]
  BY DEF IInv, TypeOK
<1>9. \A c \in JobIds : records'[c] # None =>
         /\ c \in used
         /\ records'[c].status \in Terminal
         /\ c = j => /\ records'[c] = Ended(j, TRUE)
                    /\ Ended(j, TRUE).refs = jobs[j].refs
                    /\ jobs[j].refs \subseteq rows
         /\ c # j => records'[c] = records[c]
  BY <1>2, <1>6, PersistRecords DEF IInv
<1> HIDE DEF new, old, t
<1>10. Consistent(old, t, used, {sync})
  BY <1>7 DEF Consistent
<1>11. Consistent(jobs', task', used', {})
  BY <1>1, <1>4, <1>5, <1>6, <1>10, LaunchConsistent DEF IInv, TypeOK
<1>12. /\ \A c \in JobIds : c \in {sync} => c \notin used
       /\ \A c \in JobIds : c \notin {sync} => jobs'[c] = old[c]
       /\ used' = used \cup {sync}
  BY <1>1, <1>6, LaunchEffect
<1>13. RecordsOK'
  <2> SUFFICES ASSUME NEW c \in JobIds, records'[c] # None
               PROVE  /\ c \in used'
                      /\ records'[c].status \in Terminal
                      /\ jobs'[c] # None =>
                            /\ jobs'[c].status = records'[c].status
                            /\ jobs'[c].parent = records'[c].parent
                            /\ records'[c].refs = jobs'[c].refs \cap rows'
    BY DEF RecordsOK, InMemory
  <2>1. c # sync /\ jobs'[c] = old[c]
    BY <1>9, <1>12
  <2>2. CASE c = j
    <3>1. jobs'[c] = records'[c] /\ records'[c].refs \subseteq rows' /\ c \in used'
      BY <1>6, <1>8, <1>9, <1>12, <2>1, <2>2
    <3>2. records'[c].status \in Terminal
      BY <1>9
    <3> QED
      BY <3>1, <3>2
  <2>3. CASE c # j
    <3>1. /\ records'[c] = records[c] /\ jobs'[c] = jobs[c] /\ c \in used'
          /\ rows' = rows
      BY <1>6, <1>8, <1>9, <1>12, <2>1, <2>3
    <3> QED
      BY <3>1 DEF IInv, RecordsOK, InMemory
  <2> QED
    BY <2>2, <2>3
<1> QED
  BY <1>11, <1>13

\* Deleting a row clears the foreign keys of the records.
LEMMA DeleteRowKeeps ==
    ASSUME IInv, NEW r \in Rows, DeleteRow(r)
    PROVE  Consistent(jobs', task', used', {}) /\ RecordsOK'
<1>1. Consistent(jobs', task', used', {})
  BY DEF IInv, DeleteRow
<1>2. \A c \in JobIds : records'[c] # None =>
         /\ records[c] # None
         /\ records'[c].status = records[c].status
         /\ records'[c].parent = records[c].parent
         /\ records'[c].refs = records[c].refs \ {r}
  BY DEF IInv, TypeOK, DeleteRow, Job
<1>3. rows' = rows \ {r} /\ used' = used /\ jobs' = jobs
  BY DEF DeleteRow
<1>4. RecordsOK'
  BY <1>2, <1>3 DEF IInv, RecordsOK, InMemory
<1> QED
  BY <1>1, <1>4

\* A restart forgets the jobs and the tasks, and keeps the records.
LEMMA RestartKeeps ==
    ASSUME IInv, Restart
    PROVE  Consistent(jobs', task', used', {}) /\ RecordsOK'
<1>1. \A c \in JobIds : jobs'[c] = None /\ task'[c] = NoTask
  BY DEF Restart
<1>2. NoTask.at = "none" /\ NoTask.kids = <<>> /\ DOMAIN NoTask.kids = {}
  BY DEF NoTask, TaskAt
<1>3. Consistent(jobs', task', used', {})
  BY <1>1, <1>2 DEF Consistent, TaskOK, PollOK, VerdictOK, Over
<1>4. RecordsOK'
  BY <1>1 DEF IInv, RecordsOK, InMemory, Restart
<1> QED
  BY <1>3, <1>4

\* Every step of a task keeps the invariant, one case for each action.
LEMMA TaskStepKeeps ==
    ASSUME IInv, NEW j \in JobIds, TaskStep(j)
    PROVE  Consistent(jobs', task', used', {}) /\ RecordsOK'
<1>1. /\ task[j].at # "none" => InMemory(j)
      /\ task[j].at \in {"new", "command", "report", "pause", "polling"} => Running(j)
      /\ task[j].at \in {"command", "report", "pause"} => jobs[j].kind \in Single
  BY DEF IInv, Consistent, TaskOK, InMemory, Running
<1>2. CASE StartCommand(j)
  BY <1>1, <1>2, PhaseKeeps DEF StartCommand, Phases
<1>3. CASE FailAtStart(j)
  BY <1>1, <1>3, FinishKeeps DEF FailAtStart
<1>4. CASE Die(j)
  BY <1>1, <1>4, PhaseKeeps DEF Die, Phases
<1>5. ASSUME NEW ok \in BOOLEAN, CommandEnds(j, ok)
      PROVE  Consistent(jobs', task', used', {}) /\ RecordsOK'
  BY <1>1, <1>5, FinishKeeps DEF CommandEnds
<1>6. ASSUME NEW ok \in BOOLEAN, CommandEndsThenReports(j, ok)
      PROVE  Consistent(jobs', task', used', {}) /\ RecordsOK'
  <2>1. /\ task'[j].at = "report" /\ task'[j].kids = task[j].kids
        /\ task'[j].next = task[j].next
        /\ \A c \in JobIds : c # j => task'[c] = task[c]
    <3>1. task[j] \in Task
      BY DEF IInv, TypeOK
    <3> QED
      BY <1>6, <3>1 DEF IInv, TypeOK, Task, CommandEndsThenReports
  <2>2. UNCHANGED <<jobs, records, rows, used>> /\ task[j].at = "command"
    BY <1>6 DEF CommandEndsThenReports
  <2>3. \A c \in JobIds : task'[c].kids = task[c].kids /\ task'[c].next = task[c].next
    BY <2>1
  <2>4. \A c \in JobIds : TaskOK(jobs, task', c)
    BY <1>1, <2>1, <2>2 DEF IInv, Consistent, TaskOK
  <2>5. \A p \in JobIds : PollOK(jobs, task', p)
    BY <2>1 DEF IInv, Consistent, PollOK
  <2>6. \A p \in JobIds : VerdictOK(jobs, task', p)
    BY <2>3 DEF IInv, Consistent, VerdictOK
  <2>7. Consistent(jobs, task', used, {})
    BY <2>3, <2>4, <2>5, <2>6 DEF IInv, Consistent
  <2> QED
    BY <2>2, <2>7 DEF IInv, RecordsOK, InMemory
<1>7. ASSUME NEW refresh \in JobIds, RestoreEnds(j, refresh)
      PROVE  Consistent(jobs', task', used', {}) /\ RecordsOK'
  BY <1>7, RestoreEndsKeeps
<1>8. CASE Reported(j)
  BY <1>1, <1>8, FinishKeeps DEF Reported
<1>9. ASSUME NEW sync \in JobIds, CreateReported(j, sync)
      PROVE  Consistent(jobs', task', used', {}) /\ RecordsOK'
  BY <1>9, CreateReportedKeeps
<1>10. CASE NotifyHolding(j)
  BY <1>10 DEF NotifyHolding, IInv, RecordsOK, InMemory
<1>11. ASSUME NEW next \in {"summary", "done"}, Notified(j, next)
       PROVE  Consistent(jobs', task', used', {}) /\ RecordsOK'
  BY <1>1, <1>11, PhaseKeeps DEF Notified, Phases
<1>15. CASE Pause(j)
  BY <1>1, <1>15, PhaseKeeps DEF Pause, Phases
<1>12. ASSUME NEW kids \in ChildLists, NEW kind \in {"command", "action"},
              NEW own \in [SetOf(kids) -> OwnObject(kind)], StartChildren(j, kids, kind, own)
       PROVE  Consistent(jobs', task', used', {}) /\ RecordsOK'
  BY <1>12, StartChildrenKeeps
<1>13. CASE PollChildren(j)
  <2>1. PICK i \in Pending(j) :
           /\ \A k \in Pending(j) : i <= k
           /\ task' = [task EXCEPT ![j].next = i]
    BY <1>13 DEF PollChildren
  <2>2. task[j] \in Task /\ task[j].at = "polling" /\ UNCHANGED <<jobs, records, rows, used>>
    BY <1>13 DEF PollChildren, IInv, TypeOK
  <2>3. /\ task'[j].at = task[j].at /\ task'[j].kids = task[j].kids /\ task'[j].next = i
        /\ \A c \in JobIds : c # j => task'[c] = task[c]
    BY <2>1, <2>2 DEF IInv, TypeOK, Task
  <2>4. \A c \in JobIds : task'[c].kids = task[c].kids /\ task'[c].at = task[c].at
    BY <2>3
  <2>5. \A k \in DOMAIN task[j].kids : k < i => Over(jobs, task[j].kids[k])
    <3> SUFFICES ASSUME NEW k \in DOMAIN task[j].kids, k < i
                 PROVE  Over(jobs, task[j].kids[k])
      OBVIOUS
    <3>1. /\ k \in Nat /\ k <= Len(task[j].kids) /\ task[j].next \in Nat
          /\ task[j].kids[k] \in JobIds
      BY <2>2 DEF Task
    <3>2. i \in Nat
      BY <2>1, <3>1 DEF Pending
    <3>3. CASE k < task[j].next
      BY <2>2, <3>3 DEF IInv, Consistent, PollOK
    <3>4. CASE ~(k < task[j].next)
      <4>1. k \notin Pending(j)
        BY <2>1, <3>1, <3>2
      <4>2. k \in task[j].next .. Len(task[j].kids)
        BY <3>1, <3>4
      <4>3. ~Running(task[j].kids[k])
        BY <4>1, <4>2 DEF Pending
      <4>4. jobs[task[j].kids[k]] \in Job
        BY <3>1 DEF IInv, Consistent, TypeOK
      <4> QED
        BY <4>3, <4>4, NoneIsNoJob DEF Running, InMemory, Over, Job
    <3> QED
      BY <3>3, <3>4
  <2>6. \A c \in JobIds : TaskOK(jobs, task', c)
    <3> SUFFICES ASSUME NEW c \in JobIds PROVE TaskOK(jobs, task', c)
      OBVIOUS
    <3>1. TaskOK(jobs, task, c)
      BY DEF IInv, Consistent
    <3> QED
      BY <2>2, <2>3, <2>4, <3>1 DEF TaskOK
  <2>7. \A p \in JobIds : PollOK(jobs, task', p)
    <3> SUFFICES ASSUME NEW p \in JobIds PROVE PollOK(jobs, task', p)
      OBVIOUS
    <3>1. PollOK(jobs, task, p)
      BY DEF IInv, Consistent
    <3>2. CASE p = j
      BY <2>2, <2>3, <2>5, <3>1, <3>2 DEF PollOK
    <3>3. CASE p # j
      BY <2>3, <3>1, <3>3 DEF PollOK
    <3> QED
      BY <3>2, <3>3
  <2>8. \A p \in JobIds : VerdictOK(jobs, task', p)
    BY <2>4 DEF IInv, Consistent, VerdictOK
  <2>9. Consistent(jobs, task', used, {})
    BY <2>4, <2>6, <2>7, <2>8 DEF IInv, Consistent
  <2> QED
    BY <2>2, <2>9 DEF IInv, RecordsOK, InMemory
<1>14. CASE FinishBulk(j)
  BY <1>1, <1>14, FinishKeeps DEF FinishBulk
<1> QED
  BY <1>2, <1>3, <1>4, <1>5, <1>6, <1>7, <1>8, <1>9, <1>10, <1>11, <1>12, <1>13,
     <1>14, <1>15 DEF TaskStep

\* Every step keeps the invariant.
LEMMA NextIInv == IInv /\ [Next]_vars => IInv'
<1> SUFFICES ASSUME IInv, [Next]_vars PROVE IInv'
  OBVIOUS
<1>1. TypeOK'
  BY NextType DEF IInv, Consistent
<1>2. Consistent(jobs', task', used', {}) /\ RecordsOK'
  <2>1. ASSUME NEW j \in JobIds, NEW kind \in Kinds, NEW refs \in RefSets(kind),
               Request(j, kind, refs)
        PROVE  Consistent(jobs', task', used', {}) /\ RecordsOK'
    <3>1. NewJob(kind, None, refs) \in Job
      BY NewJobType, RefSetsType
    <3> QED
      BY <2>1, <3>1, LaunchOneKeeps, NewJobStatus DEF Request
  <2>2. ASSUME NEW j \in JobIds, NEW original \in JobIds,
               NEW kind \in {"command", "action"}, NEW user \in Users,
               Rerun(j, original, kind, user)
        PROVE  Consistent(jobs', task', used', {}) /\ RecordsOK'
    <3> DEFINE object == IF kind = "action"
                         THEN records[original].refs \cap Objects ELSE {}
               job == NewJob(kind, original, object \cup {user})
    <3>1. object \cup {user} \in SUBSET Rows
      BY DEF Rows
    <3>2. job \in Job /\ job.status = "running"
      BY <3>1, NewJobType, NewJobStatus
    <3>3. Launch([i \in {j} |-> job], jobs, task) /\ UNCHANGED <<records, rows>>
      BY <2>2 DEF Rerun
    <3> HIDE DEF job
    <3> QED
      BY <3>2, <3>3, LaunchOneKeeps
  <2>3. ASSUME NEW j \in JobIds, TaskStep(j)
        PROVE  Consistent(jobs', task', used', {}) /\ RecordsOK'
    BY <2>3, TaskStepKeeps
  <2>4. ASSUME NEW r \in Rows, DeleteRow(r)
        PROVE  Consistent(jobs', task', used', {}) /\ RecordsOK'
    BY <2>4, DeleteRowKeeps
  <2>5. CASE Restart
    BY <2>5, RestartKeeps
  <2>6. CASE UNCHANGED vars
    BY <2>6 DEF vars, IInv, RecordsOK, InMemory
  <2> QED
    BY <2>1, <2>2, <2>3, <2>4, <2>5, <2>6 DEF Next
<1> QED
  BY <1>1, <1>2 DEF IInv

(***************************************************************************)
(* The theorems.                                                           *)
(***************************************************************************)

\* The inductive invariant holds in every state the engine reaches.
THEOREM Invariance == Spec => []IInv
<1> QED
  BY InitIInv, NextIInv, PTL DEF Spec

\* Every variable has its type: jobs, tasks, records, rows, ids and the holder
\* of the write lock of the job engine.
THEOREM TypeCorrect == Spec => []TypeOK
<1>1. IInv => TypeOK
  BY DEF IInv
<1> QED
  BY <1>1, Invariance, PTL

\* A bulk job that is over has waited for each child, and failed exactly when
\* every child failed, however many children it had and however they end.
THEOREM BulkVerdictCorrect == Spec => []BulkVerdict
<1>1. IInv => BulkVerdict
  <2> SUFFICES ASSUME IInv, NEW p \in JobIds, HasEnded(p), jobs[p].kind \in Bulk
               PROVE  /\ Children(p) # {}
                      /\ \A c \in Children(p) : HasEnded(c)
                      /\ jobs[p].status = "failed"
                            <=> \A c \in Children(p) : jobs[c].status = "failed"
    BY DEF BulkVerdict
  <2>1. Over(jobs, p) /\ VerdictOK(jobs, task, p)
    BY DEF HasEnded, InMemory, Over, IInv, Consistent
  <2>2. /\ task[p].kids # <<>>
        /\ \A i \in DOMAIN task[p].kids : Over(jobs, task[p].kids[i])
        /\ jobs[p].status = "failed"
              <=> \A i \in DOMAIN task[p].kids : jobs[task[p].kids[i]].status = "failed"
    BY <2>1 DEF VerdictOK
  <2>3. 1 \in DOMAIN task[p].kids
    <3>1. task[p].kids \in Seq(JobIds)
      BY DEF IInv, TypeOK, Task
    <3>2. Len(task[p].kids) \in Nat \ {0}
      BY <2>2, <3>1, EmptySeq
    <3> QED
      BY <3>1, <3>2, LenProperties
  <2> QED
    BY <2>2, <2>3 DEF Children, SetOf, HasEnded, InMemory, Over
<1> QED
  BY <1>1, Invariance, PTL

\* What the history says of a job is a verdict, the one memory holds.
THEOREM RecordsCorrect == Spec => []RecordsAreVerdicts
<1>1. IInv => RecordsAreVerdicts
  BY DEF IInv, RecordsOK, RecordsAreVerdicts
<1> QED
  BY <1>1, Invariance, PTL
=============================================================================
