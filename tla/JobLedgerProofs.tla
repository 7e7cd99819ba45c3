--------------------------- MODULE JobLedgerProofs ---------------------------
(***************************************************************************)
(* The job engine implements JobLedger, and loses a record only to a       *)
(* foreign key or a lock: proofs for every set of ids and rows.            *)
(*                                                                         *)
(* Both follow from the shape of a step, Shape: a step that is not a       *)
(* restart gives birth to jobs, ends a job, or leaves a job as it is.      *)
(***************************************************************************)
EXTENDS JobRunnerProofs

USE JobRunnerAssumption DEF Terminal, Kinds, Single, Bulk

\* The list of some bulk task has c in it after the step.
ChildAfter(c) ==
    \E p \in JobIds : \E i \in DOMAIN task'[p].kids : task'[p].kids[i] = c

\* The step starts c.
Born(c) ==
    /\ c \notin used /\ c \in used'
    /\ jobs'[c] # None /\ jobs'[c].status = "running"
    /\ records'[c] = None
    /\ jobs'[c].parent # None => records'[jobs'[c].parent] # None \/ ChildAfter(c)

\* The step leaves c as it is, but for the foreign keys of its record.
Kept(c) ==
    /\ c \in used' <=> c \in used
    /\ jobs'[c] = jobs[c]
    /\ records'[c] = None <=> records[c] = None
    /\ records[c] # None => records'[c].status = records[c].status

\* The step ends c, and stores its record unless the database refuses it.
EndedNow(c) ==
    /\ c \in used /\ c \in used'
    /\ Running(c)
    /\ jobs'[c] # None /\ jobs'[c].status \in Terminal
    /\ jobs'[c].parent = jobs[c].parent
    /\ records[c] = None
    /\ Persistable(c, jobs[c]) => records'[c] # None

Shape ==
    /\ \A c \in JobIds : Born(c) \/ Kept(c) \/ EndedNow(c)
    /\ \A p \in JobIds : task[p].kids # <<>> => task'[p].kids = task[p].kids

(***************************************************************************)
(* Every step but a restart has the shape.                                 *)
(***************************************************************************)

\* A step that changes neither the jobs nor the records.
LEMMA QuietShape ==
    ASSUME UNCHANGED <<jobs, records, used>>,
           \A p \in JobIds : task[p].kids # <<>> => task'[p].kids = task[p].kids
    PROVE  Shape
BY DEF Shape, Kept

\* The verdict and the attempt to store it, on their own.
LEMMA VerdictShape ==
    ASSUME IInv, NEW j \in JobIds, NEW ok \in BOOLEAN, Running(j), Persist(j, Ended(j, ok))
    PROVE  /\ Ended(j, ok) # None
           /\ Ended(j, ok).status \in Terminal
           /\ Ended(j, ok).parent = jobs[j].parent
           /\ j \in used
           /\ records[j] = None
           /\ Persistable(j, jobs[j]) => records'[j] # None
           /\ \A c \in JobIds : c # j => records'[c] = records[c]
<1>1. jobs[j] \in Job /\ j \in used
  BY DEF IInv, TypeOK, Consistent, Running, InMemory
<1>2. /\ Ended(j, ok) \in Job
      /\ Ended(j, ok).status \in Terminal
      /\ Ended(j, ok).parent = jobs[j].parent
      /\ Ended(j, ok).refs = jobs[j].refs
  BY <1>1 DEF Ended, Job
<1>3. Ended(j, ok) # None
  BY <1>2, NoneIsNoJob
<1>4. records[j] = None
  BY <1>1 DEF IInv, RecordsOK, Running, InMemory
<1>5. Persistable(j, Ended(j, ok)) <=> Persistable(j, jobs[j])
  BY <1>2 DEF Persistable
<1>6. /\ Persistable(j, jobs[j]) => records'[j] # None
      /\ \A c \in JobIds : c # j => records'[c] = records[c]
  BY <1>3, <1>5 DEF Persist, IInv, TypeOK
<1> QED
  BY <1>1, <1>2, <1>3, <1>4, <1>6

\* Moving the task of j to a phase leaves the lists of children alone.
LEMMA PhaseKids ==
    ASSUME IInv, NEW j \in JobIds, NEW at
    PROVE  \A p \in JobIds : [task EXCEPT ![j].at = at][p].kids = task[p].kids
<1>1. task[j] \in Task
  BY DEF IInv, TypeOK
<1> QED
  BY <1>1 DEF IInv, TypeOK, Task

\* Nor does coming to the notification of the verdict.
LEMMA NotifyKids ==
    ASSUME IInv, NEW j \in JobIds, NEW ok
    PROVE  \A p \in JobIds :
               [task EXCEPT ![j].at = "notify", ![j].ok = ok][p].kids = task[p].kids
<1>1. task[j] \in Task
  BY DEF IInv, TypeOK
<1> QED
  BY <1>1 DEF IInv, TypeOK, Task

\* Finish ends j and keeps the others.
LEMMA FinishShape ==
    ASSUME IInv, NEW j \in JobIds, NEW ok \in BOOLEAN, Running(j), Finish(j, ok)
    PROVE  Shape
<1>1. /\ jobs'[j] = Ended(j, ok)
      /\ \A c \in JobIds : c # j => jobs'[c] = jobs[c]
      /\ used' = used
      /\ Persist(j, Ended(j, ok))
  BY DEF Finish, IInv, TypeOK
<1>2. EndedNow(j)
  BY <1>1, VerdictShape DEF EndedNow
<1>3. \A c \in JobIds : c # j => Kept(c)
  BY <1>1, VerdictShape DEF Kept
<1>4. \A p \in JobIds : task'[p].kids = task[p].kids
  <2>1. task' = [task EXCEPT ![j].at = "notify", ![j].ok = ok]
    BY DEF Finish
  <2>2. task[j] \in Task
    BY DEF IInv, TypeOK
  <2> QED
    BY <2>1, <2>2 DEF IInv, TypeOK, Task
<1> QED
  BY <1>2, <1>3, <1>4 DEF Shape

\* No id that has not been given out has a task, a job or a record.
LEMMA FreshIsEmpty ==
    ASSUME IInv, NEW c \in JobIds, c \notin used
    PROVE  jobs[c] = None /\ records[c] = None /\ task[c].kids = <<>>
<1>1. jobs[c] = None
  BY DEF IInv, Consistent
<1>2. records[c] = None
  BY DEF IInv, RecordsOK
<1> QED
  BY <1>1, <1>2 DEF IInv, Consistent, TaskOK

\* A launch beside jobs that are left alone.
LEMMA LaunchShape ==
    ASSUME IInv, NEW S \in SUBSET JobIds, NEW new, DOMAIN new = S,
           NEW t, Launch(new, jobs, t), records' = records,
           \A p \in JobIds : task[p].kids # <<>> => t[p].kids = task[p].kids,
           \A c \in S : /\ new[c] # None
                        /\ new[c].status = "running"
                        /\ new[c].parent # None =>
                               records[new[c].parent] # None \/ ChildAfter(c)
    PROVE  Shape
<1>1. /\ \A c \in JobIds : c \in S =>
            c \notin used /\ jobs'[c] = new[c] /\ task'[c] = NewTask
      /\ \A c \in JobIds : c \notin S => jobs'[c] = jobs[c] /\ task'[c] = t[c]
      /\ used' = used \cup S
  BY LaunchEffect
<1>2. \A c \in JobIds : c \in S => Born(c)
  BY <1>1, FreshIsEmpty DEF Born
<1>3. \A c \in JobIds : c \notin S => Kept(c)
  BY <1>1 DEF Kept
<1>4. \A p \in JobIds : task[p].kids # <<>> => task'[p].kids = task[p].kids
  BY <1>1, FreshIsEmpty
<1> QED
  BY <1>2, <1>3, <1>4 DEF Shape

\* A job without a parent, or with one that is stored, is born.
LEMMA LaunchOneShape ==
    ASSUME IInv, NEW j \in JobIds, NEW job \in Job, job.status = "running",
           job.parent # None => records[job.parent] # None,
           NEW t, Launch([i \in {j} |-> job], jobs, t), records' = records,
           \A p \in JobIds : t[p].kids = task[p].kids
    PROVE  Shape
<1> DEFINE new == [i \in {j} |-> job]
<1>1. DOMAIN new = {j} /\ \A c \in {j} : new[c] = job
  OBVIOUS
<1>2. job # None
  BY NoneIsNoJob
<1>3. Launch(new, jobs, t) /\ {j} \in SUBSET JobIds
  OBVIOUS
<1> HIDE DEF new
<1> QED
  BY <1>1, <1>2, <1>3, LaunchShape

\* A create ends and its sync is born, in one step.
LEMMA CreateReportedShape ==
    ASSUME IInv, NEW j \in JobIds, NEW sync \in JobIds, CreateReported(j, sync)
    PROVE  Shape
<1> DEFINE new == [i \in {sync} |-> NewJob("command", None, {})]
           old == [jobs EXCEPT ![j] = Ended(j, TRUE)]
           t == [task EXCEPT ![j].at = "notify", ![j].ok = TRUE]
<1>1. Running(j)
  BY DEF CreateReported, IInv, Consistent, TaskOK, Running, InMemory
<1>2. Launch(new, old, t) /\ Persist(j, Ended(j, TRUE)) /\ {sync} \in SUBSET JobIds
  BY DEF CreateReported
<1>3. DOMAIN new = {sync} /\ new[sync] = NewJob("command", None, {})
  OBVIOUS
<1>4. new[sync] # None /\ new[sync].status = "running" /\ new[sync].parent = None
  <2>1. NewJob("command", None, {}) \in Job
    BY NewJobType
  <2> QED
    BY <1>3, <2>1, NoneIsNoJob DEF NewJob
<1>5. \A p \in JobIds : t[p].kids = task[p].kids
  BY NotifyKids
<1>6. old[j] = Ended(j, TRUE) /\ \A c \in JobIds : c # j => old[c] = jobs[c]
  BY DEF IInv, TypeOK
<1>7. /\ Ended(j, TRUE) # None
      /\ Ended(j, TRUE).status \in Terminal
      /\ Ended(j, TRUE).parent = jobs[j].parent
      /\ j \in used
      /\ records[j] = None
      /\ Persistable(j, jobs[j]) => records'[j] # None
      /\ \A c \in JobIds : c # j => records'[c] = records[c]
  BY <1>1, <1>2, VerdictShape
<1> HIDE DEF new, old, t
<1>8. /\ sync \notin used /\ jobs'[sync] = new[sync] /\ task'[sync] = NewTask
      /\ \A c \in JobIds : c # sync => jobs'[c] = old[c] /\ task'[c] = t[c]
      /\ used' = used \cup {sync}
  BY <1>2, <1>3, LaunchEffect
<1>9. j # sync
  BY <1>7, <1>8
<1>10. EndedNow(j)
  BY <1>1, <1>6, <1>7, <1>8, <1>9 DEF EndedNow
<1>11. Born(sync)
  BY <1>4, <1>7, <1>8, <1>9, FreshIsEmpty DEF Born
<1>12. \A c \in JobIds : c # j /\ c # sync => Kept(c)
  BY <1>6, <1>7, <1>8 DEF Kept
<1>13. \A p \in JobIds : task[p].kids # <<>> => task'[p].kids = task[p].kids
  BY <1>5, <1>8, FreshIsEmpty
<1> QED
  BY <1>10, <1>11, <1>12, <1>13 DEF Shape

\* A bulk parent's children are born; its list is what makes them children.
LEMMA StartChildrenShape ==
    ASSUME IInv, NEW j \in JobIds, NEW kids \in ChildLists,
           NEW kind \in {"command", "action"}, NEW own \in [SetOf(kids) -> OwnObject(kind)],
           StartChildren(j, kids, kind, own)
    PROVE  Shape
<1>1. SUFFICES ASSUME NEW S, S = SetOf(kids),
                      NEW new, new = [c \in S |-> NewJob(kind, j, jobs[j].refs \cup own[c])],
                      NEW t, t = [task EXCEPT ![j].at = "polling", ![j].kids = kids]
               PROVE  Shape
  OBVIOUS
<1>2. S \in SUBSET JobIds
  BY <1>1, ChildListsAreSequences DEF SetOf
<1>3. InMemory(j) /\ jobs[j] \in Job /\ task[j] \in Task /\ task[j].kids = <<>> /\ j \in used
  BY DEF StartChildren, IInv, Consistent, TaskOK, InMemory, TypeOK
<1>4. t[j].kids = kids /\ \A p \in JobIds : p # j => t[p].kids = task[p].kids
  BY <1>1, <1>3 DEF IInv, TypeOK, Task
<1>5. Launch(new, jobs, t) /\ records' = records /\ DOMAIN new = S
  BY <1>1 DEF StartChildren
<1>6. ASSUME NEW c \in S
      PROVE  new[c] # None /\ new[c].status = "running" /\ new[c].parent = j
  <2>1. jobs[j].refs \cup own[c] \in SUBSET Rows
    BY <1>1, <1>3 DEF Job, OwnObject, AtMostOne, Rows
  <2>2. NewJob(kind, j, jobs[j].refs \cup own[c]) \in Job
    BY <2>1, NewJobType
  <2> QED
    BY <1>1, <2>2, NoneIsNoJob DEF NewJob
<1>7. \A c \in S : \E i \in DOMAIN kids : kids[i] = c
  BY <1>1 DEF SetOf
<1>8. j \notin S /\ task'[j] = t[j]
  BY <1>2, <1>3, <1>5, LaunchEffect
<1>9. \A c \in S : ChildAfter(c)
  BY <1>4, <1>7, <1>8 DEF ChildAfter
<1>10. \A p \in JobIds : task[p].kids # <<>> => t[p].kids = task[p].kids
  BY <1>3, <1>4
<1>11. \A c \in S :
          /\ new[c] # None
          /\ new[c].status = "running"
          /\ new[c].parent # None => records[new[c].parent] # None \/ ChildAfter(c)
  BY <1>6, <1>9
<1> QED
  BY <1>2, <1>5, <1>10, <1>11, LaunchShape

\* The steps of a task, one case for each action.
LEMMA TaskStepShape ==
    ASSUME IInv, NEW j \in JobIds, TaskStep(j)
    PROVE  Shape
<1>1. task[j].at \in {"new", "command", "report", "pause", "polling"} => Running(j)
  BY DEF IInv, Consistent, TaskOK, InMemory, Running
<1>2. task[j] \in Task
  BY DEF IInv, TypeOK
<1>3. CASE StartCommand(j)
  BY <1>3, PhaseKids, QuietShape DEF StartCommand
<1>4. CASE FailAtStart(j)
  BY <1>1, <1>4, FinishShape DEF FailAtStart
<1>5. CASE Die(j)
  BY <1>5, PhaseKids, QuietShape DEF Die
<1>6. ASSUME NEW ok \in BOOLEAN, CommandEnds(j, ok)
      PROVE  Shape
  BY <1>1, <1>6, FinishShape DEF CommandEnds
<1>7. ASSUME NEW ok \in BOOLEAN, CommandEndsThenReports(j, ok)
      PROVE  Shape
  <2>1. \A p \in JobIds : task'[p].kids = task[p].kids
    BY <1>2, <1>7 DEF CommandEndsThenReports, IInv, TypeOK, Task
  <2> QED
    BY <1>7, <2>1, QuietShape DEF CommandEndsThenReports
<1>8. ASSUME NEW refresh \in JobIds, RestoreEnds(j, refresh)
      PROVE  Shape
  <2> DEFINE t == [task EXCEPT ![j].at = "report", ![j].ok = TRUE]
             job == NewJob("command", None, {})
  <2>1. \A p \in JobIds : t[p].kids = task[p].kids
    BY <1>2 DEF IInv, TypeOK, Task
  <2>2. job \in Job /\ job.status = "running" /\ job.parent = None
    BY NewJobType DEF NewJob
  <2>3. Launch([i \in {refresh} |-> job], jobs, t) /\ records' = records
    BY <1>8 DEF RestoreEnds
  <2> HIDE DEF t, job
  <2> QED
    BY <2>1, <2>2, <2>3, LaunchOneShape
<1>9. CASE Reported(j)
  BY <1>1, <1>2, <1>9, FinishShape DEF Reported, Task
<1>10. ASSUME NEW sync \in JobIds, CreateReported(j, sync)
       PROVE  Shape
  BY <1>10, CreateReportedShape
<1>11. CASE NotifyHolding(j)
  BY <1>11, QuietShape DEF NotifyHolding
<1>12. ASSUME NEW next \in {"summary", "done"}, Notified(j, next)
       PROVE  Shape
  BY <1>12, PhaseKids, QuietShape DEF Notified
<1>16. CASE Pause(j)
  BY <1>16, PhaseKids, QuietShape DEF Pause
<1>13. ASSUME NEW kids \in ChildLists, NEW kind \in {"command", "action"},
              NEW own \in [SetOf(kids) -> OwnObject(kind)], StartChildren(j, kids, kind, own)
       PROVE  Shape
  BY <1>13, StartChildrenShape
<1>14. CASE PollChildren(j)
  <2>1. PICK i \in Pending(j) : task' = [task EXCEPT ![j].next = i]
    BY <1>14 DEF PollChildren
  <2>2. \A p \in JobIds : task'[p].kids = task[p].kids
    BY <1>2, <2>1 DEF IInv, TypeOK, Task
  <2> QED
    BY <1>14, <2>2, QuietShape DEF PollChildren
<1>15. CASE FinishBulk(j)
  BY <1>1, <1>15, FinishShape DEF FinishBulk
<1> QED
  BY <1>3, <1>4, <1>5, <1>6, <1>7, <1>8, <1>9, <1>10, <1>11, <1>12, <1>13, <1>14,
     <1>15, <1>16 DEF TaskStep

\* Every step has the shape, unless it is a restart.
LEMMA StepShape ==
    ASSUME IInv, [Next]_vars
    PROVE  Shape \/ Restart
<1>1. ASSUME NEW j \in JobIds, NEW kind \in Kinds, NEW refs \in RefSets(kind),
             Request(j, kind, refs)
      PROVE  Shape
  <2> DEFINE job == NewJob(kind, None, refs)
  <2>1. job \in Job /\ job.status = "running" /\ job.parent = None
    BY NewJobType, RefSetsType DEF NewJob
  <2>2. Launch([i \in {j} |-> job], jobs, task) /\ records' = records
    BY <1>1 DEF Request
  <2> HIDE DEF job
  <2> QED
    BY <2>1, <2>2, LaunchOneShape
<1>2. ASSUME NEW j \in JobIds, NEW original \in JobIds,
             NEW kind \in {"command", "action"}, NEW user \in Users,
             Rerun(j, original, kind, user)
      PROVE  Shape
  <2> DEFINE object == IF kind = "action"
                       THEN records[original].refs \cap Objects ELSE {}
             job == NewJob(kind, original, object \cup {user})
  <2>1. object \cup {user} \in SUBSET Rows
    BY DEF Rows
  <2>2. job \in Job /\ job.status = "running" /\ job.parent = original
    BY <2>1, NewJobType DEF NewJob
  <2>3. Launch([i \in {j} |-> job], jobs, task) /\ records' = records
    BY <1>2 DEF Rerun
  <2>4. records[original] # None
    BY <1>2 DEF Rerun
  <2> HIDE DEF job
  <2> QED
    BY <2>2, <2>3, <2>4, LaunchOneShape
<1>3. ASSUME NEW j \in JobIds, TaskStep(j)
      PROVE  Shape
  BY <1>3, TaskStepShape
<1>4. ASSUME NEW r \in Rows, DeleteRow(r)
      PROVE  Shape
  <2>1. \A c \in JobIds : /\ records'[c] = None <=> records[c] = None
                          /\ records[c] # None => records'[c].status = records[c].status
    <3>1. ASSUME NEW c \in JobIds, records[c] # None
          PROVE  /\ [records[c] EXCEPT !.refs = @ \ {r}] # None
                 /\ [records[c] EXCEPT !.refs = @ \ {r}].status = records[c].status
      <4>1. records[c] \in Job
        BY <3>1 DEF IInv, TypeOK
      <4>2. [records[c] EXCEPT !.refs = @ \ {r}] \in Job
        BY <4>1 DEF Job
      <4> QED
        BY <4>1, <4>2, NoneIsNoJob DEF Job
    <3> QED
      BY <1>4, <3>1 DEF DeleteRow
  <2>2. UNCHANGED <<jobs, task, used>>
    BY <1>4 DEF DeleteRow
  <2> QED
    BY <2>1, <2>2 DEF Shape, Kept
<1>5. CASE UNCHANGED vars
  BY <1>5, QuietShape DEF vars
<1> QED
  BY <1>1, <1>2, <1>3, <1>4, <1>5 DEF Next

(***************************************************************************)
(* The ledger.                                                             *)
(***************************************************************************)

USE DEF Ledger!Verdicts

\* A step of that shape is a step of the ledger's Work.
LEMMA ShapeWorks ==
    ASSUME IInv, IInv', Shape
    PROVE  Ledger!Work
<1>1. used \subseteq used'
  BY DEF Shape, Born, Kept, EndedNow, IInv, TypeOK
<1>2. ASSUME NEW c \in JobIds
      PROVE  /\ records[c] # None => records'[c] # None
             /\ c \in used' \ used =>
                    /\ jobs'[c] # None /\ jobs'[c].status = "running"
                    /\ records[c] = None /\ records'[c] = None
             /\ c \notin used' \ used => Kept(c) \/ EndedNow(c)
  <2>1. Born(c) \/ Kept(c) \/ EndedNow(c)
    BY DEF Shape
  <2>2. CASE Born(c)
    BY <2>2, FreshIsEmpty DEF Born
  <2>3. CASE Kept(c)
    BY <2>3 DEF Kept
  <2>4. CASE EndedNow(c)
    BY <2>4 DEF EndedNow
  <2> QED
    BY <2>1, <2>2, <2>3, <2>4
<1>3. ASSUME NEW c \in JobIds, Kept(c)
      PROVE  /\ records'[c] = None <=> records[c] = None
             /\ (IF jobs'[c] # None THEN jobs'[c].status
                 ELSE IF records'[c] # None THEN records'[c].status ELSE "not found")
                = (IF jobs[c] # None THEN jobs[c].status
                   ELSE IF records[c] # None THEN records[c].status ELSE "not found")
  BY <1>3 DEF Kept
<1>4. ASSUME NEW c \in JobIds, EndedNow(c)
      PROVE  Ledger!Ends(c)
  BY <1>4 DEF EndedNow, Ledger!Ends, Running, InMemory
<1> QED
  BY <1>1, <1>2, <1>3, <1>4 DEF Ledger!Work

\* A restart is the ledger's Forget.
LEMMA RestartForgets ==
    ASSUME IInv, Restart
    PROVE  Ledger!Forget
<1>1. /\ \A c \in JobIds : jobs'[c] = None
      /\ UNCHANGED <<records, used>>
  BY DEF Restart
<1>2. \A c \in JobIds : records[c] # None /\ jobs[c] # None =>
          jobs[c].status = records[c].status
  BY DEF IInv, RecordsOK, InMemory
<1> QED
  BY <1>1, <1>2 DEF Ledger!Forget

\* The job engine implements the ledger: a client that polls sees a job once
\* running, then one verdict, and again and again that verdict when it is in
\* the history, whatever jobs, deletions and restarts interleave.
THEOREM LedgerImplemented == Spec => LedgerSpec
<1>1. Init => Ledger!LedgerInit
  BY DEF Init, Ledger!LedgerInit
<1>2. IInv /\ IInv' /\ [Next]_vars => [Ledger!LedgerNext]_(Ledger!ledger)
  BY StepShape, ShapeWorks, RestartForgets DEF Ledger!LedgerNext
<1> QED
  BY <1>1, <1>2, Invariance, PTL DEF Spec, LedgerSpec, Ledger!LedgerSpec

(***************************************************************************)
(* The history.                                                            *)
(***************************************************************************)

\* The parent a job in memory names is stored, unless it is the bulk job that
\* started it in this process.
ParentsKnown ==
    \A c \in JobIds : InMemory(c) /\ jobs[c].parent # None =>
        records[jobs[c].parent] # None \/ IsChild(c)

\* Nothing that is stored vanishes, and no child is disowned.
LEMMA ParentsKnownKept ==
    ASSUME IInv, ParentsKnown, Shape
    PROVE  ParentsKnown'
<1>1. ASSUME NEW p \in JobIds, records[p] # None
      PROVE  records'[p] # None
  <2>1. p \in used
    BY <1>1 DEF IInv, RecordsOK
  <2> QED
    BY <1>1, <2>1 DEF Shape, Born, Kept, EndedNow
<1>2. ASSUME NEW c \in JobIds, ChildAfter(c)
      PROVE  IsChild(c)'
  BY <1>2 DEF ChildAfter, IsChild, Children, SetOf
<1>3. ASSUME NEW c \in JobIds, IsChild(c)
      PROVE  IsChild(c)'
  <2>1. PICK p \in JobIds : \E i \in DOMAIN task[p].kids : task[p].kids[i] = c
    BY <1>3 DEF IsChild, Children, SetOf
  <2>2. task[p].kids # <<>>
    BY <2>1
  <2>3. task'[p].kids = task[p].kids
    BY <2>2 DEF Shape
  <2> QED
    BY <1>2, <2>1, <2>3 DEF ChildAfter
<1>4. SUFFICES ASSUME NEW c \in JobIds, jobs'[c] # None, jobs'[c].parent # None
               PROVE  records'[jobs'[c].parent] # None \/ IsChild(c)'
  BY DEF ParentsKnown, InMemory
<1>5. CASE Born(c)
  BY <1>2, <1>4, <1>5 DEF Born
<1>6. CASE Kept(c) \/ EndedNow(c)
  <2>1. jobs[c] # None /\ jobs'[c].parent = jobs[c].parent
    BY <1>4, <1>6 DEF Kept, EndedNow, Running, InMemory
  <2>2. jobs[c].parent \in JobIds
    BY <1>4, <2>1 DEF IInv, TypeOK, Job
  <2> QED
    BY <1>1, <1>3, <1>4, <2>1, <2>2 DEF ParentsKnown, InMemory
<1> QED
  BY <1>5, <1>6 DEF Shape

\* The parents are known in every reachable state.
LEMMA ParentsAreKnown == Spec => []ParentsKnown
<1>1. Init => ParentsKnown
  BY DEF Init, ParentsKnown, InMemory
<1>2. IInv /\ ParentsKnown /\ [Next]_vars => ParentsKnown'
  <2>1. ASSUME Restart
        PROVE  ParentsKnown'
    BY <2>1 DEF Restart, ParentsKnown, InMemory
  <2> QED
    BY <2>1, StepShape, ParentsKnownKept
<1> QED
  BY <1>1, <1>2, Invariance, PTL DEF Spec

\* A job that is no child of a bulk job is in the history the moment it ends,
\* when its rows exist and nobody holds the write lock.
THEOREM HistoryComplete == Spec => RecordedAsItEnds
<1>1. ASSUME IInv, ParentsKnown, Next, NEW j \in JobIds,
             Running(j), HasEnded(j)', ~IsChild(j), holder = None, jobs[j].refs \subseteq rows
      PROVE  records'[j] # None
  <2>1. jobs'[j] # None /\ jobs'[j].status \in Terminal
    BY <1>1 DEF HasEnded, InMemory
  <2>2. ~Restart
    BY <2>1 DEF Restart
  <2>3. Born(j) \/ Kept(j) \/ EndedNow(j)
    BY <1>1, <2>2, StepShape DEF Shape
  <2>4. j \in used
    BY <1>1 DEF IInv, Consistent, Running, InMemory
  <2>5. EndedNow(j)
    BY <1>1, <2>1, <2>3, <2>4 DEF Born, Kept, Running
  <2>6. Persistable(j, jobs[j])
    BY <1>1 DEF Persistable, Released, ParentsKnown, Running
  <2> QED
    BY <2>5, <2>6 DEF EndedNow
<1>2. IInv /\ ParentsKnown /\ [Next]_vars =>
        [\A j \in JobIds :
            (Running(j) /\ HasEnded(j)' /\ ~IsChild(j) /\ holder = None
                /\ jobs[j].refs \subseteq rows) => records'[j] # None]_vars
  BY <1>1
<1> QED
  BY <1>2, Invariance, ParentsAreKnown, PTL DEF Spec, RecordedAsItEnds

(***************************************************************************)
(* For what is built on the engine: a verdict that was seen stays, or is   *)
(* forgotten by a restart.                                                 *)
(***************************************************************************)

\* What the scheduler, the webhooks and the API find out about a job.
Known(c) ==
    IF jobs[c] # None THEN jobs[c].status
    ELSE IF records[c] # None THEN records[c].status
    ELSE "unknown"

\* What is known of a job that was started is not taken back: a job that runs
\* was running, and a verdict stays or is forgotten.
VerdictsStay ==
    \A c \in JobIds : c \in used =>
        /\ c \in used'
        /\ Known(c)' = "running" => Known(c) = "running"
        /\ Known(c) \in Terminal => Known(c)' \in {Known(c), "unknown"}
        /\ Known(c) = "unknown" => Known(c)' = "unknown"

\* By the shape of the engine's steps, and by the records after a restart.
LEMMA ShapeVerdictsStay ==
    ASSUME IInv, Shape \/ Restart
    PROVE  VerdictsStay
<1> SUFFICES ASSUME NEW c \in JobIds, c \in used
             PROVE  /\ c \in used'
                    /\ Known(c)' = "running" => Known(c) = "running"
                    /\ Known(c) \in Terminal => Known(c)' \in {Known(c), "unknown"}
                    /\ Known(c) = "unknown" => Known(c)' = "unknown"
  BY DEF VerdictsStay
<1>1. CASE Shape
  <2>1. Kept(c) \/ EndedNow(c)
    BY <1>1 DEF Shape, Born
  <2>2. CASE Kept(c)
    BY <2>2 DEF Kept, Known
  <2>3. CASE EndedNow(c)
    BY <2>3 DEF EndedNow, Known, Running, InMemory, Terminal
  <2> QED
    BY <2>1, <2>2, <2>3
<1>2. CASE Restart
  <2>1. jobs'[c] = None /\ records' = records /\ used' = used
    BY <1>2 DEF Restart
  <2>2. records[c] # None =>
            /\ records[c].status \in Terminal
            /\ jobs[c] # None => jobs[c].status = records[c].status
    BY DEF IInv, RecordsOK, InMemory
  <2>3. Known(c)' = IF records[c] # None THEN records[c].status ELSE "unknown"
    BY <2>1 DEF Known
  <2>4. Known(c) = IF jobs[c] # None THEN jobs[c].status
                   ELSE IF records[c] # None THEN records[c].status ELSE "unknown"
    BY DEF Known
  <2>5. CASE records[c] = None
    BY <2>1, <2>3, <2>5
  <2>6. CASE records[c] # None
    <3>1. Known(c)' = Known(c) /\ Known(c) # "running"
      BY <2>2, <2>3, <2>4, <2>6 DEF Terminal
    <3> QED
      BY <2>1, <3>1
  <2> QED
    BY <2>5, <2>6
<1> QED
  BY <1>1, <1>2

\* The engine's own steps keep its invariant and its verdicts.
LEMMA EngineKeeps ==
    ASSUME IInv, [Next]_vars
    PROVE  IInv' /\ VerdictsStay /\ (Shape \/ Restart)
<1>1. IInv'
  BY NextIInv
<1>2. Shape \/ Restart
  BY StepShape
<1> QED
  BY <1>1, <1>2, ShapeVerdictsStay

\* Jobs that nobody's commands started are launched beside the others.
LEMMA LaunchKeeps ==
    ASSUME IInv, NEW S \in SUBSET JobIds, NEW new \in [S -> Job],
           \A c \in S : new[c].status = "running" /\ new[c].parent = None,
           Launch(new, jobs, task), UNCHANGED <<records, rows, crashes>>,
           holder' \in JobIds \cup Origins \cup {None}
    PROVE  /\ IInv' /\ VerdictsStay /\ Shape
           /\ \A c \in JobIds : c \in S =>
                  c \notin used /\ c \in used' /\ jobs'[c] = new[c] /\ task'[c] = NewTask
           /\ \A c \in JobIds : c \notin S => jobs'[c] = jobs[c] /\ task'[c] = task[c]
<1>1. DOMAIN new = S /\ \A c \in S : new[c] \in Job /\ new[c] # None
  BY NoneIsNoJob
<1>2. /\ jobs \in [JobIds -> Job \cup {None}] /\ task \in [JobIds -> Task]
      /\ used \in SUBSET JobIds
  BY DEF IInv, TypeOK
<1>3. /\ jobs' \in [JobIds -> Job \cup {None}]
      /\ task' \in [JobIds -> Task]
      /\ used' \in SUBSET JobIds
  BY <1>2, LaunchType
<1>4. TypeOK'
  BY <1>3 DEF IInv, TypeOK
<1>5. Consistent(jobs, task, used, S)
  BY DEF IInv, Consistent
<1>6. Consistent(jobs', task', used', {})
  BY <1>2, <1>5, LaunchConsistent DEF IInv
<1>7. RecordsOK'
  BY <1>1, LaunchRecords DEF IInv
<1>8. Shape
  BY <1>1, LaunchShape
<1>9. VerdictsStay
  BY <1>8, ShapeVerdictsStay
<1>10. /\ \A c \in JobIds : c \in S =>
              c \notin used /\ jobs'[c] = new[c] /\ task'[c] = NewTask
       /\ \A c \in JobIds : c \notin S => jobs'[c] = jobs[c] /\ task'[c] = task[c]
       /\ used' = used \cup S
  BY <1>1, LaunchEffect
<1> QED
  BY <1>4, <1>6, <1>7, <1>8, <1>9, <1>10 DEF IInv

\* A step of this kind, or one that leaves the jobs alone, is a step of the
\* ledger or a stutter, whoever else takes part in it.
LEMMA LedgerStep ==
    ASSUME IInv, IInv', Shape \/ Restart \/ UNCHANGED <<jobs, records, used>>
    PROVE  [Ledger!LedgerNext]_(Ledger!ledger)
<1>1. CASE Shape
  BY <1>1, ShapeWorks DEF Ledger!LedgerNext
<1>2. CASE Restart
  BY <1>2, RestartForgets DEF Ledger!LedgerNext
<1>3. CASE UNCHANGED <<jobs, records, used>>
  BY <1>3 DEF Ledger!ledger
<1> QED
  BY <1>1, <1>2, <1>3
=============================================================================
