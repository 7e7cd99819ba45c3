--------------------------- MODULE WebhooksProofs ---------------------------
(***************************************************************************)
(* What the webhooks promise, for every set of webhooks, requests and      *)
(* jobs: the counter, the status while triggers do not meet, and the owner *)
(* of the write lock.                                                      *)
(*                                                                         *)
(* The job engine's invariant IInv and the shape of its steps are those of *)
(* JobRunnerProofs and JobLedgerProofs; HInv adds what relates a webhook's *)
(* row to the handlers that have read it and to the pollers that will      *)
(* write to it.                                                            *)
(***************************************************************************)
EXTENDS Webhooks, JobLedgerProofs

Delivering(r) == req[r].at = "notifying"

\* The lock is free and nobody waits with it, or exactly one handler does, or
\* one of the notifications of a job.
LockOK ==
    \/ /\ holder = None
       /\ \A r \in Requests : ~Delivering(r)
    \/ \E r \in Requests : /\ Delivering(r)
                           /\ holder = req[r].hook
                           /\ \A q \in Requests : Delivering(q) => q = r
    \/ /\ \A r \in Requests : ~Delivering(r)
       /\ holder \in JobIds
       /\ task[holder].at \in Notifying

\* The step leaves a job that holds the lock in its notification.
StillNotifying ==
    holder \in JobIds /\ task[holder].at \in Notifying => task'[holder].at \in Notifying

\* The handlers under way have read a webhook; rows and handlers name jobs
\* that were started.
KnownOK ==
    /\ \A r \in Requests : req[r].at \in {"body", "notifying"} => req[r].hook \in Hooks
    /\ \A r \in Requests : Delivering(r) => req[r].job \in used
    /\ \A w \in Hooks : hook[w].job # None => hook[w].job \in used

\* A handler has read a count that was committed, and the present one unless
\* triggers have met.
CountOK ==
    /\ CountsTriggers
    /\ \A w \in Hooks : \A r \in UnderWay(w) :
          /\ req[r].read.count <= stored[w]
          /\ w \notin clash => req[r].read.count = hook[w].count

\* Handlers at the notification with the job j of w in their hands.
Tracks(w, j) == \E r \in UnderWay(w) : Delivering(r) /\ req[r].job = j

\* Unless triggers have met, only the last job of a webhook is polled, or the
\* one about to become it.
PollersOK ==
    \A w \in Hooks \ clash : \A j \in PollersOf(w) : j = hook[w].job \/ Tracks(w, j)

\* A handler that started alone still has the present status in its session,
\* and no poller is left to change it.
AloneOK ==
    \A w \in Hooks \ clash : \A r \in UnderWay(w) :
        req[r].alone => /\ req[r].read.status = hook[w].status
                        /\ \A j \in PollersOf(w) : Tracks(w, j)

HInv == /\ HookTypeOK /\ IInv
        /\ LockOK /\ KnownOK /\ CountOK /\ PollersOK /\ AloneOK /\ AloneStatusMatches

(***************************************************************************)
(* The job engine under the webhooks.                                      *)
(***************************************************************************)

\* The lock stays where it is, or a notification of j gives it back.
LockStays == holder' = holder /\ StillNotifying
LockFreed(j) == holder = j /\ holder' = None

\* A trigger starts a job beside the others.
LEMMA StartJobStep ==
    ASSUME IInv, NEW j \in JobIds, NEW kind \in Workload, NEW w \in Hooks,
           NEW named \in SUBSET (Users \cup Objects), StartJob(j, kind, w, named),
           UNCHANGED <<records, rows, crashes>>, holder' \in JobIds \cup Origins \cup {None}
    PROVE  /\ IInv' /\ VerdictsStay /\ Shape
           /\ j \notin used /\ j \in used'
           /\ StillNotifying
<1> DEFINE job == NewJob(kind, None, named \cup {w})
<1>1. /\ job \in Job
      /\ job.status = "running" /\ job.parent = None
  BY NewJobType, WebhooksAssumption DEF NewJob, Hooks, Rows, Kinds, Single
<1>2. Launch([i \in {j} |-> job], jobs, task)
  BY DEF StartJob
<1> HIDE DEF job
<1>3. [i \in {j} |-> job] \in [{j} -> Job] /\ {j} \in SUBSET JobIds
  BY <1>1
<1>4. /\ IInv' /\ VerdictsStay /\ Shape
      /\ j \notin used /\ j \in used' /\ task'[j] = NewTask
      /\ \A c \in JobIds : c # j => task'[c] = task[c]
  BY <1>1, <1>2, <1>3, LaunchKeeps
<1>5. task[j].at \notin Notifying
  BY <1>4 DEF IInv, Consistent, TaskOK, Notifying
<1>6. StillNotifying
  BY <1>4, <1>5 DEF StillNotifying
<1> QED
  BY <1>4, <1>6

\* Only a notification of a job takes or releases the lock for a job.
LEMMA TaskStepLock ==
    ASSUME IInv, NEW j \in JobIds, TaskStep(j),
           holder \in JobIds => task[holder].at \in Notifying
    PROVE  \/ LockStays
           \/ holder = None /\ holder' = j /\ task'[j].at \in Notifying
           \/ LockFreed(j)
<1>1. task \in [JobIds -> Task] /\ task[j] \in Task
  BY DEF IInv, TypeOK
<1>2. \A c \in JobIds : c \notin used => task[c].at \notin Notifying
  BY DEF IInv, Consistent, TaskOK, Notifying
<1>3. ASSUME \A c \in JobIds : c # j => task'[c] = task[c],
             holder # j \/ task'[j].at \in Notifying, holder' = holder
      PROVE  LockStays
  BY <1>3 DEF LockStays, StillNotifying
<1>4. ASSUME \A c \in JobIds : c # j => task'[c] = task[c], holder' = Released(j)
      PROVE  LockStays \/ LockFreed(j)
  BY <1>4 DEF LockStays, LockFreed, StillNotifying, Released
<1>5. ASSUME NEW ok, Finish(j, ok)
      PROVE  LockStays \/ LockFreed(j)
  <2>1. \A c \in JobIds : c # j => task'[c] = task[c]
    BY <1>1, <1>5 DEF Finish
  <2> QED
    BY <1>4, <1>5, <2>1 DEF Finish
<1>6. ASSUME NEW S \in SUBSET JobIds, NEW new, DOMAIN new = S, NEW old, NEW t,
             Launch(new, old, t), \A c \in JobIds : c # j => t[c] = task[c],
             holder # j \/ t[j].at \in Notifying, holder' = holder
      PROVE  LockStays
  <2>1. /\ \A c \in JobIds : c \in S => c \notin used
        /\ \A c \in JobIds : c \notin S => task'[c] = t[c]
    BY <1>6, LaunchEffect
  <2> QED
    BY <1>2, <1>6, <2>1 DEF LockStays, StillNotifying
<1>7. task[j].at \notin Notifying => holder # j
  OBVIOUS
<1>8. CASE StartCommand(j) \/ Die(j)
  <2>1. /\ \A c \in JobIds : c # j => task'[c] = task[c]
        /\ holder' = holder /\ task[j].at \notin Notifying
    BY <1>1, <1>8 DEF StartCommand, Die, Notifying
  <2> QED
    BY <1>3, <1>7, <2>1
<1>9. CASE FailAtStart(j) \/ Reported(j) \/ FinishBulk(j)
  BY <1>5, <1>9 DEF FailAtStart, Reported, FinishBulk
<1>10. ASSUME NEW ok \in BOOLEAN, CommandEnds(j, ok)
       PROVE  LockStays \/ LockFreed(j)
  BY <1>5, <1>10 DEF CommandEnds
<1>11. ASSUME NEW ok \in BOOLEAN, CommandEndsThenReports(j, ok)
       PROVE  LockStays
  <2>1. /\ \A c \in JobIds : c # j => task'[c] = task[c]
        /\ holder' = holder /\ task[j].at \notin Notifying
    BY <1>1, <1>11 DEF CommandEndsThenReports, Notifying
  <2> QED
    BY <1>3, <1>7, <2>1
<1>12. ASSUME NEW refresh \in JobIds, RestoreEnds(j, refresh)
       PROVE  LockStays
  <2>1. SUFFICES ASSUME NEW new, new = [i \in {refresh} |-> NewJob("command", None, {})],
                        NEW t, t = [task EXCEPT ![j].at = "report", ![j].ok = TRUE]
                 PROVE  LockStays
    OBVIOUS
  <2>2. Launch(new, jobs, t) /\ holder' = holder /\ task[j].at \notin Notifying
    BY <1>12, <2>1 DEF RestoreEnds, Notifying
  <2>3. \A c \in JobIds : c # j => t[c] = task[c]
    BY <1>1, <2>1
  <2>4. DOMAIN new = {refresh} /\ {refresh} \in SUBSET JobIds
    BY <2>1
  <2> QED
    BY <1>6, <1>7, <2>2, <2>3, <2>4
<1>13. CASE Pause(j)
  <2>1. \A c \in JobIds : c # j => task'[c] = task[c]
    BY <1>1, <1>13 DEF Pause
  <2> QED
    BY <1>4, <1>13, <2>1 DEF Pause
<1>14. ASSUME NEW sync \in JobIds, CreateReported(j, sync)
       PROVE  LockStays
  <2>1. SUFFICES ASSUME NEW new, new = [i \in {sync} |-> NewJob("command", None, {})],
                        NEW t, t = [task EXCEPT ![j].at = "notify", ![j].ok = TRUE]
                 PROVE  LockStays
    OBVIOUS
  <2>2. /\ Launch(new, [jobs EXCEPT ![j] = Ended(j, TRUE)], t)
        /\ holder' = holder /\ task[j].at \notin Notifying
    BY <1>14, <2>1 DEF CreateReported, Notifying
  <2>3. \A c \in JobIds : c # j => t[c] = task[c]
    BY <1>1, <2>1
  <2>4. DOMAIN new = {sync} /\ {sync} \in SUBSET JobIds
    BY <2>1
  <2> QED
    BY <1>6, <1>7, <2>2, <2>3, <2>4
<1>15. NotifyHolding(j) =>
           holder = None /\ holder' = j /\ task'[j].at \in Notifying
  BY DEF NotifyHolding
<1>16. ASSUME NEW next \in {"summary", "done"}, Notified(j, next)
       PROVE  LockStays \/ LockFreed(j)
  <2>1. \A c \in JobIds : c # j => task'[c] = task[c]
    BY <1>1, <1>16 DEF Notified
  <2> QED
    BY <1>4, <1>16, <2>1 DEF Notified
<1>17. ASSUME NEW kids \in ChildLists, NEW kind \in {"command", "action"},
              NEW own \in [SetOf(kids) -> OwnObject(kind)], StartChildren(j, kids, kind, own)
       PROVE  LockStays
  <2>1. SUFFICES ASSUME NEW S, S = SetOf(kids),
                        NEW new, new = [c \in S |-> NewJob(kind, j, jobs[j].refs \cup own[c])],
                        NEW t, t = [task EXCEPT ![j].at = "polling", ![j].kids = kids]
                 PROVE  LockStays
    OBVIOUS
  <2>2. Launch(new, jobs, t) /\ holder' = holder /\ task[j].at \notin Notifying
    BY <1>17, <2>1 DEF StartChildren, Notifying
  <2>3. \A c \in JobIds : c # j => t[c] = task[c]
    BY <1>1, <2>1
  <2>4. DOMAIN new = S /\ S \in SUBSET JobIds
    BY <2>1, ChildListsAreSequences DEF SetOf
  <2> QED
    BY <1>6, <1>7, <2>2, <2>3, <2>4
<1>18. CASE PollChildren(j)
  <2>1. PICK i : task' = [task EXCEPT ![j].next = i]
    BY <1>18 DEF PollChildren
  <2>2. /\ \A c \in JobIds : c # j => task'[c] = task[c]
        /\ holder' = holder /\ task[j].at \notin Notifying
    BY <1>1, <1>18, <2>1 DEF PollChildren, Notifying
  <2> QED
    BY <1>3, <1>7, <2>2
<1> QED
  BY <1>8, <1>9, <1>10, <1>11, <1>12, <1>13, <1>14, <1>15, <1>16, <1>17, <1>18 DEF TaskStep

(***************************************************************************)
(* Steps that leave the webhooks alone.                                   *)
(***************************************************************************)

\* The lock stays where it is when no handler and no job comes to hold it or
\* releases it.
LEMMA LockKept ==
    ASSUME LockOK, holder' = holder,
           StillNotifying,
           \A r \in Requests : Delivering(r)' <=> Delivering(r),
           \A r \in Requests : Delivering(r) => req'[r].hook = req[r].hook
    PROVE  LockOK'
BY DEF LockOK, StillNotifying

\* The row's status and job stay, and so does what is known of the job.
LEMMA MatchKept ==
    ASSUME NEW w, StatusMatches(w), VerdictsStay,
           hook'[w].job = hook[w].job, hook'[w].status = hook[w].status,
           hook[w].job # None => hook[w].job \in JobIds /\ hook[w].job \in used
    PROVE  StatusMatches(w)'
<1>1. CASE hook[w].job = None
  BY <1>1 DEF StatusMatches
<1>2. CASE hook[w].job # None
  <2>1. PICK c \in JobIds : c = hook[w].job /\ c \in used
    BY <1>2
  <2>2. /\ Known(c)' = "running" => Known(c) = "running"
        /\ Known(c) \in Terminal => Known(c)' \in {Known(c), "unknown"}
        /\ Known(c) = "unknown" => Known(c)' = "unknown"
    BY <2>1 DEF VerdictsStay
  <2>3. JobStatus(hook[w].job) = Known(c) /\ JobStatus(hook[w].job)' = Known(c)'
    BY <2>1, JobRunnerAssumption DEF JobStatus, Known
  <2> HIDE <2>1
  <2> QED
    BY <1>2, <2>2, <2>3 DEF StatusMatches, Terminal
<1> QED
  BY <1>1, <1>2

\* A step that tells the webhooks nothing: rows keep their job, status and
\* count, handlers only leave, pollers only end, and a handler that leaves
\* its notification leaves no poller.
LEMMA QuietKeeps ==
    ASSUME HInv, VerdictsStay,
           \A w \in Hooks : /\ hook'[w].job = hook[w].job
                            /\ hook'[w].status = hook[w].status
                            /\ hook'[w].count = hook[w].count,
           UNCHANGED <<stored, clash>>,
           \A r \in Requests : req'[r].at \in {"body", "notifying"} => req'[r] = req[r],
           \A j \in JobIds : poller'[j] \in {poller[j], None},
           \A r \in Requests : \A j \in JobIds :
               (Delivering(r) /\ poller'[j] # None) => req'[r] = req[r]
    PROVE  KnownOK' /\ CountOK' /\ PollersOK' /\ AloneOK' /\ AloneStatusMatches'
<1>1. \A w \in Hooks : \A r \in UnderWay(w)' : r \in UnderWay(w) /\ req'[r] = req[r]
  BY DEF UnderWay
<1>2. \A w \in Hooks : \A j \in PollersOf(w)' : j \in PollersOf(w)
  BY WebhooksAssumption DEF PollersOf, Hooks
<1>3. ASSUME NEW w \in Hooks, NEW j \in PollersOf(w)', Tracks(w, j)
      PROVE  Tracks(w, j)'
  <2>1. PICK r \in UnderWay(w) : Delivering(r) /\ req[r].job = j
    BY <1>3 DEF Tracks
  <2>2. r \in Requests /\ j \in JobIds /\ poller'[j] # None
    BY <1>3, WebhooksAssumption DEF UnderWay, PollersOf, Hooks
  <2>3. req'[r] = req[r]
    BY <2>1, <2>2
  <2> QED
    BY <2>1, <2>2, <2>3 DEF Tracks, UnderWay, Delivering
<1>4. KnownOK'
  <2>1. \A r \in Requests : req'[r].at \in {"body", "notifying"} => req'[r].hook \in Hooks
    BY DEF HInv, KnownOK
  <2>2. \A r \in Requests : Delivering(r)' => req'[r].job \in used'
    <3> SUFFICES ASSUME NEW r \in Requests, Delivering(r)'
                 PROVE  req'[r].job \in used'
      OBVIOUS
    <3>1. req'[r] = req[r]
      BY DEF Delivering
    <3>2. req[r].job \in used
      BY <3>1 DEF HInv, KnownOK, Delivering
    <3>3. used \subseteq JobIds
      BY DEF HInv, IInv, TypeOK
    <3> QED
      BY <3>1, <3>2, <3>3 DEF VerdictsStay
  <2>3. \A w \in Hooks : hook'[w].job # None => hook'[w].job \in used'
    <3>3. used \subseteq JobIds
      BY DEF HInv, IInv, TypeOK
    <3> QED
      BY <3>3 DEF HInv, KnownOK, VerdictsStay
  <2> QED
    BY <2>1, <2>2, <2>3 DEF KnownOK
<1>5. CountOK'
  BY <1>1 DEF HInv, CountOK, CountsTriggers
<1>6. PollersOK'
  BY <1>2, <1>3 DEF HInv, PollersOK
<1>7. AloneOK'
  BY <1>1, <1>2, <1>3 DEF HInv, AloneOK
<1>8. AloneStatusMatches'
  <2> SUFFICES ASSUME NEW w \in Hooks \ clash
               PROVE  StatusMatches(w)'
    BY DEF AloneStatusMatches
  <2>1. StatusMatches(w)
    BY DEF HInv, AloneStatusMatches
  <2>2. hook[w].job # None => hook[w].job \in JobIds /\ hook[w].job \in used
    BY DEF HInv, KnownOK, IInv, TypeOK
  <2> QED
    BY <2>1, <2>2, MatchKept
<1> QED
  BY <1>4, <1>5, <1>6, <1>7, <1>8

(***************************************************************************)
(* The steps of the webhooks.                                              *)
(***************************************************************************)

\* What a handler knows is not changed by the other handlers' steps.
LEMMA HandlerTypes ==
    /\ Answered \in Handler
    /\ \A r \in Requests : \A h \in Handler :
          req \in [Requests -> Handler] => [req EXCEPT ![r] = h] \in [Requests -> Handler]
<1>1. NewHook(FALSE) \in Webhook
  BY DEF NewHook, Webhook, Status
<1>2. NoHandler \in Handler
  BY <1>1 DEF NoHandler, Handler
<1> QED
  BY <1>2 DEF Answered, Handler

\* An answered request is under way no longer.
LEMMA AnsweredIsOver == Answered.at = "over"
BY DEF Answered, NoHandler

\* A handler loads its row.
LEMMA LoadKeeps ==
    ASSUME HInv, NEW r \in Requests, NEW w \in Hooks, Load(r, w)
    PROVE  HInv'
<1> DEFINE h == [at |-> "body", hook |-> w, read |-> hook[w], job |-> None,
                 alone |-> UnderWay(w) = {} /\ PollersOf(w) = {}]
<1>1. /\ req[r].at = "none"
      /\ req' = [req EXCEPT ![r] = h]
      /\ UNCHANGED <<vars, hook, poller, stored, clash>>
  BY DEF Load
<1>2. IInv' /\ VerdictsStay
  BY <1>1, EngineKeeps DEF HInv
<1>3. HookTypeOK'
  <2>1. h \in Handler
    BY DEF Handler, HInv, HookTypeOK
  <2>2. req' \in [Requests -> Handler]
    BY <1>1, <2>1, HandlerTypes DEF HInv, HookTypeOK
  <2> QED
    BY <1>1, <1>2, <2>2 DEF HInv, HookTypeOK, IInv
<1>4. /\ req'[r] = h
      /\ \A q \in Requests : q # r => req'[q] = req[q]
      /\ h.at = "body" /\ h.hook = w /\ h.read = hook[w]
      /\ h.alone => PollersOf(w) = {}
  BY <1>1 DEF HInv, HookTypeOK
<1> HIDE DEF h
<1>5. \A q \in Requests : Delivering(q)' <=> Delivering(q)
  BY <1>1, <1>4 DEF Delivering
<1>6. LockOK'
  <2>1. \A q \in Requests : Delivering(q) => req'[q].hook = req[q].hook
    BY <1>1, <1>4 DEF Delivering
  <2>2. holder' = holder /\ StillNotifying
    BY <1>1 DEF vars, StillNotifying
  <2> QED
    BY <1>5, <2>1, <2>2, LockKept DEF HInv
<1>7. KnownOK'
  BY <1>1, <1>4 DEF HInv, KnownOK, Delivering, vars
<1>8. \A v \in Hooks : \A q \in UnderWay(v)' :
          \/ q \in UnderWay(v) /\ req'[q] = req[q]
          \/ q = r /\ v = w
  BY <1>1, <1>4 DEF UnderWay
<1>9. CountOK'
  <2>1. CountsTriggers'
    BY <1>1 DEF HInv, CountOK, CountsTriggers
  <2>2. hook[w].count <= stored[w]
    BY DEF HInv, CountOK, CountsTriggers
  <2> QED
    BY <1>1, <1>4, <1>8, <2>1, <2>2 DEF HInv, CountOK
<1>10. \A v \in Hooks : \A j : Tracks(v, j) => Tracks(v, j)'
  BY <1>1, <1>4 DEF Tracks, UnderWay, Delivering
<1>11. \A v : PollersOf(v)' = PollersOf(v)
  BY <1>1 DEF PollersOf
<1>12. PollersOK'
  BY <1>1, <1>10, <1>11 DEF HInv, PollersOK
<1>13. AloneOK'
  BY <1>1, <1>4, <1>8, <1>10, <1>11 DEF HInv, AloneOK
<1>14. AloneStatusMatches'
  BY <1>1 DEF HInv, AloneStatusMatches, StatusMatches, JobStatus, vars
<1> QED
  BY <1>2, <1>3, <1>6, <1>7, <1>9, <1>12, <1>13, <1>14 DEF HInv

\* A handler that had not come to its row leaves, with or without a job.
LEMMA LeaveKeeps ==
    ASSUME HInv, NEW r \in Requests, req[r].at = "body",
           req' = [req EXCEPT ![r] = Answered], UNCHANGED <<hook, poller, stored, clash>>,
           IInv', VerdictsStay, holder' = holder,
           StillNotifying
    PROVE  HInv'
<1>1. /\ req'[r] = Answered
      /\ \A q \in Requests : q # r => req'[q] = req[q]
  BY DEF HInv, HookTypeOK
<1>2. HookTypeOK'
  BY HandlerTypes DEF HInv, HookTypeOK, IInv
<1>3. LockOK'
  <2>1. /\ \A q \in Requests : Delivering(q)' <=> Delivering(q)
        /\ \A q \in Requests : Delivering(q) => req'[q].hook = req[q].hook
    BY <1>1, AnsweredIsOver DEF Delivering
  <2> QED
    BY <2>1, LockKept DEF HInv
<1>4. KnownOK' /\ CountOK' /\ PollersOK' /\ AloneOK' /\ AloneStatusMatches'
  <2>1. \A q \in Requests : req'[q].at \in {"body", "notifying"} => req'[q] = req[q]
    BY <1>1, AnsweredIsOver
  <2>2. \A q \in Requests : Delivering(q) => req'[q] = req[q]
    BY <1>1 DEF Delivering
  <2> QED
    BY <2>1, <2>2, QuietKeeps
<1> QED
  BY <1>2, <1>3, <1>4 DEF HInv

\* The script is gone, or the request is refused.
LEMMA AbandonKeeps ==
    ASSUME HInv, NEW r \in Requests, Abandon(r)
    PROVE  HInv'
<1>1. IInv' /\ VerdictsStay
  BY EngineKeeps DEF Abandon, HInv
<1> QED
  BY <1>1, LeaveKeeps DEF Abandon, vars, StillNotifying

\* A trigger whose commit is refused leaves the row as it was.
LEMMA TriggerRefusedKeeps ==
    ASSUME HInv, NEW r \in Requests, NEW j \in JobIds, NEW kind \in Workload,
           NEW named \in SUBSET (Users \cup Objects), TriggerRefused(r, j, kind, named)
    PROVE  HInv'
<1>1. /\ req[r].hook \in Hooks
      /\ holder' \in JobIds \cup Origins \cup {None}
  BY DEF TriggerRefused, HInv, KnownOK, IInv, TypeOK
<1>2. IInv' /\ VerdictsStay /\ StillNotifying
  BY <1>1, StartJobStep DEF TriggerRefused, HInv
<1> QED
  BY <1>2, LeaveKeeps DEF TriggerRefused

\* Nobody waits with the lock while it is free.
LEMMA FreeLock ==
    ASSUME LockOK, KnownOK, holder = None
    PROVE  /\ \A r \in Requests : ~Delivering(r)
           /\ \A w, j : ~Tracks(w, j)
<1>1. \A r \in Requests : ~Delivering(r)
  <2> SUFFICES ASSUME NEW r \in Requests, Delivering(r)
               PROVE  FALSE
    OBVIOUS
  <2>1. \A q \in Requests : Delivering(q) => req[q].hook # None
    BY WebhooksAssumption DEF KnownOK, Delivering, Hooks
  <2>2. None \notin JobIds
    BY JobRunnerAssumption
  <2> QED
    BY <2>1, <2>2 DEF LockOK
<1> QED
  BY <1>1, JobRunnerAssumption DEF LockOK, Tracks, UnderWay

\* A trigger flushes its row, is polled for, and comes to its notification.
LEMMA TriggerKeeps ==
    ASSUME HInv, NEW r \in Requests, NEW j \in JobIds, NEW kind \in Workload,
           NEW named \in SUBSET (Users \cup Objects), Trigger(r, j, kind, named)
    PROVE  HInv'
<1>0. PICK w \in Hooks : w = req[r].hook
  BY DEF Trigger, HInv, KnownOK
<1>1. /\ req[r].at = "body" /\ holder = None /\ holder' = w
      /\ poller' = [poller EXCEPT ![j] = w]
      /\ req' = [req EXCEPT ![r].at = "notifying", ![r].job = j]
      /\ UNCHANGED <<records, rows, crashes, hook, stored, clash>>
  BY <1>0 DEF Trigger
<1>2. w \in Hooks /\ w # None
  BY WebhooksAssumption DEF Hooks
<1>3. /\ IInv' /\ VerdictsStay
      /\ j \in used'
  BY <1>0, <1>1, <1>2, StartJobStep DEF Trigger, HInv, Hooks
<1>4. req \in [Requests -> Handler] /\ req[r] \in Handler
  BY DEF HInv, HookTypeOK
<1>5. /\ req'[r] = [req[r] EXCEPT !.at = "notifying", !.job = j]
      /\ \A q \in Requests : q # r => req'[q] = req[q]
  BY <1>1, <1>4
<1>6. /\ req'[r] \in Handler
      /\ req'[r].at = "notifying" /\ req'[r].job = j /\ req'[r].hook = w
      /\ req'[r].read = req[r].read /\ req'[r].alone = req[r].alone
  BY <1>0, <1>4, <1>5 DEF Handler
<1>7. HookTypeOK'
  <2>1. req' \in [Requests -> Handler]
    BY <1>1, <1>4, <1>5, <1>6
  <2>2. poller' \in [JobIds -> Hooks \cup {None}]
    BY <1>1, <1>2 DEF HInv, HookTypeOK
  <2> QED
    BY <1>1, <1>3, <2>1, <2>2 DEF HInv, HookTypeOK, IInv
<1>8. /\ \A q \in Requests : ~Delivering(q)
      /\ \A v, c : ~Tracks(v, c)
  BY <1>1, FreeLock DEF HInv
<1>9. LockOK'
  <2>1. Delivering(r)' /\ holder' = req'[r].hook
    BY <1>1, <1>6 DEF Delivering
  <2>2. \A q \in Requests : Delivering(q)' => q = r
    BY <1>5, <1>8 DEF Delivering
  <2> QED
    BY <2>1, <2>2 DEF LockOK
<1>10. \A v \in Hooks : \A q \in UnderWay(v)' :
           /\ q \in UnderWay(v)
           /\ req'[q].read = req[q].read /\ req'[q].alone = req[q].alone
  <2> SUFFICES ASSUME NEW v \in Hooks, NEW q \in UnderWay(v)'
               PROVE  /\ q \in UnderWay(v)
                      /\ req'[q].read = req[q].read /\ req'[q].alone = req[q].alone
    OBVIOUS
  <2>1. q \in Requests /\ req'[q].hook = v /\ req'[q].at \in {"body", "notifying"}
    BY DEF UnderWay
  <2>2. CASE q = r
    BY <1>0, <1>1, <1>6, <2>1, <2>2 DEF UnderWay
  <2>3. CASE q # r
    BY <1>5, <2>1, <2>3 DEF UnderWay
  <2> QED
    BY <2>2, <2>3
<1>11. Tracks(w, j)'
  BY <1>6 DEF Tracks, UnderWay, Delivering
<1>12. \A v \in Hooks : \A c \in PollersOf(v)' :
           \/ c \in PollersOf(v)
           \/ c = j /\ v = w
  BY <1>1 DEF PollersOf, HInv, HookTypeOK
<1>13. KnownOK'
  <2>1. used \subseteq JobIds
    BY DEF HInv, IInv, TypeOK
  <2>2. \A q \in Requests : req'[q].at \in {"body", "notifying"} => req'[q].hook \in Hooks
    BY <1>2, <1>5, <1>6 DEF HInv, KnownOK
  <2>3. \A q \in Requests : Delivering(q)' => req'[q].job \in used'
    BY <1>3, <1>5, <1>6, <1>8 DEF Delivering
  <2>4. \A v \in Hooks : hook'[v].job # None => hook'[v].job \in used'
    BY <1>1, <1>3, <2>1 DEF HInv, KnownOK, VerdictsStay
  <2> QED
    BY <2>2, <2>3, <2>4 DEF KnownOK
<1>14. CountOK'
  <2>1. CountsTriggers'
    BY <1>1 DEF HInv, CountOK, CountsTriggers
  <2>2. \A v \in Hooks : \A q \in UnderWay(v)' :
            /\ req'[q].read.count <= stored'[v]
            /\ v \notin clash' => req'[q].read.count = hook'[v].count
    BY <1>1, <1>10 DEF HInv, CountOK
  <2> QED
    BY <2>1, <2>2 DEF CountOK
<1>15. PollersOK'
  BY <1>1, <1>8, <1>11, <1>12 DEF HInv, PollersOK
<1>16. AloneOK'
  <2> SUFFICES ASSUME NEW v \in Hooks \ clash, NEW q \in UnderWay(v)', req'[q].alone
               PROVE  /\ req'[q].read.status = hook'[v].status
                      /\ \A c \in PollersOf(v)' : Tracks(v, c)'
    BY <1>1 DEF AloneOK
  <2>1. /\ req[q].read.status = hook[v].status
        /\ \A c \in PollersOf(v) : Tracks(v, c)
    BY <1>10 DEF HInv, AloneOK
  <2> QED
    BY <1>1, <1>8, <1>10, <1>11, <1>12, <2>1
<1>17. AloneStatusMatches'
  <2> SUFFICES ASSUME NEW v \in Hooks \ clash
               PROVE  StatusMatches(v)'
    BY <1>1 DEF AloneStatusMatches
  <2>1. StatusMatches(v) /\ (hook[v].job # None => hook[v].job \in JobIds /\ hook[v].job \in used)
    BY DEF HInv, AloneStatusMatches, KnownOK, IInv, TypeOK
  <2> QED
    BY <1>1, <1>3, <2>1, MatchKept
<1> QED
  BY <1>3, <1>7, <1>9, <1>13, <1>14, <1>15, <1>16, <1>17 DEF HInv

\* What the commit of a trigger leaves in the row.
LEMMA TrackedRow ==
    ASSUME NEW row \in Webhook, NEW read \in Webhook, NEW j \in JobIds
    PROVE  /\ Tracked(row, read, j) \in Webhook
           /\ Tracked(row, read, j).job = j
           /\ Tracked(row, read, j).count = read.count + 1
           /\ read.status = row.status => Tracked(row, read, j).status = "running"
<1> DEFINE status == IF read.status = "running" THEN row.status ELSE "running"
<1>1. status \in Status /\ row.status \in Status
  BY DEF Webhook, Status
<1>2. read.count \in Nat /\ read.count + 1 \in Nat
  BY DEF Webhook
<1>3. Tracked(row, read, j) = [row EXCEPT !.job = j, !.count = read.count + 1, !.status = status]
  BY DEF Tracked
<1>4. read.status = row.status => status = "running"
  OBVIOUS
<1> HIDE DEF status
<1>5. DOMAIN row = {"enabled", "job", "status", "count"} /\ row.enabled \in BOOLEAN
  BY DEF Webhook
<1>6. Tracked(row, read, j) = [enabled |-> row.enabled, job |-> j, status |-> status,
                               count |-> read.count + 1]
  BY <1>3, <1>5 DEF Webhook
<1> QED
  BY <1>1, <1>2, <1>4, <1>5, <1>6 DEF Webhook

\* A trigger commits: the row gets its job, "running", and one more trigger.
LEMMA CommitKeeps ==
    ASSUME HInv, NEW r \in Requests, Commit(r)
    PROVE  HInv'
<1>1. PICK w \in Hooks, j \in JobIds : w = req[r].hook /\ j = req[r].job
  BY DEF Commit, HInv, KnownOK, Delivering, IInv, TypeOK
<1> DEFINE row == Tracked(hook[w], req[r].read, j)
<1>2. /\ Delivering(r)
      /\ hook' = [hook EXCEPT ![w] = row]
      /\ stored' = [stored EXCEPT ![w] = @ + 1]
      /\ clash' = IF req[r].alone /\ UnderWay(w) = {r} /\ PollersOf(w) \subseteq {j}
                  THEN clash ELSE clash \cup {w}
      /\ holder' = None
      /\ req' = [req EXCEPT ![r] = Answered]
      /\ UNCHANGED <<jobs, task, records, rows, used, crashes, poller>>
  BY <1>1 DEF Commit, Delivering
<1>3. /\ hook \in [Hooks -> Webhook] /\ req \in [Requests -> Handler]
      /\ stored \in [Hooks -> Nat] /\ clash \in SUBSET Hooks
  BY DEF HInv, HookTypeOK
<1>4. hook[w] \in Webhook /\ req[r].read \in Webhook
  BY <1>3 DEF Handler
<1>5. /\ row \in Webhook /\ row.job = j
      /\ row.count = req[r].read.count + 1
      /\ req[r].read.status = hook[w].status => row.status = "running"
  <2>1. PICK old \in Webhook, read \in Webhook : old = hook[w] /\ read = req[r].read
    BY <1>4
  <2>2. row = Tracked(old, read, j)
    BY <2>1
  <2>3. /\ Tracked(old, read, j) \in Webhook
        /\ Tracked(old, read, j).job = j
        /\ Tracked(old, read, j).count = read.count + 1
        /\ read.status = old.status => Tracked(old, read, j).status = "running"
    BY <1>1, TrackedRow
  <2> HIDE DEF row
  <2> QED
    BY <2>1, <2>2, <2>3
<1> HIDE DEF row
<1>6. /\ hook'[w] = row
      /\ stored'[w] = stored[w] + 1
      /\ \A v \in Hooks : v # w => hook'[v] = hook[v] /\ stored'[v] = stored[v]
      /\ \A v : v # w => (v \in clash' <=> v \in clash)
      /\ w \notin clash' => /\ w \notin clash /\ req[r].alone
                            /\ UnderWay(w) = {r} /\ PollersOf(w) \subseteq {j}
  BY <1>2, <1>3
<1>7. /\ req'[r] = Answered
      /\ \A q \in Requests : q # r => req'[q] = req[q]
  BY <1>2, <1>3
<1>8. IInv'
  <2>1. TypeOK'
    BY <1>2 DEF HInv, IInv, TypeOK
  <2> QED
    BY <1>2, <2>1 DEF HInv, IInv, RecordsOK, InMemory
<1>9. HookTypeOK'
  <2>1. req' \in [Requests -> Handler]
    BY <1>2, <1>3, HandlerTypes
  <2>2. hook' \in [Hooks -> Webhook]
    BY <1>2, <1>3, <1>5
  <2>3. stored' \in [Hooks -> Nat] /\ clash' \in SUBSET Hooks
    BY <1>2, <1>3
  <2> QED
    BY <1>2, <1>8, <2>1, <2>2, <2>3 DEF HInv, HookTypeOK, IInv
<1>10. \A q \in Requests : Delivering(q) => q = r
  BY <1>2 DEF HInv, LockOK
<1>12. LockOK'
  <2>1. \A q \in Requests : ~Delivering(q)'
    BY <1>7, <1>10, AnsweredIsOver DEF Delivering
  <2> QED
    BY <1>2, <2>1 DEF LockOK
<1>13. \A v \in Hooks : \A q \in UnderWay(v)' :
           q # r /\ q \in UnderWay(v) /\ req'[q] = req[q]
  BY <1>7, AnsweredIsOver DEF UnderWay
<1>14. w \notin clash' => UnderWay(w)' = {}
  BY <1>6, <1>13
<1>15. KnownOK'
  <2>1. \A q \in Requests : req'[q].at \in {"body", "notifying"} => req'[q].hook \in Hooks
    BY <1>7, AnsweredIsOver DEF HInv, KnownOK
  <2>2. \A q \in Requests : ~Delivering(q)'
    BY <1>7, <1>10, AnsweredIsOver DEF Delivering
  <2>3. j \in used
    BY <1>1, <1>2 DEF HInv, KnownOK
  <2>4. \A v \in Hooks : hook'[v].job # None => hook'[v].job \in used'
    BY <1>2, <1>5, <1>6, <2>3 DEF HInv, KnownOK
  <2> QED
    BY <2>1, <2>2, <2>4 DEF KnownOK
<1>16. CountOK'
  <2>1. r \in UnderWay(w)
    BY <1>1, <1>2 DEF UnderWay, Delivering
  <2>2. /\ req[r].read.count <= stored[w]
        /\ w \notin clash => /\ req[r].read.count = hook[w].count
                            /\ hook[w].count = stored[w]
    BY <2>1 DEF HInv, CountOK, CountsTriggers
  <2>3. stored[w] \in Nat /\ req[r].read.count \in Nat
    BY <1>3, <1>4 DEF Webhook
  <2>4. /\ row.count <= stored'[w]
        /\ w \notin clash' => row.count = stored'[w]
    BY <1>5, <1>6, <2>2, <2>3
  <2>5. CountsTriggers'
    BY <1>6, <2>4 DEF HInv, CountOK, CountsTriggers
  <2>6. ASSUME NEW v \in Hooks, NEW q \in UnderWay(v)'
        PROVE  /\ req'[q].read.count <= stored'[v]
               /\ v \notin clash' => req'[q].read.count = hook'[v].count
    <3>1. /\ req[q].read.count <= stored[v]
          /\ v \notin clash => req[q].read.count = hook[v].count
          /\ req'[q] = req[q]
      BY <1>13 DEF HInv, CountOK
    <3>2. CASE v = w
      <4>1. req[q].read.count \in Nat
        BY <1>3 DEF UnderWay, Handler, Webhook
      <4>2. w \in clash'
        BY <1>14, <3>2
      <4> QED
        BY <1>6, <2>3, <3>1, <3>2, <4>1, <4>2
    <3>3. CASE v # w
      BY <1>6, <3>1, <3>3
    <3> QED
      BY <3>2, <3>3
  <2> QED
    BY <2>5, <2>6 DEF CountOK
<1>17. \A v : PollersOf(v)' = PollersOf(v)
  BY <1>2 DEF PollersOf
<1>18. \A v \in Hooks : \A c : v # w => ~Tracks(v, c)
  <2> SUFFICES ASSUME NEW v \in Hooks, NEW c, v # w, Tracks(v, c)
               PROVE  FALSE
    OBVIOUS
  <2>1. PICK q \in UnderWay(v) : Delivering(q)
    BY DEF Tracks
  <2>2. q = r
    BY <1>10, <2>1 DEF UnderWay
  <2> QED
    BY <1>1, <2>2 DEF UnderWay
<1>19. PollersOK'
  <2> SUFFICES ASSUME NEW v \in Hooks, v \notin clash', NEW c \in PollersOf(v)'
               PROVE  c = hook'[v].job
    BY DEF PollersOK
  <2>1. CASE v = w
    BY <1>5, <1>6, <1>17, <2>1
  <2>2. CASE v # w
    <3>1. c = hook[v].job \/ Tracks(v, c)
      BY <1>6, <1>17, <2>2 DEF HInv, PollersOK
    <3> QED
      BY <1>6, <1>18, <2>2, <3>1
  <2> QED
    BY <2>1, <2>2
<1>20. AloneOK'
  <2> SUFFICES ASSUME NEW v \in Hooks, v \notin clash', NEW q \in UnderWay(v)', req'[q].alone
               PROVE  /\ req'[q].read.status = hook'[v].status
                      /\ \A c \in PollersOf(v)' : Tracks(v, c)'
    BY DEF AloneOK
  <2>1. v # w
    BY <1>14
  <2>2. /\ req[q].read.status = hook[v].status
        /\ \A c \in PollersOf(v) : Tracks(v, c)
    BY <1>6, <1>13, <2>1 DEF HInv, AloneOK
  <2> QED
    BY <1>6, <1>13, <1>17, <1>18, <2>1, <2>2
<1>21. AloneStatusMatches'
  <2> SUFFICES ASSUME NEW v \in Hooks, v \notin clash'
               PROVE  StatusMatches(v)'
    BY DEF AloneStatusMatches
  <2>1. CASE v = w
    <3>1. r \in UnderWay(w)
      BY <1>1, <1>2 DEF UnderWay, Delivering
    <3>2. row.status = "running"
      BY <1>5, <1>6, <2>1, <3>1 DEF HInv, AloneOK
    <3> QED
      BY <1>6, <2>1, <3>2 DEF StatusMatches, Terminal
  <2>2. CASE v # w
    <3>1. StatusMatches(v)
      BY <1>6, <2>2 DEF HInv, AloneStatusMatches
    <3> QED
      BY <1>2, <1>6, <2>2, <3>1 DEF StatusMatches, JobStatus
  <2> QED
    BY <2>1, <2>2
<1> QED
  BY <1>8, <1>9, <1>12, <1>15, <1>16, <1>19, <1>20, <1>21 DEF HInv

\* The test button: everything in one step, and nothing of it when the lock is
\* held.
LEMMA TestTriggerKeeps ==
    ASSUME HInv, NEW w \in Hooks, NEW j \in JobIds, NEW kind \in Workload,
           NEW named \in SUBSET (Users \cup Objects), TestTrigger(w, j, kind, named)
    PROVE  HInv'
<1>1. /\ StartJob(j, kind, w, named)
      /\ UNCHANGED <<records, rows, holder, crashes, req>>
      /\ holder' \in JobIds \cup Origins \cup {None}
  BY DEF TestTrigger, HInv, IInv, TypeOK
<1>2. /\ IInv' /\ VerdictsStay
      /\ j \in used'
      /\ StillNotifying
  BY <1>1, StartJobStep DEF HInv
<1>3. /\ hook \in [Hooks -> Webhook] /\ req \in [Requests -> Handler]
      /\ stored \in [Hooks -> Nat] /\ clash \in SUBSET Hooks
      /\ poller \in [JobIds -> Hooks \cup {None}]
  BY DEF HInv, HookTypeOK
<1>4. LockOK'
  BY <1>1, <1>2, LockKept DEF HInv, Delivering
<1>5. CASE holder # None
  <2>1. UNCHANGED <<hook, poller, stored, clash, req>>
    BY <1>1, <1>5 DEF TestTrigger
  <2>2. KnownOK' /\ CountOK' /\ PollersOK' /\ AloneOK' /\ AloneStatusMatches'
    BY <1>2, <2>1, QuietKeeps
  <2>3. HookTypeOK'
    BY <1>2, <1>3, <2>1 DEF HookTypeOK, IInv
  <2> QED
    BY <1>2, <1>4, <2>2, <2>3 DEF HInv
<1>6. CASE holder = None
  <2> DEFINE row == Tracked(hook[w], hook[w], j)
  <2>1. /\ hook' = [hook EXCEPT ![w] = row]
        /\ poller' = [poller EXCEPT ![j] = w]
        /\ stored' = [stored EXCEPT ![w] = @ + 1]
        /\ clash' = IF UnderWay(w) = {} /\ PollersOf(w) = {} THEN clash ELSE clash \cup {w}
    BY <1>6 DEF TestTrigger
  <2>2. /\ row \in Webhook /\ row.job = j
        /\ row.count = hook[w].count + 1
        /\ row.status = "running"
    BY <1>3, TrackedRow
  <2> HIDE DEF row
  <2>3. /\ hook'[w] = row
        /\ stored'[w] = stored[w] + 1
        /\ \A v \in Hooks : v # w => hook'[v] = hook[v] /\ stored'[v] = stored[v]
        /\ \A v : v # w => (v \in clash' <=> v \in clash)
        /\ w \notin clash' => w \notin clash /\ UnderWay(w) = {} /\ PollersOf(w) = {}
        /\ poller'[j] = w /\ \A c \in JobIds : c # j => poller'[c] = poller[c]
    BY <1>3, <2>1
  <2>4. HookTypeOK'
    <3>1. /\ hook' \in [Hooks -> Webhook]
          /\ stored' \in [Hooks -> Nat] /\ clash' \in SUBSET Hooks
          /\ poller' \in [JobIds -> Hooks \cup {None}]
      BY <1>3, <2>1, <2>2
    <3> QED
      BY <1>1, <1>2, <1>3, <3>1 DEF HookTypeOK, IInv
  <2>5. \A v : UnderWay(v)' = UnderWay(v)
    BY <1>1 DEF UnderWay
  <2>6. \A v, c : Tracks(v, c)' <=> Tracks(v, c)
    BY <1>1, <2>5 DEF Tracks, Delivering
  <2>7. \A v \in Hooks : \A c \in PollersOf(v)' : c \in PollersOf(v) \/ (c = j /\ v = w)
    BY <2>3 DEF PollersOf
  <2>8. used \subseteq used' /\ used \subseteq JobIds
    BY <1>2 DEF HInv, IInv, TypeOK, VerdictsStay
  <2>9. KnownOK'
    <3>1. \A v \in Hooks : hook'[v].job # None => hook'[v].job \in used'
      BY <1>2, <2>2, <2>3, <2>8 DEF HInv, KnownOK
    <3>2. \A q \in Requests : Delivering(q)' => req'[q].job \in used'
      BY <1>1, <2>8 DEF HInv, KnownOK, Delivering
    <3> QED
      BY <1>1, <3>1, <3>2 DEF HInv, KnownOK
  <2>10. CountOK'
    <3>1. /\ hook[w].count <= stored[w]
          /\ w \notin clash => hook[w].count = stored[w]
          /\ stored[w] \in Nat /\ hook[w].count \in Nat
      BY <1>3 DEF HInv, CountOK, CountsTriggers, Webhook
    <3>2. row.count <= stored'[w] /\ (w \notin clash' => row.count = stored'[w])
      BY <2>2, <2>3, <3>1
    <3>3. CountsTriggers'
      BY <2>3, <3>2 DEF HInv, CountOK, CountsTriggers
    <3>4. ASSUME NEW v \in Hooks, NEW q \in UnderWay(v)'
          PROVE  /\ req'[q].read.count <= stored'[v]
                 /\ v \notin clash' => req'[q].read.count = hook'[v].count
      <4>1. /\ req[q].read.count <= stored[v]
            /\ v \notin clash => req[q].read.count = hook[v].count
            /\ req' = req
        BY <1>1, <2>5 DEF HInv, CountOK
      <4>2. CASE v = w
        <5>1. req[q].read.count \in Nat
          BY <1>3, <2>5 DEF UnderWay, Handler, Webhook
        <5>2. w \in clash'
          BY <2>3, <2>5, <4>2
        <5> QED
          BY <2>3, <3>1, <4>1, <4>2, <5>1, <5>2
      <4>3. CASE v # w
        BY <2>3, <4>1, <4>3
      <4> QED
        BY <4>2, <4>3
    <3> QED
      BY <3>3, <3>4 DEF CountOK
  <2>11. PollersOK'
    <3> SUFFICES ASSUME NEW v \in Hooks, v \notin clash', NEW c \in PollersOf(v)'
                 PROVE  c = hook'[v].job \/ Tracks(v, c)'
      BY DEF PollersOK
    <3>1. CASE v = w
      BY <2>2, <2>3, <2>7, <3>1
    <3>2. CASE v # w
      BY <2>3, <2>6, <2>7, <3>2 DEF HInv, PollersOK
    <3> QED
      BY <3>1, <3>2
  <2>12. AloneOK'
    <3> SUFFICES ASSUME NEW v \in Hooks, v \notin clash', NEW q \in UnderWay(v)', req'[q].alone
                 PROVE  /\ req'[q].read.status = hook'[v].status
                        /\ \A c \in PollersOf(v)' : Tracks(v, c)'
      BY DEF AloneOK
    <3>1. v # w
      BY <2>3, <2>5
    <3>2. /\ req[q].read.status = hook[v].status
          /\ \A c \in PollersOf(v) : Tracks(v, c)
      BY <1>1, <2>3, <2>5, <3>1 DEF HInv, AloneOK
    <3> QED
      BY <1>1, <2>3, <2>6, <2>7, <3>1, <3>2
  <2>13. AloneStatusMatches'
    <3> SUFFICES ASSUME NEW v \in Hooks, v \notin clash'
                 PROVE  StatusMatches(v)'
      BY DEF AloneStatusMatches
    <3>1. CASE v = w
      BY <2>2, <2>3, <3>1 DEF StatusMatches, Terminal
    <3>2. CASE v # w
      <4>1. StatusMatches(v)
        BY <2>3, <3>2 DEF HInv, AloneStatusMatches
      <4>2. hook[v].job # None => hook[v].job \in JobIds /\ hook[v].job \in used
        BY <2>8 DEF HInv, KnownOK
      <4> QED
        BY <1>2, <2>3, <3>2, <4>1, <4>2, MatchKept
    <3> QED
      BY <3>1, <3>2
  <2> QED
    BY <1>2, <1>4, <2>4, <2>9, <2>10, <2>11, <2>12, <2>13 DEF HInv
<1> QED
  BY <1>5, <1>6

\* A step that tells the webhooks nothing, and keeps the types and the lock.
LEMMA QuietStep ==
    ASSUME HInv, IInv', VerdictsStay, LockOK', HookTypeOK',
           \A w \in Hooks : /\ hook'[w].job = hook[w].job
                            /\ hook'[w].status = hook[w].status
                            /\ hook'[w].count = hook[w].count,
           UNCHANGED <<stored, clash, req>>,
           \A j \in JobIds : poller'[j] \in {poller[j], None}
    PROVE  HInv'
<1>1. KnownOK' /\ CountOK' /\ PollersOK' /\ AloneOK' /\ AloneStatusMatches'
  BY QuietKeeps
<1> QED
  BY <1>1 DEF HInv

\* The poller of a job writes its verdict.
LEMMA PollKeeps ==
    ASSUME HInv, NEW j \in JobIds, Poll(j)
    PROVE  HInv'
<1>1. /\ poller[j] # None /\ HasEnded(j)
      /\ poller' = [poller EXCEPT ![j] = None]
      /\ UNCHANGED <<vars, req, stored, clash>>
  BY DEF Poll
<1>2. PICK w \in Hooks : w = poller[j]
  BY <1>1 DEF HInv, HookTypeOK
<1>3. /\ hook \in [Hooks -> Webhook] /\ poller \in [JobIds -> Hooks \cup {None}]
  BY DEF HInv, HookTypeOK
<1>4. IInv' /\ VerdictsStay
  BY <1>1, EngineKeeps DEF HInv
<1>5. LockOK'
  <2>1. holder' = holder /\ StillNotifying
    BY <1>1 DEF vars, StillNotifying
  <2> QED
    BY <1>1, <2>1, LockKept DEF HInv, Delivering
<1>6. /\ poller' \in [JobIds -> Hooks \cup {None}]
      /\ \A c \in JobIds : poller'[c] \in {poller[c], None}
  BY <1>1, <1>3
<1>7. CASE hook' = hook
  <2>1. HookTypeOK'
    BY <1>1, <1>4, <1>6, <1>7 DEF HInv, HookTypeOK, IInv
  <2> QED
    BY <1>1, <1>4, <1>5, <1>6, <1>7, <2>1, QuietStep
<1>8. CASE hook' # hook
  <2> DEFINE row == [hook[w] EXCEPT !.status = jobs[j].status]
  <2>1. hook' = [hook EXCEPT ![w] = row] /\ holder = None
    BY <1>2, <1>3, <1>8 DEF Poll, Polled
  <2>2. jobs[j] # None /\ jobs[j].status \in Terminal
    BY <1>1 DEF HasEnded, InMemory
  <2>3. /\ row \in Webhook /\ row.status = jobs[j].status
        /\ row.job = hook[w].job /\ row.count = hook[w].count
    BY <1>3, <2>2 DEF Webhook, Status
  <2> HIDE DEF row
  <2>4. hook'[w] = row /\ \A v \in Hooks : v # w => hook'[v] = hook[v]
    BY <1>3, <2>1
  <2>5. \A v \in Hooks : hook'[v].job = hook[v].job /\ hook'[v].count = hook[v].count
    BY <2>3, <2>4
  <2>6. HookTypeOK'
    <3>1. hook' \in [Hooks -> Webhook]
      BY <1>3, <2>1, <2>3
    <3> QED
      BY <1>1, <1>4, <1>6, <3>1 DEF HInv, HookTypeOK, IInv
  <2>7. \A q \in Requests : ~Delivering(q)
    BY <2>1, FreeLock DEF HInv
  <2>8. \A v, c : ~Tracks(v, c)
    BY <2>1, FreeLock DEF HInv
  <2>9. \A v : UnderWay(v)' = UnderWay(v)
    BY <1>1 DEF UnderWay
  <2>10. \A v \in Hooks : \A c \in PollersOf(v)' : c \in PollersOf(v)
    BY <1>6, WebhooksAssumption DEF PollersOf, Hooks
  <2>11. j \in PollersOf(w)
    BY <1>2 DEF PollersOf
  <2>12. KnownOK'
    BY <1>1, <2>5 DEF HInv, KnownOK, Delivering, vars
  <2>13. CountOK'
    BY <1>1, <2>5, <2>9 DEF HInv, CountOK, CountsTriggers
  <2>14. PollersOK'
    BY <1>1, <2>5, <2>8, <2>10 DEF HInv, PollersOK
  <2>15. w \notin clash => hook[w].job = j /\ \A q \in UnderWay(w) : ~req[q].alone
    BY <2>8, <2>11 DEF HInv, PollersOK, AloneOK
  <2>16. AloneOK'
    <3> SUFFICES ASSUME NEW v \in Hooks, v \notin clash, NEW q \in UnderWay(v), req[q].alone
                 PROVE  /\ req[q].read.status = hook'[v].status
                        /\ \A c \in PollersOf(v)' : Tracks(v, c)'
      BY <1>1, <2>9 DEF AloneOK
    <3>1. v # w
      BY <2>15
    <3>2. /\ req[q].read.status = hook[v].status
          /\ \A c \in PollersOf(v) : Tracks(v, c)
      BY DEF HInv, AloneOK
    <3> QED
      BY <2>4, <2>8, <2>10, <3>1, <3>2
  <2>17. AloneStatusMatches'
    <3> SUFFICES ASSUME NEW v \in Hooks, v \notin clash
                 PROVE  StatusMatches(v)'
      BY <1>1 DEF AloneStatusMatches
    <3>1. CASE v = w
      <4>1. hook'[w].job = j /\ hook'[w].status = jobs[j].status /\ jobs' = jobs
        BY <1>1, <2>3, <2>4, <2>15, <3>1 DEF vars
      <4>2. j # None
        BY JobRunnerAssumption
      <4> QED
        BY <2>2, <3>1, <4>1, <4>2 DEF StatusMatches, JobStatus, Terminal
    <3>2. CASE v # w
      BY <1>1, <2>4, <3>2 DEF HInv, AloneStatusMatches, StatusMatches, JobStatus, vars
    <3> QED
      BY <3>1, <3>2
  <2> QED
    BY <1>4, <1>5, <2>6, <2>12, <2>13, <2>14, <2>16, <2>17 DEF HInv
<1> QED
  BY <1>7, <1>8

\* The hour of a poller is over.
LEMMA GiveUpKeeps ==
    ASSUME HInv, NEW j \in JobIds, GiveUp(j)
    PROVE  HInv'
<1>1. /\ poller' = [poller EXCEPT ![j] = None]
      /\ UNCHANGED <<vars, hook, req, stored, clash>>
  BY DEF GiveUp
<1>2. IInv' /\ VerdictsStay
  BY <1>1, EngineKeeps DEF HInv
<1>3. LockOK'
  <2>1. holder' = holder /\ StillNotifying
    BY <1>1 DEF vars, StillNotifying
  <2> QED
    BY <1>1, <2>1, LockKept DEF HInv, Delivering
<1>4. /\ poller' \in [JobIds -> Hooks \cup {None}]
      /\ \A c \in JobIds : poller'[c] \in {poller[c], None}
  BY <1>1 DEF HInv, HookTypeOK
<1>5. HookTypeOK'
  BY <1>1, <1>2, <1>4 DEF HInv, HookTypeOK, IInv
<1> QED
  BY <1>1, <1>2, <1>3, <1>4, <1>5, QuietStep

\* An edit changes nothing but whether the webhook is enabled.
LEMMA UpdateWebhookKeeps ==
    ASSUME HInv, NEW w \in Hooks, NEW enabled \in BOOLEAN, UpdateWebhook(w, enabled)
    PROVE  HInv'
<1>1. /\ hook' = [hook EXCEPT ![w].enabled = enabled]
      /\ UNCHANGED <<vars, req, poller, stored, clash>>
  BY DEF UpdateWebhook
<1>2. IInv' /\ VerdictsStay
  BY <1>1, EngineKeeps DEF HInv
<1>3. LockOK'
  <2>1. holder' = holder /\ StillNotifying
    BY <1>1 DEF vars, StillNotifying
  <2> QED
    BY <1>1, <2>1, LockKept DEF HInv, Delivering
<1>4. hook \in [Hooks -> Webhook]
  BY DEF HInv, HookTypeOK
<1>5. /\ hook' \in [Hooks -> Webhook]
      /\ \A v \in Hooks : /\ hook'[v].job = hook[v].job
                          /\ hook'[v].status = hook[v].status
                          /\ hook'[v].count = hook[v].count
  BY <1>1, <1>4 DEF Webhook
<1>6. HookTypeOK'
  BY <1>1, <1>2, <1>5 DEF HInv, HookTypeOK, IInv
<1> QED
  BY <1>1, <1>2, <1>3, <1>5, <1>6, QuietStep

\* The tasks of the jobs go on, and rows are deleted.
LEMMA OthersKeeps ==
    ASSUME HInv, Others
    PROVE  HInv'
<1>1. UNCHANGED <<hook, req, poller, stored, clash>>
  BY DEF Others
<1>2. IInv' /\ VerdictsStay
  BY EngineKeeps DEF HInv, Others, Next
<1>3. HookTypeOK'
  BY <1>1, <1>2 DEF HInv, HookTypeOK, IInv
<1>4. \A q \in Requests : (Delivering(q)' <=> Delivering(q)) /\ req'[q] = req[q]
  BY <1>1 DEF Delivering
<1>5. LockOK'
  <2>1. ASSUME NEW j \in JobIds, TaskStep(j)
        PROVE  LockOK'
    <3>1. \A c \in Origins : c \notin JobIds /\ c # None
      BY WebhooksAssumption
    <3>2. holder \in JobIds => task[holder].at \in Notifying
      BY <3>1, JobRunnerAssumption DEF HInv, LockOK, KnownOK, Delivering, Hooks
    <3>3. CASE LockStays
      BY <1>4, <3>3, LockKept DEF HInv, LockStays
    <3>4. CASE holder = None /\ holder' = j /\ task'[j].at \in Notifying
      <4>1. \A q \in Requests : ~Delivering(q)'
        BY <1>4, <3>4, FreeLock DEF HInv
      <4> QED
        BY <3>4, <4>1 DEF LockOK
    <3>5. CASE LockFreed(j)
      <4>1. \A q \in Requests : ~Delivering(q)
        BY <3>1, <3>5, JobRunnerAssumption DEF LockFreed, HInv, LockOK, KnownOK, Delivering, Hooks
      <4> QED
        BY <1>4, <3>5, <4>1 DEF LockFreed, LockOK
    <3> QED
      BY <2>1, <3>2, <3>3, <3>4, <3>5, TaskStepLock DEF HInv
  <2>2. ASSUME NEW r \in Rows, DeleteRow(r)
        PROVE  LockOK'
    <3>1. holder' = holder /\ StillNotifying
      BY <2>2 DEF DeleteRow, StillNotifying
    <3> QED
      BY <1>4, <3>1, LockKept DEF HInv
  <2> QED
    BY <2>1, <2>2 DEF Others
<1> QED
  BY <1>1, <1>2, <1>3, <1>5, QuietStep

\* A restart: neither handler nor poller is left.
LEMMA HookRestartKeeps ==
    ASSUME HInv, HookRestart
    PROVE  HInv'
<1>1. /\ Restart
      /\ req' = [r \in Requests |-> IF req[r].at = "none" THEN req[r] ELSE Answered]
      /\ poller' = [j \in JobIds |-> None]
      /\ UNCHANGED <<hook, stored, clash>>
  BY DEF HookRestart
<1>2. IInv' /\ VerdictsStay
  BY <1>1, EngineKeeps DEF HInv, Next
<1>3. \A r \in Requests : req'[r].at \notin {"body", "notifying"}
  BY <1>1, AnsweredIsOver
<1>4. HookTypeOK'
  <2>1. req' \in [Requests -> Handler]
    BY <1>1, HandlerTypes DEF HInv, HookTypeOK
  <2>2. poller' \in [JobIds -> Hooks \cup {None}]
    BY <1>1
  <2> QED
    BY <1>1, <1>2, <2>1, <2>2 DEF HInv, HookTypeOK, IInv
<1>5. LockOK'
  <2>1. holder' = None
    BY <1>1 DEF Restart
  <2> QED
    BY <1>3, <2>1 DEF LockOK, Delivering
<1>6. KnownOK' /\ CountOK' /\ PollersOK' /\ AloneOK' /\ AloneStatusMatches'
  BY <1>1, <1>2, <1>3, QuietKeeps
<1> QED
  BY <1>2, <1>4, <1>5, <1>6 DEF HInv

(***************************************************************************)
(* The theorems.                                                           *)
(***************************************************************************)

\* No webhook has been triggered at the start, and nobody holds the lock.
LEMMA HookInitInv == HookInit => HInv
<1> SUFFICES ASSUME HookInit PROVE HInv
  OBVIOUS
<1>1. IInv
  BY InitIInv DEF HookInit
<1>2. /\ \A w \in Hooks : \E b \in BOOLEAN : hook[w] = NewHook(b)
      /\ \A b \in BOOLEAN : /\ NewHook(b) \in Webhook
                            /\ NewHook(b).job = None /\ NewHook(b).count = 0
  BY DEF HookInit, NewHook, Webhook, Status
<1>3. \A w \in Hooks : hook[w].job = None /\ hook[w].count = 0 /\ stored[w] = 0
  BY <1>2 DEF HookInit
<1>4. \A r \in Requests : req[r].at = "none"
  BY DEF HookInit, NoHandler
<1>5. HookTypeOK
  <2>1. NoHandler \in Handler
    BY <1>2 DEF NoHandler, Handler
  <2>2. hook \in [Hooks -> Webhook]
    BY <1>2 DEF HookInit
  <2> QED
    BY <1>1, <2>1, <2>2 DEF HookInit, HookTypeOK, IInv
<1>6. LockOK
  BY <1>4 DEF HookInit, Init, LockOK, Delivering
<1>7. \A w : UnderWay(w) = {}
  BY <1>4 DEF UnderWay
<1>8. \A w \in Hooks : PollersOf(w) = {}
  BY WebhooksAssumption DEF HookInit, PollersOf, Hooks
<1>9. KnownOK
  BY <1>3, <1>4 DEF KnownOK, Delivering
<1>10. CountOK
  BY <1>3, <1>7 DEF CountOK, CountsTriggers
<1>11. PollersOK /\ AloneOK
  BY <1>7, <1>8 DEF PollersOK, AloneOK
<1>12. AloneStatusMatches
  BY <1>3 DEF AloneStatusMatches, StatusMatches
<1> QED
  BY <1>1, <1>5, <1>6, <1>9, <1>10, <1>11, <1>12 DEF HInv

\* Every step of the webhooks keeps their invariant.
LEMMA HookNextInv == HInv /\ [HookNext]_hookVars => HInv'
<1> SUFFICES ASSUME HInv, [HookNext]_hookVars PROVE HInv'
  OBVIOUS
<1>1. CASE UNCHANGED hookVars
  BY <1>1 DEF hookVars, vars, HInv, HookTypeOK, IInv, TypeOK, RecordsOK, InMemory, LockOK,
              Delivering, KnownOK, CountOK, CountsTriggers, UnderWay, PollersOK,
              PollersOf, Tracks, AloneOK, AloneStatusMatches, StatusMatches, JobStatus
<1>2. CASE HookNext
  BY <1>2, LoadKeeps, AbandonKeeps, CommitKeeps, TriggerKeeps, TriggerRefusedKeeps,
     TestTriggerKeeps, PollKeeps, GiveUpKeeps, UpdateWebhookKeeps, OthersKeeps, HookRestartKeeps
     DEF HookNext
<1> QED
  BY <1>1, <1>2

\* The webhooks' inductive invariant, for any webhooks, requests, jobs and any
\* number of restarts.
THEOREM HookInvariance == HookSpec => []HInv
BY HookInitInv, HookNextInv, PTL DEF HookSpec

\* Rows, handlers and pollers have their types, and so has the job engine
\* under triggers that are committed, refused or abandoned.
THEOREM HookTypes == HookSpec => []HookTypeOK
<1>1. HInv => HookTypeOK
  BY DEF HInv
<1> QED
  BY <1>1, HookInvariance, PTL

\* The write lock is free or in the hands of one handler or one notification,
\* so that a commit or a delivery always releases it.
THEOREM LockIsOwned == HookSpec => []LockHasOwner
<1>1. HInv => LockHasOwner
  <2> SUFFICES ASSUME HInv, holder # None
               PROVE  \/ \E r \in Requests : req[r].at = "notifying" /\ req[r].hook = holder
                      \/ holder \in JobIds /\ task[holder].at \in Notifying
    BY DEF LockHasOwner
  <2> QED
    BY DEF HInv, LockOK, Delivering
<1> QED
  BY <1>1, HookInvariance, PTL

\* trigger_count never runs ahead of the committed triggers, and loses none of
\* them unless two triggers of the webhook met.
THEOREM TriggersCounted == HookSpec => []CountsTriggers
<1>1. HInv => CountsTriggers
  BY DEF HInv, CountOK
<1> QED
  BY <1>1, HookInvariance, PTL

\* last_status is about last_job_id as long as the triggers of the webhook do
\* not meet, however many triggers, pollers, edits, deletions and restarts
\* there are.
THEOREM StatusOfLastJob == HookSpec => []AloneStatusMatches
<1>1. HInv => AloneStatusMatches
  BY DEF HInv
<1> QED
  BY <1>1, HookInvariance, PTL

\* A client that polls is promised no less under the webhooks: a trigger, be it
\* committed or refused, is the birth of a job, and nothing else of theirs is
\* the ledger's.
THEOREM WebhooksKeepLedger == HookSpec => LedgerSpec
<1>1. HookInit => Ledger!LedgerInit
  BY DEF HookInit, Init, Ledger!LedgerInit
<1>2. HInv /\ HInv' /\ [HookNext]_hookVars => [Ledger!LedgerNext]_(Ledger!ledger)
  <2> SUFFICES ASSUME HInv, HInv', [HookNext]_hookVars
               PROVE  Shape \/ Restart \/ UNCHANGED <<jobs, records, used>>
    BY LedgerStep DEF HInv
  <2>1. holder' \in JobIds \cup Origins \cup {None}
    BY DEF HInv, IInv, TypeOK
  <2>2. ASSUME NEW r \in Requests, NEW j \in JobIds, NEW kind \in Workload,
               NEW named \in SUBSET (Users \cup Objects),
               Trigger(r, j, kind, named) \/ TriggerRefused(r, j, kind, named)
        PROVE  Shape
    <3>1. /\ req[r].hook \in Hooks
          /\ StartJob(j, kind, req[r].hook, named)
          /\ UNCHANGED <<records, rows, crashes>>
      BY <2>2 DEF Trigger, TriggerRefused, HInv, KnownOK
    <3> QED
      BY <2>1, <2>2, <3>1, StartJobStep DEF HInv
  <2>3. ASSUME NEW w \in Hooks, NEW j \in JobIds, NEW kind \in Workload,
               NEW named \in SUBSET (Users \cup Objects), TestTrigger(w, j, kind, named)
        PROVE  Shape
    BY <2>1, <2>3, StartJobStep DEF TestTrigger, HInv
  <2>4. CASE \/ \E r \in Requests, w \in Hooks : Load(r, w)
             \/ \E r \in Requests : Abandon(r) \/ Commit(r)
             \/ \E j \in JobIds : Poll(j) \/ GiveUp(j)
             \/ \E w \in Hooks, enabled \in BOOLEAN : UpdateWebhook(w, enabled)
             \/ UNCHANGED hookVars
    BY <2>4 DEF Load, Abandon, Commit, Poll, GiveUp, UpdateWebhook, hookVars, vars
  <2>5. CASE Others \/ HookRestart
    BY <2>5, EngineKeeps DEF Others, HookRestart, Next, HInv
  <2> QED
    BY <2>2, <2>3, <2>4, <2>5 DEF HookNext
<1> QED
  BY <1>1, <1>2, HookInvariance, PTL DEF HookSpec, LedgerSpec, Ledger!LedgerSpec
=============================================================================
