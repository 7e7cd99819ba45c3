------------------------------- MODULE JobPage -------------------------------
(* The page of a job (JobDetailPage with useJobStream): one query loads the   *)
(* job, then a timer asks for it every second until it is not running.  The   *)
(* component and its one interval are kept when the route goes to another     *)
(* job, an answer is shown whoever it is about, and polls may overlap.        *)
EXTENDS Naturals, FiniteSets

CONSTANTS Jobs,      \* a bulk job and its children, a job and its reruns
          NoJob,     \* no job
          MaxPolls,  \* bound on the polls in flight
          MaxMoves   \* bound on the changes of the route

ASSUME JobPageAssumption ==
    /\ NoJob \notin Jobs \cup {"running", "over"}
    /\ MaxPolls \in Nat /\ MaxMoves \in Nat

VARIABLES jobRoute,     \* the job in the URL
          jobCache,     \* query ['job', id]: the status it holds, or NoJob
          jobsLoading,  \* jobs whose query is fetching
          effectFor,    \* job?.id: the job the effect ran for, or NoJob
          pollTimer,    \* the job that intervalRef's timer asks for, or NoJob
          polls,        \* polls in flight
          jobStatus,    \* what the page shows
          outputOf,     \* and of which job
          over,         \* jobs that are not running any more
          moves,        \* changes of the route so far
          crossed       \* a poll failed, met another, or was left behind

jobPageVars == <<jobRoute, jobCache, jobsLoading, effectFor, pollTimer, polls,
                 jobStatus, outputOf, over, moves, crossed>>

-----------------------------------------------------------------------------
StatusOf(j) == IF j \in over THEN "over" ELSE "running"

(* Mutant: the effect has no cleanup.                                         *)
MutantRunEffect(j, held) ==
    /\ effectFor' = IF held = NoJob THEN NoJob ELSE j
    /\ pollTimer' = IF held = "running" THEN j ELSE pollTimer
    /\ jobStatus' = IF held = NoJob THEN jobStatus ELSE held
    /\ outputOf' = IF held = NoJob THEN outputOf ELSE j

(* The effect on [job?.id]: the old interval is cleared, the data is shown,   *)
(* and a running job gets an interval.                                        *)
RunEffect(j, held) ==
    /\ effectFor' = IF held = NoJob THEN NoJob ELSE j
    /\ pollTimer' = IF held = "running" THEN j ELSE NoJob
    /\ jobStatus' = IF held = NoJob THEN jobStatus ELSE held
    /\ outputOf' = IF held = NoJob THEN outputOf ELSE j

JobPageInit ==
    /\ jobRoute \in Jobs
    /\ jobCache = [j \in Jobs |-> NoJob]
    /\ jobsLoading = {jobRoute}
    /\ effectFor = NoJob /\ pollTimer = NoJob
    /\ polls = {}
    /\ jobStatus = "running" /\ outputOf = NoJob
    /\ over \in SUBSET Jobs
    /\ moves = 0 /\ crossed = FALSE

(* A link to a child, to the parent or to a rerun.                            *)
GoTo(j) ==
    /\ j # jobRoute /\ moves < MaxMoves
    /\ jobRoute' = j
    /\ moves' = moves + 1
    /\ jobsLoading' = jobsLoading \cup {j}
    /\ RunEffect(j, jobCache[j])
    /\ crossed' = (crossed \/ polls # {})
    /\ UNCHANGED <<jobCache, polls, over>>

(* The query answers; the effect runs when the id changes from undefined.     *)
LoadJob(j) ==
    /\ j \in jobsLoading
    /\ jobsLoading' = jobsLoading \ {j}
    /\ jobCache' = [jobCache EXCEPT ![j] = StatusOf(j)]
    /\ IF j = jobRoute /\ effectFor = NoJob
       THEN RunEffect(j, StatusOf(j))
       ELSE UNCHANGED <<effectFor, pollTimer, jobStatus, outputOf>>
    /\ UNCHANGED <<jobRoute, polls, over, moves, crossed>>

(* The query is given up: the page has no job, so no effect and no timer.     *)
LoadFails(j) ==
    /\ j \in jobsLoading
    /\ jobsLoading' = jobsLoading \ {j}
    /\ UNCHANGED <<jobRoute, jobCache, effectFor, pollTimer, polls,
                    jobStatus, outputOf, over, moves, crossed>>

Tick ==
    /\ pollTimer # NoJob /\ Cardinality(polls) < MaxPolls
    /\ \E n \in 1 .. MaxPolls :
          /\ \A p \in polls : p.slot # n
          /\ polls' = polls \cup {[slot |-> n, of |-> pollTimer, saw |-> StatusOf(pollTimer)]}
    /\ crossed' = (crossed \/ polls # {})
    /\ UNCHANGED <<jobRoute, jobCache, jobsLoading, effectFor, pollTimer,
                    jobStatus, outputOf, over, moves>>

(* Mutant: a timeout that is not set again.                                   *)
MutantAnswerPoll(p) ==
    /\ polls' = polls \ {p}
    /\ jobStatus' = p.saw /\ outputOf' = p.of
    /\ pollTimer' = NoJob
    /\ UNCHANGED <<jobRoute, jobCache, jobsLoading, effectFor, over, moves, crossed>>

(* The answer is shown; one that is not running stops the timer there is now. *)
AnswerPoll(p) ==
    /\ polls' = polls \ {p}
    /\ jobStatus' = p.saw /\ outputOf' = p.of
    /\ pollTimer' = IF p.saw = "over" THEN NoJob ELSE pollTimer
    /\ UNCHANGED <<jobRoute, jobCache, jobsLoading, effectFor, over, moves, crossed>>

(* catch: the timer is stopped for good.                                      *)
PollFails(p) ==
    /\ polls' = polls \ {p}
    /\ pollTimer' = NoJob
    /\ crossed' = TRUE
    /\ UNCHANGED <<jobRoute, jobCache, jobsLoading, effectFor,
                    jobStatus, outputOf, over, moves>>

JobEnds(j) ==
    /\ j \notin over
    /\ over' = over \cup {j}
    /\ UNCHANGED <<jobRoute, jobCache, jobsLoading, effectFor, pollTimer, polls,
                    jobStatus, outputOf, moves, crossed>>

JobPageNext ==
    \/ \E j \in Jobs : GoTo(j) \/ LoadJob(j) \/ LoadFails(j) \/ JobEnds(j)
    \/ Tick
    \/ \E p \in polls : AnswerPoll(p) \/ PollFails(p)

(* Requests are answered and the timer fires.                                 *)
JobPageFairness ==
    /\ \A j \in Jobs : WF_jobPageVars(LoadJob(j))
    /\ WF_jobPageVars(Tick)
    /\ WF_jobPageVars(\E p \in polls : AnswerPoll(p))

JobPageSpec == JobPageInit /\ [][JobPageNext]_jobPageVars /\ JobPageFairness

-----------------------------------------------------------------------------
JobPageTypeOK ==
    /\ jobRoute \in Jobs /\ jobsLoading \subseteq Jobs
    /\ jobCache \in [Jobs -> {NoJob, "running", "over"}]
    /\ effectFor \in {NoJob, jobRoute} /\ pollTimer \in {NoJob, effectFor}
    /\ polls \subseteq [slot : 1 .. MaxPolls, of : Jobs, saw : {"running", "over"}]
    /\ jobStatus \in {"running", "over"} /\ outputOf \in Jobs \cup {NoJob}
    /\ over \subseteq Jobs /\ moves \in 0 .. MaxMoves /\ crossed \in BOOLEAN

(* While no poll fails, meets another or is left behind, the loaded page      *)
(* shows its own job, and goes on asking while it shows it running.           *)
ShowsItsOwnJob ==
    ~crossed /\ effectFor # NoJob =>
        /\ outputOf = effectFor
        /\ jobStatus = "running" => pollTimer = effectFor
        /\ jobStatus = "over" => effectFor \in over

(* "auto-updating (polls every 1s while job is running)" (Frontend.md): with  *)
(* the same exceptions the page of a job that is over ends up saying so, if   *)
(* its first query was answered: one that fails is not followed by a poll.    *)
EndIsShown ==
    \A j \in Jobs :
        (jobRoute = j /\ j \in over) ~>
            (\/ jobRoute # j
             \/ outputOf = j /\ jobStatus = "over"
             \/ crossed
             \/ jobCache[j] = NoJob /\ j \notin jobsLoading)
=============================================================================
