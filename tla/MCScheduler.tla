---------------------------- MODULE MCScheduler ----------------------------
EXTENDS Scheduler, TLC
Symmetric == Permutations(JobIds)

\* Bound of the liveness run: either every schedule is enabled and skips, and
\* every job is a schedule's; or none is, and users start the jobs.
AllOn == \A s \in Schedules : sched[s].skip /\ sched[s].next # "off"
AllOff == \A s \in Schedules : ~sched[s].skip /\ sched[s].next = "off"

OneMode ==
    /\ AllOn => AllOn' /\ \A j \in used' \ used : jobs'[j].refs # {}
    /\ AllOff => AllOff'

OneModeSpec ==
    /\ SchedInit /\ (AllOn \/ AllOff)
    /\ [][SchedNext /\ OneMode]_schedVars
    /\ SchedFairness
=============================================================================
