----------------------------- MODULE JobLedger -----------------------------
(***************************************************************************)
(* What the job API promises a client that polls GET /api/jobs/{id}: the   *)
(* status it answers for an id, whatever runs behind it.  A job starts     *)
(* once; its status changes once, from "running" to its verdict; a verdict *)
(* that is in the history is answered for ever.  A restart forgets the     *)
(* jobs that are not in the history, and nothing else.                     *)
(***************************************************************************)
EXTENDS Integers

CONSTANTS JobIds

VARIABLES
    answer,   \* what the API answers for an id
    history,  \* the ids whose verdict is stored
    born      \* the ids that have been given out

ledger == <<answer, history, born>>

Verdicts == {"completed", "failed"}

LedgerInit ==
    /\ answer = [j \in JobIds |-> "not found"]
    /\ history = {}
    /\ born = {}

\* Several jobs may start and end in one step: a job may start others as it
\* ends.
Ends(j) == answer[j] = "running" /\ answer'[j] \in Verdicts

Work ==
    /\ born \subseteq born'
    /\ history \subseteq history'
    /\ \A j \in JobIds :
        /\ j \in born' \ born => answer'[j] = "running"
        /\ j \in history' \ history => Ends(j)
        /\ j \notin born' \ born => Ends(j) \/ answer'[j] = answer[j]

Forget ==
    /\ answer' = [j \in JobIds |-> IF j \in history THEN answer[j] ELSE "not found"]
    /\ UNCHANGED <<history, born>>

LedgerNext == Work \/ Forget

LedgerSpec == LedgerInit /\ [][LedgerNext]_ledger
=============================================================================
