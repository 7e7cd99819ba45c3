----------------------------- MODULE ClientPages -----------------------------
(* The machines of the client, one beside the other.  They share nothing but  *)
(* the browser, so their steps commute, and what one does is seen in the      *)
(* behaviours in which it alone moves: part names it, and the others rest in  *)
(* one of their initial states.                                               *)
EXTENDS PageDialogs, BulkSelection, InstanceRefresh, SecretReveal, JobPage, SshTerminal,
        SeededForms, ClientSession, ScriptRun, DashboardLayout

VARIABLE part  \* the machine that moves

clientVars == <<part, dialogVars, selectionVars, refreshVars, revealVars, jobPageVars,
                terminalVars, formVars, sessionVars, runVars, layoutVars>>

Parts == {"dialog", "selection", "refresh", "secret", "job", "terminal", "form",
          "session", "script", "layout"}

-----------------------------------------------------------------------------
ClientInit ==
    /\ part \in Parts
    /\ DialogInit /\ (part = "dialog" \/ row = CHOOSE r \in Rows : TRUE)
    /\ SelectionInit
       /\ (part = "selection" \/ (list = "hub" /\ typeShown = CHOOSE t \in ObjectTypes : TRUE))
    /\ RefreshInit /\ (part = "refresh" \/ (source = "direct" /\ bare = {}))
    /\ RevealInit
    /\ JobPageInit
       /\ (part = "job" \/ (over = {} /\ jobRoute = CHOOSE j \in Jobs : TRUE))
    /\ TerminalInit /\ (part = "terminal" \/ terminalStatus = "disconnected")
    /\ FormInit
       /\ (part = "form" \/ <<form, formFor>> = CHOOSE pair \in Forms \X Targets : TRUE)
    /\ SessionInit /\ (part = "session" \/ ~setUp)
    /\ RunInit
    /\ LayoutInit /\ (part = "layout" \/ announced = {})

(* Everything that does not move.                                             *)
OthersRest ==
    /\ UNCHANGED part
    /\ IF part = "dialog" THEN TRUE ELSE UNCHANGED dialogVars
    /\ IF part = "selection" THEN TRUE ELSE UNCHANGED selectionVars
    /\ IF part = "refresh" THEN TRUE ELSE UNCHANGED refreshVars
    /\ IF part = "secret" THEN TRUE ELSE UNCHANGED revealVars
    /\ IF part = "job" THEN TRUE ELSE UNCHANGED jobPageVars
    /\ IF part = "terminal" THEN TRUE ELSE UNCHANGED terminalVars
    /\ IF part = "form" THEN TRUE ELSE UNCHANGED formVars
    /\ IF part = "session" THEN TRUE ELSE UNCHANGED sessionVars
    /\ IF part = "script" THEN TRUE ELSE UNCHANGED runVars
    /\ IF part = "layout" THEN TRUE ELSE UNCHANGED layoutVars

ClientNext ==
    /\ \/ part = "dialog" /\ DialogNext
       \/ part = "selection" /\ SelectionNext
       \/ part = "refresh" /\ RefreshNext
       \/ part = "secret" /\ RevealNext
       \/ part = "job" /\ JobPageNext
       \/ part = "terminal" /\ TerminalNext
       \/ part = "form" /\ FormNext
       \/ part = "session" /\ SessionNext
       \/ part = "script" /\ RunNext
       \/ part = "layout" /\ LayoutNext
    /\ OthersRest

(* RefreshFairness, and JobPageFairness while the job page is the one that    *)
(* moves: at rest it would owe the load of its job.                           *)
ClientFairness ==
    /\ RefreshFairness
    /\ \A j \in Jobs : WF_jobPageVars(part = "job" /\ LoadJob(j))
    /\ WF_jobPageVars(part = "job" /\ Tick)
    /\ WF_jobPageVars(part = "job" /\ \E p \in polls : AnswerPoll(p))

ClientSpec == ClientInit /\ [][ClientNext]_clientVars /\ ClientFairness

-----------------------------------------------------------------------------
(* The types of every machine.  It also says that a page about a job is       *)
(* polled for that job only, that a refresh stops at its last poll, that a    *)
(* link is edited only while it is there and that an order names no link      *)
(* twice.                                                                     *)
ClientTypeOK ==
    /\ part \in Parts
    /\ DialogTypeOK
    /\ SelectionTypeOK
    /\ RefreshTypeOK
    /\ RevealTypeOK
    /\ JobPageTypeOK
    /\ TerminalTypeOK
    /\ FormTypeOK
    /\ SessionTypeOK
    /\ RunTypeOK
    /\ LayoutTypeOK
=============================================================================
