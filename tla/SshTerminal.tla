----------------------------- MODULE SshTerminal -----------------------------
(* The terminal of a server, as a page (SSHTerminalPage) and in a dialog of   *)
(* the portal (SSHTerminalModal).  connect() loads the terminal's code before *)
(* it opens a socket; leaving, another user name or Reconnect starts a new    *)
(* connection after closing the one in wsRef.                                 *)
EXTENDS Naturals, FiniteSets

CONSTANT MaxTries  \* bound on the connections started

ASSUME TerminalAssumption == MaxTries \in Nat

VARIABLES terminalShown,   \* the page is mounted, the dialog open
          sockets,         \* what became of each connection started, in order
          wsRef,           \* wsRef: a connection, or 0
          terminalStatus,  \* what the page says
          crowded          \* a connection was started while another loaded the code

terminalVars == <<terminalShown, sockets, wsRef, terminalStatus, crowded>>

-----------------------------------------------------------------------------
LiveSockets == {t \in DOMAIN sockets : sockets[t] \in {"opening", "open"}}

(* Mutant: the timer of 50 ms is not cleared.                                 *)
MutantAfterCleanup ==
    [t \in DOMAIN sockets |->
        IF t = wsRef /\ t \in LiveSockets THEN "closing" ELSE sockets[t]]

(* The cleanup of the effect: close() is not the end of the socket.           *)
AfterCleanup ==
    [t \in DOMAIN sockets |->
        IF t = wsRef /\ t \in LiveSockets THEN "closing"
        ELSE IF sockets[t] = "delayed" THEN "dropped" ELSE sockets[t]]

TerminalInit ==
    /\ terminalShown = FALSE
    /\ sockets = [t \in {} |-> "dropped"]
    /\ wsRef = 0
    /\ terminalStatus \in {"disconnected", "connecting"}
    /\ crowded = FALSE

(* The effect runs: on mounting or opening, for another user, on Reconnect.   *)
(* The dialog waits 50 ms, the page does not.                                 *)
Connect ==
    LET new == Cardinality(DOMAIN sockets) + 1
    IN /\ new <= MaxTries
       /\ terminalShown' = TRUE
       /\ \E first \in {"delayed", "loading"} :
             sockets' = [t \in 1 .. new |-> IF t = new THEN first ELSE AfterCleanup[t]]
       /\ crowded' = (crowded \/ \E t \in DOMAIN sockets : sockets[t] = "loading")
       /\ UNCHANGED <<wsRef, terminalStatus>>

Leave ==
    /\ terminalShown
    /\ terminalShown' = FALSE
    /\ sockets' = AfterCleanup
    /\ UNCHANGED <<wsRef, terminalStatus, crowded>>

SetSocket(t, s) == sockets' = [sockets EXCEPT ![t] = s]

DelayOver(t) ==
    /\ sockets[t] = "delayed"
    /\ SetSocket(t, "loading")
    /\ UNCHANGED <<terminalShown, wsRef, terminalStatus, crowded>>

(* The code is there; without the element to draw in, connect() throws.       *)
CodeLoaded(t) ==
    /\ sockets[t] = "loading"
    /\ IF terminalShown
       THEN SetSocket(t, "opening") /\ wsRef' = t /\ terminalStatus' = "connecting"
       ELSE SetSocket(t, "dropped") /\ UNCHANGED <<wsRef, terminalStatus>>
    /\ UNCHANGED <<terminalShown, crowded>>

(* The import fails: connect() throws before there is a socket.               *)
CodeFails(t) ==
    /\ sockets[t] = "loading"
    /\ SetSocket(t, "dropped")
    /\ UNCHANGED <<terminalShown, wsRef, terminalStatus, crowded>>

Opened(t) ==
    /\ sockets[t] = "opening"
    /\ SetSocket(t, "open") /\ terminalStatus' = "connected"
    /\ UNCHANGED <<terminalShown, wsRef, crowded>>

(* onclose, of a socket closed here or by the server.                         *)
Closed(t) ==
    /\ sockets[t] \in {"opening", "open", "closing"}
    /\ SetSocket(t, "closed") /\ terminalStatus' = "disconnected"
    /\ UNCHANGED <<terminalShown, wsRef, crowded>>

(* onerror, "error" on the page, or the server's word in the dialog: either   *)
(* only changes what is said, the socket ends by its onclose.                 *)
Errored(t) ==
    /\ sockets[t] \in {"opening", "open", "closing"}
    /\ terminalStatus' \in {"disconnected", "error"}
    /\ UNCHANGED <<terminalShown, sockets, wsRef, crowded>>

TerminalNext ==
    \/ Connect \/ Leave
    \/ \E t \in DOMAIN sockets :
          \/ DelayOver(t) \/ CodeLoaded(t) \/ CodeFails(t)
          \/ Opened(t) \/ Errored(t) \/ Closed(t)

TerminalSpec == TerminalInit /\ [][TerminalNext]_terminalVars

-----------------------------------------------------------------------------
TerminalTypeOK ==
    /\ terminalShown \in BOOLEAN /\ crowded \in BOOLEAN
    /\ DOMAIN sockets = 1 .. Cardinality(DOMAIN sockets)
    /\ \A t \in DOMAIN sockets :
          sockets[t] \in
              {"delayed", "loading", "opening", "open", "closing", "closed", "dropped"}
    /\ wsRef \in {0} \cup DOMAIN sockets
    /\ terminalStatus \in {"connecting", "connected", "disconnected", "error"}

(* No connection is left open behind the terminal: a live socket is the one   *)
(* that leaving will close, unless two of them loaded the code together.      *)
OneSocket == ~crowded => LiveSockets \subseteq (IF terminalShown THEN {wsRef} ELSE {})
=============================================================================
