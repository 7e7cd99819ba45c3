---------------------------- MODULE SecretReveal -----------------------------
(* Showing a secret of the credential list: a password check opens the way    *)
(* for ten minutes, short secrets are in the row, private keys are fetched.   *)
(* The columns' buttons keep the grant of the render that made the columns.   *)
EXTENDS Naturals, FiniteSets

CONSTANTS Passwords,    \* objects whose secret is in the row
          PrivateKeys,  \* objects whose secret is a file to fetch
          NoObject,     \* no object
          MaxChecks     \* bound on the password checks in flight

ASSUME RevealAssumption ==
    NoObject \notin Passwords \cup PrivateKeys /\ MaxChecks \in Nat

VARIABLES granted,  \* ten minutes have not passed since the last check
          kept,     \* nor since the check that the buttons of the columns know of
          asking,   \* pendingActionRef: the object to show after the check
          wanted,   \* the object the user asked for last
          prompt,   \* the dialog that asks for the password is open
          checks,   \* its checks in flight
          modal,    \* [open, name, value, loading] of the window of the secret
          fetches   \* private keys on their way

revealVars == <<granted, kept, asking, wanted, prompt, checks, modal, fetches>>

-----------------------------------------------------------------------------
Secrets == Passwords \cup PrivateKeys

RevealInit ==
    /\ granted = FALSE /\ kept = FALSE
    /\ asking = NoObject /\ wanted = NoObject
    /\ prompt = FALSE /\ checks = 0
    /\ modal = [open |-> FALSE, name |-> NoObject, value |-> NoObject, loading |-> FALSE]
    /\ fetches = {}

(* The action of a button: fetchAndShowPrivateKey, or the secret of the row.  *)
Showing(o) ==
    IF o \in PrivateKeys
    THEN /\ modal' = [open |-> TRUE, name |-> o, value |-> NoObject, loading |-> TRUE]
         /\ fetches' = fetches \cup {o}
    ELSE /\ modal' = [modal EXCEPT !.open = TRUE, !.name = o, !.value = o]
         /\ UNCHANGED fetches

(* Mutant: a question that was not answered keeps its place.                  *)
MutantReveal(o) ==
    /\ ~prompt /\ ~modal.open
    /\ wanted' = o
    /\ IF kept /\ granted
       THEN Showing(o) /\ UNCHANGED <<asking, prompt>>
       ELSE /\ asking' = IF asking = NoObject THEN o ELSE asking
            /\ prompt' = TRUE
            /\ UNCHANGED <<modal, fetches>>
    /\ UNCHANGED <<granted, kept, checks>>

(* requireReauth; the list is behind the dialogs while one is open.           *)
Reveal(o) ==
    /\ ~prompt /\ ~modal.open
    /\ wanted' = o
    /\ IF kept /\ granted
       THEN Showing(o) /\ UNCHANGED <<asking, prompt>>
       ELSE asking' = o /\ prompt' = TRUE /\ UNCHANGED <<modal, fetches>>
    /\ UNCHANGED <<granted, kept, checks>>

-----------------------------------------------------------------------------
(* The Verify button is off while a check runs; Enter is not.                 *)
SubmitPassword ==
    /\ prompt /\ checks < MaxChecks
    /\ checks' = checks + 1
    /\ UNCHANGED <<granted, kept, asking, wanted, prompt, modal, fetches>>

PasswordVerified ==
    /\ checks > 0
    /\ checks' = checks - 1
    /\ prompt' = FALSE /\ granted' = TRUE
    /\ asking' = NoObject
    /\ IF asking # NoObject THEN Showing(asking) ELSE UNCHANGED <<modal, fetches>>
    /\ UNCHANGED <<kept, wanted>>

(* Mutant: the action runs in a finally clause.                               *)
MutantPasswordRefused ==
    /\ checks > 0
    /\ checks' = checks - 1
    /\ IF asking # NoObject THEN Showing(asking) ELSE UNCHANGED <<modal, fetches>>
    /\ UNCHANGED <<granted, kept, asking, wanted, prompt>>

PasswordRefused ==
    /\ checks > 0
    /\ checks' = checks - 1
    /\ UNCHANGED <<granted, kept, asking, wanted, prompt, modal, fetches>>

CancelPrompt ==
    /\ prompt
    /\ prompt' = FALSE
    /\ UNCHANGED <<granted, kept, asking, wanted, checks, modal, fetches>>

CloseModal ==
    /\ modal.open
    /\ modal' = [modal EXCEPT !.open = FALSE]
    /\ UNCHANGED <<granted, kept, asking, wanted, prompt, checks, fetches>>

(* A fetched key is put in the window, whatever the window is for by then.    *)
KeyArrives(o) ==
    /\ fetches' = fetches \ {o}
    /\ modal' = [modal EXCEPT !.value = o, !.loading = FALSE]
    /\ UNCHANGED <<granted, kept, asking, wanted, prompt, checks>>

KeyFails(o) ==
    /\ fetches' = fetches \ {o}
    /\ modal' = [modal EXCEPT !.open = FALSE, !.loading = FALSE]
    /\ UNCHANGED <<granted, kept, asking, wanted, prompt, checks>>

(* Ten minutes pass since the check the columns know of, or since the last.   *)
GrantEnds ==
    /\ granted \/ kept
    /\ kept' = FALSE
    /\ granted' \in {FALSE, granted}
    /\ UNCHANGED <<asking, wanted, prompt, checks, modal, fetches>>

(* useMemo builds the columns anew: another type, or types fetched again.     *)
NewColumns ==
    /\ kept # granted
    /\ kept' = granted
    /\ UNCHANGED <<granted, asking, wanted, prompt, checks, modal, fetches>>

RevealNext ==
    \/ \E o \in Secrets : Reveal(o)
    \/ SubmitPassword \/ PasswordVerified \/ PasswordRefused \/ CancelPrompt
    \/ CloseModal \/ GrantEnds \/ NewColumns
    \/ \E o \in fetches : KeyArrives(o) \/ KeyFails(o)

RevealSpec == RevealInit /\ [][RevealNext]_revealVars

-----------------------------------------------------------------------------
RevealTypeOK ==
    /\ granted \in BOOLEAN /\ kept \in BOOLEAN /\ prompt \in BOOLEAN
    /\ asking \in Secrets \cup {NoObject} /\ wanted \in Secrets \cup {NoObject}
    /\ checks \in 0 .. MaxChecks
    /\ modal \in [open : BOOLEAN, name : Secrets \cup {NoObject},
                  value : Secrets \cup {NoObject}, loading : BOOLEAN]
    /\ fetches \subseteq PrivateKeys

(* While the dialog asks for the password, its answer will show the object of *)
(* the last button pressed, though an earlier question was cancelled (its     *)
(* action stays in the ref) and its check may answer now.                     *)
AsksForTheLast == prompt => asking = wanted

(* The window opens at the answer to a check or within ten minutes of one.    *)
OpensAfterCheck ==
    [][~modal.open /\ modal'.open => granted \/ (checks' < checks /\ granted')]_revealVars
=============================================================================
