---------------------------- MODULE ClientSession ----------------------------
(* Who is signed in, in one browser: the auth store that localStorage keeps,  *)
(* the stores and the query cache in memory until the page is loaded anew,    *)
(* requests that carry the token there is when they are sent, and dashboard   *)
(* preferences, loaded once and saved 300 ms after the last edit.             *)
EXTENDS Naturals

CONSTANTS Users,
          NoUser,
          MaxEdits,   \* bound on the edits of preferences
          MaxSignIns  \* bound on the sign-ins

ASSUME SessionAssumption == NoUser \notin Users /\ MaxEdits \in Nat /\ MaxSignIns \in Nat

VARIABLES token,     \* whose token the auth store has, or NoUser
          user,      \* whom the auth store shows, or NoUser
          place,     \* "public" pages, "setup", "guard", or "inside" the application
          factorOf,  \* whose second factor the login page asks for, or NoUser
          setUp,     \* the server has an account
          status,    \* the cached answer to that: "unknown", "unset" or "set"
          onWay,     \* requests without an answer
          prefs,     \* [of, n]: whose preferences the store has, and which edit
          loaded,    \* they need not be loaded any more
          timer,     \* the preferences that are going to be saved, or NoTimer
          onServer,  \* the preferences the server has of each user
          edits,     \* edits so far
          signIns,   \* sign-ins so far
          memory,    \* users who signed in since the page was loaded
          shared,    \* two have, at some time
          gap        \* what is shown need not be what is saved

authVars == <<token, user, place, factorOf, setUp, status, signIns, memory, shared>>
prefVars == <<prefs, loaded, timer, onServer, edits, gap>>
sessionVars == <<authVars, onWay, prefVars>>

-----------------------------------------------------------------------------
Defaults == [of |-> NoUser, n |-> 0]

NoTimer == [of |-> NoUser, n |-> MaxEdits + 1]

Sent(what) == {r \in onWay : r.what = what}

Ask(what, held) == onWay \cup {[what |-> what, as |-> token, prefs |-> held]}

SessionInit ==
    /\ token = NoUser /\ user = NoUser
    /\ place = "guard" /\ factorOf = NoUser
    /\ setUp \in BOOLEAN /\ status = "unknown"
    /\ onWay = {}
    /\ prefs = Defaults /\ loaded = FALSE /\ timer = NoTimer
    /\ onServer = [u \in Users |-> Defaults]
    /\ edits = 0 /\ signIns = 0
    /\ memory = {} /\ shared = FALSE /\ gap = FALSE

-----------------------------------------------------------------------------
(* Mutant: the user is left to useCurrentUser.                                *)
MutantSetAuth(u) ==
    /\ signIns < MaxSignIns
    /\ signIns' = signIns + 1
    /\ token' = u
    /\ place' = "guard" /\ factorOf' = NoUser
    /\ memory' = memory \cup {u}
    /\ shared' = (shared \/ memory \ {u} # {})
    /\ UNCHANGED <<user, status, onWay, prefVars>>

(* setAuth and navigate('/dashboard').                                        *)
SetAuth(u) ==
    /\ signIns < MaxSignIns
    /\ signIns' = signIns + 1
    /\ token' = u /\ user' = u
    /\ place' = "guard" /\ factorOf' = NoUser
    /\ memory' = memory \cup {u}
    /\ shared' = (shared \/ memory \ {u} # {})
    /\ UNCHANGED <<status, onWay, prefVars>>

(* A password, when the account has no second factor; an invitation.          *)
SignIn(u) ==
    /\ place = "public" /\ setUp
    /\ SetAuth(u)
    /\ UNCHANGED setUp

AskSecondFactor(u) ==
    /\ place = "public" /\ setUp /\ factorOf = NoUser
    /\ factorOf' = u
    /\ UNCHANGED <<token, user, place, setUp, status, signIns, memory, shared, onWay, prefVars>>

BackToLogin ==
    /\ factorOf # NoUser
    /\ factorOf' = NoUser
    /\ UNCHANGED <<token, user, place, setUp, status, signIns, memory, shared, onWay, prefVars>>

SecondFactor ==
    /\ factorOf # NoUser
    /\ SetAuth(factorOf)
    /\ UNCHANGED setUp

(* Nothing tells the cached status that there is an account now.              *)
FirstAccount(u) ==
    /\ place = "setup" /\ ~setUp
    /\ setUp' = TRUE
    /\ SetAuth(u)

(* The menu: the auth store is cleared, everything else in memory stays.      *)
SignOut ==
    /\ place = "inside"
    /\ token' = NoUser /\ user' = NoUser
    /\ place' = "public"
    /\ UNCHANGED <<factorOf, setUp, status, signIns, memory, shared, onWay, prefVars>>

(* The page is loaded anew: what localStorage has stays, and a save on its    *)
(* way may reach the server or not.                                           *)
LoadPage(keeps) ==
    /\ token' = keeps
    /\ user' = IF keeps = NoUser THEN NoUser ELSE user
    /\ place' = IF keeps = NoUser THEN "public" ELSE "guard"
    /\ factorOf' = NoUser /\ status' = "unknown"
    /\ memory' = {keeps} \ {NoUser}
    /\ onWay' = {}
    /\ prefs' = Defaults /\ loaded' = FALSE /\ timer' = NoTimer
    /\ \E done \in SUBSET Sent("save") :
          onServer' = [u \in Users |->
              LET mine == {r.prefs : r \in {d \in done : d.as = u}}
              IN IF mine = {} THEN onServer[u] ELSE CHOOSE p \in mine : TRUE]
    /\ UNCHANGED <<setUp, signIns, shared, edits, gap>>

Reload == place # "public" /\ LoadPage(token)

(* The response interceptor: any answer 401, the refusal of a password or of  *)
(* a second factor too, signs out and loads the login page.                   *)
Unauthorized == (onWay # {} \/ place = "public") /\ LoadPage(NoUser)

-----------------------------------------------------------------------------
(* AuthGuard: the status is fetched, then it decides.                         *)
StatusArrives ==
    /\ place \in {"guard", "inside"}
    /\ status' = IF setUp THEN "set" ELSE "unset"
    /\ UNCHANGED <<token, user, place, factorOf, setUp, signIns, memory, shared, onWay, prefVars>>

StatusCollected ==
    /\ place \in {"public", "setup"} /\ status # "unknown"
    /\ status' = "unknown"
    /\ UNCHANGED <<token, user, place, factorOf, setUp, signIns, memory, shared, onWay, prefVars>>

Redirect ==
    /\ place \in {"guard", "inside"} /\ status # "unknown"
    /\ \/ status = "unset" /\ place' = "setup"
       \/ status = "set" /\ token = NoUser /\ place' = "public"
    /\ UNCHANGED <<token, user, factorOf, setUp, status, signIns, memory, shared, onWay, prefVars>>

(* A failed status shows the pages to whoever has a token.  AppLayout mounts  *)
(* and loads the preferences, unless the store has been told they are there.  *)
Enter ==
    /\ place = "guard" /\ status # "unset" /\ token # NoUser
    /\ place' = "inside"
    /\ onWay' = IF loaded THEN onWay ELSE Ask("load", Defaults)
    /\ UNCHANGED <<token, user, factorOf, setUp, status, signIns, memory, shared, prefVars>>

(* useCurrentUser: on mounting when it is stale, one fetch at a time.         *)
AskWho ==
    /\ place \in {"guard", "inside"} /\ token # NoUser /\ Sent("me") = {}
    /\ onWay' = Ask("me", Defaults)
    /\ UNCHANGED <<authVars, prefVars>>

WhoArrives(r) ==
    /\ r.what = "me"
    /\ onWay' = onWay \ {r}
    /\ user' = r.as
    /\ UNCHANGED <<token, place, factorOf, setUp, status, signIns, memory, shared, prefVars>>

AnswerFails(r) ==
    /\ onWay' = onWay \ {r}
    /\ loaded' = (loaded \/ r.what = "load")
    /\ gap' = (gap \/ r.what # "me")
    /\ UNCHANGED <<authVars, prefs, timer, onServer, edits>>

-----------------------------------------------------------------------------
PrefsArrive(r) ==
    /\ r.what = "load" /\ r.as # NoUser
    /\ onWay' = onWay \ {r}
    /\ prefs' = onServer[r.as] /\ loaded' = TRUE
    /\ gap' = (gap \/ timer # NoTimer \/ Sent("save") # {})
    /\ UNCHANGED <<authVars, timer, onServer, edits>>

(* Mutant: a timer that runs is not started over.                             *)
MutantEdit ==
    /\ place = "inside" /\ edits < MaxEdits
    /\ edits' = edits + 1
    /\ prefs' = [of |-> IF prefs.of = NoUser THEN token ELSE prefs.of, n |-> edits + 1]
    /\ timer' = IF timer = NoTimer THEN prefs' ELSE timer
    /\ gap' = (gap \/ Sent("load") # {})
    /\ UNCHANGED <<authVars, onWay, loaded, onServer>>

(* Pinning, folding, ordering, links: the store has it at once, the timer     *)
(* starts over with it.                                                       *)
Edit ==
    /\ place = "inside" /\ edits < MaxEdits
    /\ edits' = edits + 1
    /\ prefs' = [of |-> IF prefs.of = NoUser THEN token ELSE prefs.of, n |-> edits + 1]
    /\ timer' = prefs'
    /\ gap' = (gap \/ Sent("load") # {})
    /\ UNCHANGED <<authVars, onWay, loaded, onServer>>

Fire ==
    /\ timer # NoTimer
    /\ timer' = NoTimer
    /\ onWay' = Ask("save", timer)
    /\ gap' = (gap \/ Sent("save") # {})
    /\ UNCHANGED <<authVars, prefs, loaded, onServer, edits>>

PrefsSaved(r) ==
    /\ r.what = "save" /\ r.as # NoUser
    /\ onWay' = onWay \ {r}
    /\ onServer' = [onServer EXCEPT ![r.as] = r.prefs]
    /\ UNCHANGED <<authVars, prefs, loaded, timer, edits, gap>>

SessionNext ==
    \/ \E u \in Users : SignIn(u) \/ AskSecondFactor(u) \/ FirstAccount(u)
    \/ SecondFactor \/ BackToLogin \/ SignOut \/ Reload \/ Unauthorized
    \/ StatusArrives \/ StatusCollected \/ Redirect \/ Enter \/ AskWho
    \/ \E r \in onWay : WhoArrives(r) \/ AnswerFails(r) \/ PrefsArrive(r) \/ PrefsSaved(r)
    \/ Edit \/ Fire

SessionSpec == SessionInit /\ [][SessionNext]_sessionVars

-----------------------------------------------------------------------------
Kept == [of : Users \cup {NoUser}, n : 0 .. MaxEdits]

SessionTypeOK ==
    /\ token \in Users \cup {NoUser} /\ user \in Users \cup {NoUser}
    /\ place \in {"public", "setup", "guard", "inside"}
    /\ factorOf \in Users \cup {NoUser}
    /\ setUp \in BOOLEAN /\ status \in {"unknown", "unset", "set"}
    /\ onWay \subseteq [what : {"me", "load", "save"}, as : Users \cup {NoUser}, prefs : Kept]
    /\ prefs \in Kept /\ loaded \in BOOLEAN /\ timer \in Kept \cup {NoTimer}
    /\ onServer \in [Users -> Kept]
    /\ edits \in 0 .. MaxEdits /\ signIns \in 0 .. MaxSignIns
    /\ memory \subseteq Users /\ shared \in BOOLEAN /\ gap \in BOOLEAN
    /\ (place = "inside" => token # NoUser)

(* While no two users sign in between two loads of the page, the one who is   *)
(* signed in is the one who is shown, and nobody gets the preferences of      *)
(* another; a second user finds what the first one's answers and timer leave. *)
OwnWhileAlone ==
    ~shared =>
        /\ token # NoUser => user = token /\ prefs.of \in {NoUser, token}
        /\ \A u \in Users : onServer[u].of \in {NoUser, u}

(* When nothing is on its way, what the dashboard shows is what the server    *)
(* keeps, but for four lapses: a call failed, an edit was made before the     *)
(* preferences were loaded, they were loaded over an edit, or two saves       *)
(* crossed.                                                                   *)
ShownIsSaved ==
    ~gap /\ ~shared /\ place = "inside" /\ timer = NoTimer
    /\ Sent("load") = {} /\ Sent("save") = {}
    => onServer[token] = prefs
=============================================================================
