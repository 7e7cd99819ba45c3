----------------------------- MODULE PageDialogs -----------------------------
(* The dialogs, forms and confirming buttons of the pages.  A behaviour       *)
(* follows one of them, a row of the tables of ClientTables: the user opens   *)
(* it for an object of the page, fills it in, presses its button and closes   *)
(* it again, while calls made from it are answered or fail in any order and   *)
(* the page may be left and mounted anew.                                     *)
EXTENDS Naturals, FiniteSets

CONSTANTS Rows,       \* [call, how, ends] of each dialog: tables D and W
          Objects,    \* what a dialog may be opened for
          Nothing,    \* the content of fields nobody filled in
          MaxOpened,  \* bound on the openings of the dialog
          MaxVisits   \* bound on the mountings of its page

(* Fields that are typed in start over for the next object: opening sets      *)
(* them, or every way of closing resets them, or there is one object only.    *)
StartsOver(r) ==
    \/ "typed" \notin r.how
    \/ "seeded" \in r.how
    \/ "aimed" \notin r.how
    \/ /\ "wiped" \in r.how /\ "confirm" \notin r.how
       /\ "shuts" \in r.ends => "clears" \in r.ends

ASSUME DialogAssumption ==
    /\ Nothing \notin Objects /\ Objects # {}
    /\ MaxOpened \in Nat /\ MaxVisits \in Nat \ {0}
    /\ \A r \in Rows : StartsOver(r)

VARIABLES row,     \* the dialog that is followed
          shown,   \* the object it is open for, or Nothing
          fields,  \* the object its fields were filled in for, or Nothing
          sent,    \* the calls that have no answer yet
          visit,   \* the mounting of the page
          opening  \* the openings so far

dialogVars == <<row, shown, fields, sent, visit, opening>>

-----------------------------------------------------------------------------
Has(flag) == flag \in row.how

(* A dialog that is not aimed is about one thing, whenever it is opened.      *)
About == IF Has("aimed") THEN Objects ELSE {CHOOSE o \in Objects : TRUE}

(* isPending of the mutation: a call of this mounting has no answer.          *)
Pending == \E r \in sent : r.visit = visit

DialogInit ==
    /\ row \in Rows
    /\ shown = Nothing /\ fields = Nothing
    /\ sent = {}
    /\ visit = 1 /\ opening = 0

(* Mutant: the fields are filled in when the page mounts, not on opening.     *)
MutantOpenFor(o) ==
    /\ shown = Nothing /\ opening < MaxOpened
    /\ shown' = o
    /\ opening' = opening + 1
    /\ fields' = IF Has("seeded") /\ opening = 0 THEN o ELSE fields
    /\ UNCHANGED <<row, sent, visit>>

OpenFor(o) ==
    /\ shown = Nothing /\ opening < MaxOpened
    /\ shown' = o
    /\ opening' = opening + 1
    /\ fields' = IF Has("seeded") THEN o ELSE fields
    /\ UNCHANGED <<row, sent, visit>>

(* The user fills the fields in for what the dialog names.                    *)
FillIn ==
    /\ shown # Nothing /\ Has("typed")
    /\ fields' = shown
    /\ UNCHANGED <<row, shown, sent, visit, opening>>

(* A "confirm" button is an AlertDialogAction: pressing it closes the dialog. *)
PressButton ==
    /\ shown # Nothing
    /\ ~(Has("locked") /\ Pending)
    /\ sent' = sent \cup {[for |-> shown, text |-> fields, visit |-> visit, opening |-> opening]}
    /\ shown' = IF Has("confirm") THEN Nothing ELSE shown
    /\ UNCHANGED <<row, fields, visit, opening>>

CancelDialog ==
    /\ shown # Nothing
    /\ shown' = Nothing
    /\ fields' = IF Has("wiped") THEN Nothing ELSE fields
    /\ UNCHANGED <<row, sent, visit, opening>>

(* Escape, the cross in the corner or a click outside.                        *)
Dismiss ==
    /\ shown # Nothing
    /\ shown' = Nothing
    /\ fields' = IF Has("wiped") \/ Has("corner") THEN Nothing ELSE fields
    /\ UNCHANGED <<row, sent, visit, opening>>

(* onSuccess closes or resets the dialog, whatever it is open for by then;    *)
(* the callback of an earlier mounting sets the state of a page that is gone. *)
Succeed(r) ==
    /\ sent' = sent \ {r}
    /\ shown' = IF r.visit = visit /\ "shuts" \in row.ends THEN Nothing ELSE shown
    /\ fields' = IF r.visit = visit /\ "clears" \in row.ends THEN Nothing ELSE fields
    /\ UNCHANGED <<row, visit, opening>>

(* onError shows a toast.                                                     *)
Fail(r) ==
    /\ sent' = sent \ {r}
    /\ UNCHANGED <<row, shown, fields, visit, opening>>

(* The page is left and mounted again: its state starts over.                 *)
Remount ==
    /\ visit < MaxVisits
    /\ visit' = visit + 1
    /\ shown' = Nothing /\ fields' = Nothing
    /\ UNCHANGED <<row, sent, opening>>

DialogNext ==
    \/ \E o \in About : OpenFor(o)
    \/ FillIn \/ PressButton \/ CancelDialog \/ Dismiss \/ Remount
    \/ \E r \in sent : Succeed(r) \/ Fail(r)

DialogSpec == DialogInit /\ [][DialogNext]_dialogVars

-----------------------------------------------------------------------------
DialogTypeOK ==
    /\ shown \in Objects \cup {Nothing}
    /\ fields \in Objects \cup {Nothing}
    /\ sent \subseteq [for : Objects, text : Objects \cup {Nothing}, visit : 1 .. MaxVisits,
                       opening : 1 .. MaxOpened]
    /\ visit \in 1 .. MaxVisits
    /\ opening \in 0 .. MaxOpened

(* What was filled in for one object is never sent for another: a dialog that *)
(* is opened again starts from its object's values or from empty fields.      *)
SentForItsTarget == \A r \in sent : r.text \in {r.for, Nothing}
=============================================================================
