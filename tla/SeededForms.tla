---------------------------- MODULE SeededForms ------------------------------
(* Forms filled from the server and saved back while their data is fetched    *)
(* again: the configuration editor ("config", which keeps what is typed while *)
(* dirty), the role page ("role") and the budget form ("budget"), which take  *)
(* whatever arrives, and the fields of an object ("object"), filled when      *)
(* editing starts.  Their pages stay mounted when the route or the selected   *)
(* file changes.  A text is told by the target it was filled for, the state   *)
(* of the server it started from and what the user did with it.               *)
EXTENDS Naturals

CONSTANTS Forms,    \* which forms to follow
          Targets,  \* files of services, roles, objects: what the form can be for
          Unread,   \* what the browser has of a target it never fetched
          MaxSaves  \* bound on the changes on the server

ASSUME FormAssumption ==
    /\ Forms \subseteq {"config", "role", "budget", "object"}
    /\ MaxSaves \in Nat \ {0} /\ Unread \notin Nat /\ Unread \notin Targets

VARIABLES form,      \* the form that is followed
          formFor,   \* what it is for now
          saved,     \* the state of each target on the server
          known,     \* the state the browser has, or Unread
          arriving,  \* targets being fetched
          draft,     \* [of, from, typed, taken, loose]
          dirty,     \* "config": the Save button is there; "object": editing
          save       \* [busy, to, text, read, typedOn]: the call that saves

formVars == <<form, formFor, saved, known, arriving, draft, dirty, save>>

-----------------------------------------------------------------------------
(* typed: the user changed it and it was not saved.  taken: the page went to  *)
(* another target and kept it.  loose: typed, but dirty has been reset.       *)
Filled(t, ver) == [of |-> t, from |-> ver, typed |-> FALSE, taken |-> FALSE, loose |-> FALSE]

Blank == Filled(Unread, 0)

NoSave == [busy |-> FALSE, to |-> Unread, text |-> Blank, read |-> FALSE, typedOn |-> FALSE]

FormInit ==
    /\ form \in Forms /\ formFor \in Targets
    /\ saved = [t \in Targets |-> 1]
    /\ known = [t \in Targets |-> Unread]
    /\ arriving = {formFor}
    /\ draft = Blank /\ dirty = FALSE /\ save = NoSave

(* Two texts the browser has one after the other may be equal, and no effect  *)
(* runs then; a text that was not touched is the new one all the same.        *)
Unmoved == known[formFor] # Unread /\ draft # Filled(formFor, known[formFor])

(* Mutant: the editor takes what arrives, dirty or not.                       *)
MutantReseeds == form \in {"role", "budget", "config"}

(* The effect that fills the form when the data under the key has changed.    *)
Reseeds == form \in {"role", "budget"} \/ (form = "config" /\ ~dirty)

FormArrives(t) ==
    /\ t \in arriving
    /\ arriving' = arriving \ {t}
    /\ known' = [known EXCEPT ![t] = saved[t]]
    /\ \/ /\ t = formFor /\ known' # known /\ Reseeds
          /\ draft' = Filled(t, saved[t])
       \/ (t = formFor /\ known' # known /\ Reseeds => Unmoved) /\ UNCHANGED draft
    /\ UNCHANGED <<form, formFor, saved, dirty, save>>

FormFetchFails(t) ==
    /\ t \in arriving
    /\ arriving' = arriving \ {t}
    /\ UNCHANGED <<form, formFor, saved, known, draft, dirty, save>>

-----------------------------------------------------------------------------
MoveTo(t) ==
    /\ t # formFor
    /\ formFor' = t
    /\ arriving' = arriving \cup {t}
    /\ UNCHANGED <<form, saved, known, save>>

(* What is cached shows at once; what is not yet leaves the text there, behind *)
(* the skeleton.                                                              *)
Shown(t) == IF known[t] # Unread THEN Filled(t, known[t]) ELSE draft

Given == [draft EXCEPT !.loose = draft.typed]

(* Mutant: the dirty text of the last file is kept.                           *)
MutantSelectFile(t) ==
    /\ form = "config"
    /\ MoveTo(t)
    /\ draft' = IF dirty THEN draft ELSE Shown(t)
    /\ UNCHANGED dirty

(* selectFile: what was typed is given up.                                    *)
SelectFile(t) ==
    /\ form = "config"
    /\ MoveTo(t)
    /\ dirty' = FALSE
    /\ \/ draft' = IF known[t] # Unread THEN Filled(t, known[t]) ELSE Given
       \/ known[t] # Unread /\ Unmoved /\ draft' = [Given EXCEPT !.taken = TRUE]

(* selectFile for the file that is shown: no text changes, so none is filled. *)
SelectAgain ==
    /\ form = "config" /\ (dirty \/ draft # Given)
    /\ dirty' = FALSE /\ draft' = Given
    /\ UNCHANGED <<form, formFor, saved, known, arriving, save>>

(* The route names another service, role or object.  The editor of the        *)
(* configuration keeps its state: its text goes along while it is dirty.      *)
Route(t) ==
    /\ form # "budget"
    /\ MoveTo(t)
    /\ CASE form = "object" -> UNCHANGED draft
         [] form = "role" -> draft' = Shown(t)
         [] form = "config" ->
              \/ ~dirty /\ draft' = Shown(t)
              \/ /\ dirty \/ (known[t] # Unread /\ Unmoved)
                 /\ draft' = [draft EXCEPT !.taken = TRUE]
    /\ UNCHANGED dirty

-----------------------------------------------------------------------------
(* The form is behind a skeleton while there is nothing and a fetch runs; the *)
(* budget form is always there, an object needs its data.                     *)
Visible ==
    \/ known[formFor] # Unread
    \/ form = "budget"
    \/ form \in {"config", "role"} /\ formFor \notin arriving

StartEdit ==
    /\ form = "object" /\ ~dirty /\ known[formFor] # Unread
    /\ dirty' = TRUE
    /\ draft' = Filled(formFor, known[formFor])
    /\ UNCHANGED <<form, formFor, saved, known, arriving, save>>

CancelEdit ==
    /\ form = "object" /\ dirty /\ Visible
    /\ dirty' = FALSE
    /\ UNCHANGED <<form, formFor, saved, known, arriving, draft, save>>

TypeIn ==
    /\ Visible /\ (form = "object" => dirty)
    /\ draft' = [draft EXCEPT !.typed = TRUE, !.loose = FALSE]
    /\ dirty' = IF form = "config" THEN TRUE ELSE dirty
    /\ save' = [save EXCEPT !.typedOn = save.busy]
    /\ UNCHANGED <<form, formFor, saved, known, arriving>>

(* The Save button of the editor stands over the skeleton.                    *)
PressSave ==
    /\ ~save.busy
    /\ IF form = "config" THEN dirty ELSE Visible /\ (form = "object" => dirty)
    /\ save' = [busy |-> TRUE, to |-> formFor, text |-> draft,
                read |-> known[formFor] # Unread, typedOn |-> FALSE]
    /\ UNCHANGED <<form, formFor, saved, known, arriving, draft, dirty>>

(* onSuccess: the key of what is shown by then is invalidated, and dirty is   *)
(* reset, whatever was typed since Save was pressed.                          *)
Saved ==
    /\ save.busy /\ saved[save.to] < MaxSaves
    /\ save' = NoSave
    /\ saved' = [saved EXCEPT ![save.to] = @ + 1]
    /\ arriving' = arriving \cup {formFor}
    /\ dirty' = IF form \in {"config", "object"} THEN FALSE ELSE dirty
    /\ draft' = IF save.typedOn THEN Given ELSE [draft EXCEPT !.typed = FALSE]
    /\ UNCHANGED <<form, formFor, known>>

SaveFails ==
    /\ save.busy
    /\ save' = NoSave
    /\ UNCHANGED <<form, formFor, saved, known, arriving, draft, dirty>>

(* A version of the file is restored: what was typed is given up, though it   *)
(* is still shown until the restored text arrives.                            *)
Restored ==
    /\ form = "config" /\ saved[formFor] < MaxSaves
    /\ saved' = [saved EXCEPT ![formFor] = @ + 1]
    /\ arriving' = arriving \cup {formFor}
    /\ dirty' = FALSE /\ draft' = Given
    /\ UNCHANGED <<form, formFor, known, save>>

OthersSave(t) ==
    /\ saved[t] < MaxSaves
    /\ saved' = [saved EXCEPT ![t] = @ + 1]
    /\ UNCHANGED <<form, formFor, known, arriving, draft, dirty, save>>

FormNext ==
    \/ \E t \in Targets : FormArrives(t) \/ FormFetchFails(t) \/ SelectFile(t) \/ Route(t)
                           \/ OthersSave(t)
    \/ SelectAgain \/ StartEdit \/ CancelEdit \/ TypeIn \/ PressSave \/ Saved \/ SaveFails
    \/ Restored

FormSpec == FormInit /\ [][FormNext]_formVars

-----------------------------------------------------------------------------
Texts == [of : Targets \cup {Unread}, from : 0 .. MaxSaves, typed : BOOLEAN,
          taken : BOOLEAN, loose : BOOLEAN]

FormTypeOK ==
    /\ form \in Forms /\ formFor \in Targets
    /\ saved \in [Targets -> 1 .. MaxSaves]
    /\ \A t \in Targets : known[t] = Unread \/ known[t] \in 1 .. saved[t]
    /\ arriving \subseteq Targets
    /\ draft \in Texts /\ dirty \in BOOLEAN
    /\ save \in [busy : BOOLEAN, to : Targets \cup {Unread}, text : Texts, read : BOOLEAN,
                 typedOn : BOOLEAN]

(* A text is saved to the file or role it was filled for, once that has been  *)
(* read.  The exception is a text the page has taken along: the editor does,  *)
(* when the route names another service while Save is shown, or when the text *)
(* of the other file is the same.  (So do the fields of an object.)           *)
SavedUnderItsTarget ==
    form # "object" /\ save.busy /\ save.read /\ ~save.text.taken => save.text.of = save.to

(* What is typed in the configuration editor is not lost to what others save  *)
(* nor to a change of the route, but to three things that reset dirty: the    *)
(* answer of a save sent before, a version restored, and a file selected, be  *)
(* it the one that is shown.  The text stays then (loose) until a fetch.      *)
TypedIsKept ==
    [][form = "config" /\ draft.typed /\ ~draft.loose
       => draft'.typed \/ Saved \/ \E t \in Targets : SelectFile(t)]_formVars
=============================================================================
