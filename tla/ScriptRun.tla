------------------------------ MODULE ScriptRun ------------------------------
(* Running a script of a service from its card or the command palette         *)
(* (useServiceAction): a window asks for the inputs, whose values are         *)
(* uploaded files, files of the library, words or lists of them; they are     *)
(* packed into one of three calls and unpacked by the server.  An item is     *)
(* what it says, whole: names of inputs have no "__" (which the server would  *)
(* split, service_routes.py:544), uploads of one call have different file     *)
(* names (one would replace the other, 560), names have no comma (values are  *)
(* joined with it, 598), and what a runner keeps of an earlier run, which     *)
(* stands in for an input that is left empty, is not followed.                *)
EXTENDS KeptItems

CONSTANTS Scripts,     \* [service, script, inputs]; an input is [name, type]
          WithObject,  \* services that are objects of the inventory too
          Uploads,     \* files of the user's disk
          Library,     \* files of the library, in the order of their list
          Words,       \* what can be typed, picked or ticked
          NoWord,      \* the empty string
          NoScript,    \* no script
          MaxItems     \* bound on the items of one value

ASSUME RunAssumption ==
    /\ NoScript \notin Scripts /\ MaxItems \in Nat \ {0}
    /\ Library \in Seq(ToSet(Library))
    /\ NoWord \notin Words \cup Uploads \cup ToSet(Library)
    /\ Uploads \cap (Words \cup ToSet(Library)) = {} /\ Words \cap ToSet(Library) = {}

VARIABLES window,      \* "none", "plan" (DryRunPreview) or "inputs"
          script,      \* the script it is open for, or NoScript
          inputs,      \* scriptInputs: a sequence of items for each name
          libraryTicks,\* files ticked in the library tab of each input
          calling,     \* a call has no answer yet
          packed       \* the last call: [way, for, entered, fields, parts]

runVars == <<window, script, inputs, libraryTicks, calling, packed>>

-----------------------------------------------------------------------------
Refs == ToSet(Library)

Files == Uploads \cup Refs

Items == Files \cup Words \cup {NoWord}

Many(type) == type \in {"multi_file", "list", "ssh_key_select"}

Names(s) == {i.name : i \in s.inputs}

TypeOf(s, n) == (CHOOSE i \in s.inputs : i.name = n).type

(* triggerAction: a list starts with an empty row, the rest empty.            *)
DefaultOf(s) == [n \in Names(s) |-> IF TypeOf(s, n) = "list" THEN <<NoWord>> ELSE <<>>]

NoCall == [way |-> "none", for |-> NoScript, entered |-> <<>>, fields |-> <<>>, parts |-> <<>>]

RunInit ==
    /\ window = "none" /\ script = NoScript
    /\ inputs = <<>> /\ libraryTicks = <<>>
    /\ calling = FALSE /\ packed = NoCall

-----------------------------------------------------------------------------
(* What is kept of a value: the files of an input that has any, else the      *)
(* rows that are not empty; a single value as it is.                          *)
Trimmed(s, n, v) ==
    IF ~Many(TypeOf(s, n)) THEN v
    ELSE IF ToSet(v) \cap Files # {} THEN Only(v, Files) ELSE Without(v, NoWord)

Processed(s, in) == [n \in Names(s) |-> Trimmed(s, n, in[n])]

(* Mutant: looks at the first item of a list only.                            *)
MutantHasUploads(in) == \E n \in DOMAIN in : in[n] # <<>> /\ in[n][1] \in Uploads

HasUploads(in) == \E n \in DOMAIN in : ToSet(in[n]) \cap Uploads # {}

(* JSON.stringify has no form for a File: it becomes an empty object.         *)
AsJson(v) == Only(v, Items \ Uploads)

(* The fields of a FormData call: a File goes as a part of its own, file__n   *)
(* or file__n__k; of an array only library files go with the inputs.          *)
FormField(s, n, v) == IF Many(TypeOf(s, n)) THEN Only(v, Refs) ELSE AsJson(v)

FormParts(v) == Only(v, Uploads)

(* runActionMutation is for a service with an object, unless Files go along;  *)
(* else runServiceScriptMutation takes the call with or without files.        *)
Pack(s, in) ==
    LET sent == Processed(s, in)
        none == [n \in Names(s) |-> <<>>]
    IN IF HasUploads(sent)
       THEN [way |-> "run-with-files", for |-> s, entered |-> in,
             fields |-> [n \in Names(s) |-> FormField(s, n, sent[n])],
             parts |-> [n \in Names(s) |-> FormParts(sent[n])]]
       ELSE [way |-> IF s.service \in WithObject THEN "action" ELSE "run", for |-> s,
             entered |-> in, fields |-> [n \in Names(s) |-> AsJson(sent[n])], parts |-> none]

Start(s, in) == packed' = Pack(s, in) /\ calling' = TRUE

(* The server: parts take the place of the field, library files of a list     *)
(* take the place of the rest of it.                                          *)
Unpacked(call, n) ==
    LET field == call.fields[n]
    IN IF call.parts[n] # <<>> THEN call.parts[n]
       ELSE IF ToSet(field) \cap Refs # {} THEN Only(field, Refs) ELSE field

-----------------------------------------------------------------------------
(* Scripts with inputs ask for them first, deploying shows the plan first     *)
(* when the service has an object, the others start at once.                  *)
Trigger(s) ==
    /\ window = "none"
    /\ IF s.inputs # {}
       THEN /\ window' = "inputs" /\ script' = s
            /\ inputs' = DefaultOf(s)
            /\ libraryTicks' = [n \in Names(s) |-> {}]
            /\ packed' = NoCall
            /\ UNCHANGED calling
       ELSE IF s.script = "deploy" /\ s.service \in WithObject
            THEN /\ window' = "plan" /\ script' = s
                 /\ packed' = NoCall
                 /\ UNCHANGED <<inputs, libraryTicks, calling>>
            ELSE Start(s, <<>>) /\ UNCHANGED <<window, script, inputs, libraryTicks>>

(* Deploy in the preview, whose dry run is asked for only when the window     *)
(* itself reports that it opens: its verdict is never there to disable it.    *)
ConfirmDeploy ==
    /\ window = "plan"
    /\ Start(script, <<>>)
    /\ window' = "none"
    /\ UNCHANGED <<script, inputs, libraryTicks>>

SubmitScriptInputs ==
    /\ window = "inputs" /\ ~calling
    /\ Start(script, inputs)
    /\ window' = "none"
    /\ UNCHANGED <<script, inputs, libraryTicks>>

DismissModals ==
    /\ window # "none"
    /\ window' = "none"
    /\ UNCHANGED <<script, inputs, libraryTicks, calling, packed>>

CallEnds ==
    /\ calling
    /\ calling' = FALSE
    /\ UNCHANGED <<window, script, inputs, libraryTicks, packed>>

-----------------------------------------------------------------------------
(* The fields, one action per type.                                           *)
Put(n, v) ==
    /\ inputs' = [inputs EXCEPT ![n] = v]
    /\ UNCHANGED <<window, script, libraryTicks, calling, packed>>

Edits(n, type) == window = "inputs" /\ TypeOf(script, n) = type

(* One file, from the disk or the library; a chosen one can only be cleared.  *)
ChooseFile(n) ==
    /\ Edits(n, "file")
    /\ IF inputs[n] = <<>> THEN \E f \in Uploads \cup Refs : Put(n, <<f>>) ELSE Put(n, <<>>)

AddFile(n, f) ==
    /\ Edits(n, "multi_file") /\ Len(inputs[n]) < MaxItems
    /\ Put(n, Append(inputs[n], f))

RemoveFile(n, k) ==
    /\ Edits(n, "multi_file")
    /\ Put(n, RemoveAt(inputs[n], k))

TickLibraryFile(n, f) ==
    /\ Edits(n, "multi_file")
    /\ libraryTicks' = [libraryTicks EXCEPT ![n] = SymDiff(@, {f})]
    /\ UNCHANGED <<window, script, inputs, calling, packed>>

(* Each ticked file is added to the list of the same rendering: the last one  *)
(* that is not in it yet is the one that stays.                               *)
AddTickedFiles(n) ==
    LET new == Only(Library, libraryTicks[n] \ ToSet(inputs[n]))
    IN /\ Edits(n, "multi_file") /\ libraryTicks[n] # {}
       /\ Len(inputs[n]) < MaxItems
       /\ inputs' = [inputs EXCEPT ![n] = IF new = <<>> THEN @ ELSE Append(@, Last(new))]
       /\ libraryTicks' = [libraryTicks EXCEPT ![n] = {}]
       /\ UNCHANGED <<window, script, calling, packed>>

AddRow(n) ==
    /\ Edits(n, "list") /\ Len(inputs[n]) < MaxItems
    /\ Put(n, Append(inputs[n], NoWord))

EditRow(n, k, w) == Edits(n, "list") /\ Put(n, [inputs[n] EXCEPT ![k] = w])

RemoveRow(n, k) ==
    /\ Edits(n, "list") /\ Len(inputs[n]) > 1
    /\ Put(n, RemoveAt(inputs[n], k))

TickKey(n, w) ==
    /\ Edits(n, "ssh_key_select")
    /\ Put(n, IF w \in ToSet(inputs[n]) THEN Without(inputs[n], w) ELSE Append(inputs[n], w))

TypeText(n, w) == Edits(n, "text") /\ Put(n, <<w>>)

RunNext ==
    \/ \E s \in Scripts : Trigger(s)
    \/ ConfirmDeploy \/ SubmitScriptInputs \/ DismissModals \/ CallEnds
    \/ \E n \in DOMAIN inputs :
          \/ ChooseFile(n) \/ AddTickedFiles(n) \/ AddRow(n)
          \/ \E f \in Uploads : AddFile(n, f)
          \/ \E f \in Refs : TickLibraryFile(n, f)
          \/ \E k \in DOMAIN inputs[n] : RemoveFile(n, k) \/ RemoveRow(n, k)
          \/ \E k \in DOMAIN inputs[n], w \in Words \cup {NoWord} : EditRow(n, k, w)
          \/ \E w \in Words : TickKey(n, w) \/ TypeText(n, w)

RunSpec == RunInit /\ [][RunNext]_runVars

-----------------------------------------------------------------------------
RunTypeOK ==
    /\ window \in {"none", "plan", "inputs"}
    /\ script \in Scripts \cup {NoScript} /\ calling \in BOOLEAN
    /\ window = "inputs" => DOMAIN inputs = Names(script)
    /\ \A n \in DOMAIN inputs : /\ ToSet(inputs[n]) \subseteq Items
                                /\ libraryTicks[n] \subseteq Refs
    /\ packed.way \in {"none", "action", "run", "run-with-files"}

(* What is lost on the way today: the words of a list when any file is        *)
(* uploaded with it, and the library files of an input that has uploads too.  *)
(* (That names with "__", equal file names and commas lose more is beyond the *)
(* model, see above.)                                                         *)
LostOnTheWay(call, n) ==
    /\ call.way = "run-with-files"
    /\ LET v == call.entered[n]
       IN \/ TypeOf(call.for, n) \in {"list", "ssh_key_select"}
          \/ ToSet(v) \cap Uploads # {} /\ ToSet(v) \cap Refs # {}

(* But for those two, the script gets what the user entered for each input,   *)
(* in the user's order and without the empty rows, whichever of the three     *)
(* calls carries it ("Only actual File objects require FormData path (library *)
(* refs are JSON-safe)", useServiceAction.ts:196).                            *)
InputsArrive ==
    packed.way # "none" =>
        \A n \in DOMAIN packed.entered :
            LostOnTheWay(packed, n)
            \/ Unpacked(packed, n) = Without(packed.entered[n], NoWord)
=============================================================================
