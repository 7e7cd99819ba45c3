-------------------------- MODULE ClientPartsProofs --------------------------
(***************************************************************************)
(* Proofs about the parts of the client's pages: lists with ticked rows,   *)
(* the refresh of the instances, secrets, the job page, the terminal, the  *)
(* forms, the session with its preferences, and dialogs.  Each theorem is  *)
(* about a part's own specification, for any bounds, objects, jobs, files, *)
(* users and tables of dialogs.                                            *)
(***************************************************************************)
EXTENDS BulkSelection, InstanceRefresh, SecretReveal, JobPage, SshTerminal, SeededForms,
        ClientSession, PageDialogs, FiniteSetTheorems, TLAPS

-----------------------------------------------------------------------------
(***************************************************************************)
(* InstanceRefresh                                                         *)
(***************************************************************************)

\* What the file and the objects hold and what Refresh was pressed at are past or
\* present.
PastOK == pressed <= world /\ synced <= world /\ file <= world /\ late <= world

\* The loop waits for a job that is there; only servers have jobs.
WaitOK ==
    /\ source # "vultr" => refreshJob = "none" /\ step \notin {"waiting", "polling"}
    /\ step \in {"waiting", "polling"} => refreshJob # "none"
    /\ step # "idle" => toast = "none"

\* When the job has listed, the file holds what Refresh was pressed for, and when
\* it is completed, so do the objects, unless something was missed.
DoneOK ==
    missed = {} =>
        /\ refreshJob \in {"listed", "completed"} => file >= pressed
        /\ refreshJob = "completed" => synced >= pressed

\* So they do when the refresh says so, and the list does once it is fetched.
ToastOK ==
    toast = "refreshed" =>
        /\ source = "vultr" => refreshJob = "completed"
        /\ missed = {} /\ source # "none" => synced >= pressed /\ (~due => listed >= pressed)

\* The loop counts from 0.
AskedOK == step = "asking" => asked = 0

RefreshIInv == RefreshTypeOK /\ AskedOK /\ PastOK /\ WaitOK /\ DoneOK /\ ToastOK

\* The types, apart: numbers, names and sets.
RefreshNumbers ==
    /\ world \in 1 .. MaxWorld /\ synced \in 0 .. MaxWorld
    /\ file \in 0 .. MaxWorld /\ late \in 0 .. MaxWorld
    /\ pressed \in 0 .. MaxWorld /\ listed \in 0 .. MaxWorld
    /\ asked \in 0 .. MaxAsked
    /\ (step \in {"waiting", "polling"} => asked < MaxAsked)

RefreshNames ==
    /\ source \in {"vultr", "direct", "none"}
    /\ step \in {"idle", "asking", "waiting", "polling"}
    /\ refreshJob \in {"none", "running", "listed", "failed", "completed"}
    /\ toast \in {"none", "refreshed", "failed", "gave up"}

RefreshSets == bare \in SUBSET (1 .. MaxWorld) /\ missed \in SUBSET Misses

\* The types of the refresh, in the parts its steps change.
LEMMA RefreshTypesSplit ==
    RefreshTypeOK <=> RefreshNumbers /\ RefreshNames /\ RefreshSets /\ due \in BOOLEAN
BY DEF RefreshTypeOK, RefreshNumbers, RefreshNames, RefreshSets

\* The same after a step.
LEMMA RefreshTypesSplitNext ==
    RefreshTypeOK' <=> RefreshNumbers' /\ RefreshNames' /\ RefreshSets' /\ due' \in BOOLEAN
BY DEF RefreshTypeOK, RefreshNumbers, RefreshNames, RefreshSets

\* The initial states satisfy the invariant.
LEMMA InitRefreshIInv == RefreshInit => RefreshIInv
<1> SUFFICES ASSUME RefreshInit PROVE RefreshIInv
  OBVIOUS
<1>1. RefreshNumbers
  BY RefreshAssumption DEF RefreshInit, RefreshNumbers
<1>2. RefreshNames /\ due \in BOOLEAN
  BY DEF RefreshInit, RefreshNames
<1>3. RefreshSets
  <2>1. 1 \in 1 .. MaxWorld
    BY RefreshAssumption
  <2> QED
    BY <2>1 DEF RefreshInit, RefreshSets
<1>4. AskedOK /\ PastOK /\ WaitOK /\ DoneOK /\ ToastOK
  BY DEF RefreshInit, AskedOK, PastOK, WaitOK, DoneOK, ToastOK
<1> QED
  BY <1>1, <1>2, <1>3, <1>4, RefreshTypesSplit DEF RefreshIInv

\* What a sync leaves is what was there or what the file holds.
LEMMA StoredFacts ==
    ASSUME RefreshIInv
    PROVE  /\ Stored \in {synced, file} /\ Stored \in 0 .. MaxWorld /\ Stored <= world
           /\ file \notin bare \cup {0} => Stored = file
BY RefreshTypesSplit DEF Stored, RefreshIInv, RefreshNumbers, PastOK

\* Every step keeps the types.
LEMMA RefreshTypeStep ==
    ASSUME RefreshIInv, RefreshNext
    PROVE  RefreshTypeOK'
<1> USE DEF EndRefresh, serverVars, cloudVars, pageVars
<1>1. RefreshNumbers /\ RefreshNames /\ RefreshSets /\ due \in BOOLEAN /\ AskedOK /\ PastOK
  BY RefreshTypesSplit DEF RefreshIInv
<1>2. due' \in BOOLEAN
  BY <1>1 DEF RefreshNext, PressRefresh, Started, DirectSync, NothingToSync, AskFails,
              TwoSeconds, Polled, RefreshPollFails, JobLists, JobSyncs, JobFails,
              OtherLists, OtherWrites, OtherSyncs, CloudChanges, FetchList
<1>3. RefreshNames'
  BY <1>1 DEF RefreshNames, RefreshNext, PressRefresh, Started, DirectSync, NothingToSync,
              AskFails, TwoSeconds, Polled, RefreshPollFails, JobLists, JobSyncs, JobFails,
              OtherLists, OtherWrites, OtherSyncs, CloudChanges, FetchList
<1>4. RefreshNumbers'
  <2> USE <1>1, RefreshAssumption DEF RefreshNumbers, PastOK, AskedOK
  <2>1. CASE PressRefresh
    BY <2>1 DEF PressRefresh
  <2>2. CASE Started
    \* The counter starts at 0 when Refresh is pressed.
    BY <2>2 DEF Started
  <2>3. CASE DirectSync
    BY <2>3 DEF DirectSync
  <2>4. CASE NothingToSync \/ AskFails \/ TwoSeconds \/ RefreshPollFails
    BY <2>4 DEF NothingToSync, AskFails, TwoSeconds, RefreshPollFails
  <2>5. CASE Polled
    <3>1. asked < MaxAsked /\ asked' = asked + 1 /\ asked' \in 0 .. MaxAsked
      <4>1. step = "polling" /\ asked' = asked + 1
        BY <2>5 DEF Polled
      <4>2. asked < MaxAsked
        BY <4>1
      <4> QED
        BY <4>1, <4>2
    <3>2. step' = "idle" \/ (step' = "waiting" /\ asked' # MaxAsked)
      BY <2>5 DEF Polled
    <3>3. step' \in {"waiting", "polling"} => asked' < MaxAsked
      BY <3>1, <3>2
    <3> QED
      BY <2>5, <3>1, <3>3 DEF Polled
  <2>6. CASE JobSyncs \/ OtherSyncs
    <3>1. synced' \in {synced, Stored}
      BY <2>6 DEF JobSyncs, OtherSyncs
    <3> QED
      BY <2>6, <3>1, StoredFacts DEF JobSyncs, OtherSyncs
  <2>7. CASE JobLists \/ JobFails \/ OtherLists \/ OtherWrites
    BY <2>7 DEF JobLists, JobFails, OtherLists, OtherWrites
  <2>8. CASE CloudChanges \/ FetchList
    BY <2>8 DEF CloudChanges, FetchList
  <2> QED
    BY <2>1, <2>2, <2>3, <2>4, <2>5, <2>6, <2>7, <2>8 DEF RefreshNext
<1>5. RefreshSets'
  <2>1. missed' \in SUBSET Misses
    BY <1>1 DEF RefreshSets, Misses, RefreshNext, PressRefresh, Started, DirectSync,
                NothingToSync, AskFails, TwoSeconds, Polled, RefreshPollFails, JobLists,
                JobSyncs, JobFails, OtherLists, OtherWrites, OtherSyncs, CloudChanges,
                FetchList
  <2>2. CASE CloudChanges
    BY <1>1, <1>4, <2>1, <2>2 DEF CloudChanges, RefreshSets, RefreshNumbers
  <2>3. CASE ~CloudChanges
    <3>1. bare' = bare
      BY <2>3 DEF RefreshNext, PressRefresh, Started, DirectSync, NothingToSync, AskFails,
                  TwoSeconds, Polled, RefreshPollFails, JobLists, JobSyncs, JobFails,
                  OtherLists, OtherWrites, OtherSyncs, FetchList
    <3> QED
      BY <1>1, <2>1, <3>1 DEF RefreshSets
  <2> QED
    BY <2>2, <2>3
<1> QED
  BY <1>2, <1>3, <1>4, <1>5, RefreshTypesSplitNext

\* A refresh that ends well has waited for the sync.
LEMMA PolledStep ==
    ASSUME RefreshIInv, Polled
    PROVE  AskedOK' /\ PastOK' /\ WaitOK' /\ DoneOK' /\ ToastOK'
<1> USE DEF RefreshIInv, Polled, EndRefresh, serverVars, cloudVars, pageVars
<1>1. AskedOK' /\ PastOK' /\ WaitOK' /\ DoneOK'
  BY DEF AskedOK, PastOK, WaitOK, DoneOK
<1>2. ToastOK'
  BY DEF WaitOK, DoneOK, ToastOK
<1> QED
  BY <1>1, <1>2

\* The sync of the job stores what the job has listed, or something newer.
LEMMA JobSyncsStep ==
    ASSUME RefreshIInv, JobSyncs
    PROVE  AskedOK' /\ PastOK' /\ WaitOK' /\ DoneOK' /\ ToastOK'
<1> USE DEF RefreshIInv, JobSyncs, serverVars, cloudVars, pageVars
<1>1. AskedOK' /\ PastOK' /\ WaitOK'
  BY StoredFacts DEF AskedOK, PastOK, WaitOK
<1>2. DoneOK'
  <2> SUFFICES ASSUME missed' = {} PROVE file' >= pressed' /\ synced' >= pressed'
    BY DEF DoneOK
  <2>1. missed = {} /\ file \notin bare /\ synced' = Stored
    OBVIOUS
  <2>2. file >= pressed /\ file \in Nat /\ synced \in Nat /\ pressed \in Nat
    BY <2>1, RefreshTypesSplit DEF DoneOK, RefreshNumbers
  <2>3. synced' >= pressed
    BY <2>1, <2>2 DEF Stored
  <2> QED
    BY <2>2, <2>3
<1>3. ToastOK'
  BY <1>2 DEF DoneOK, ToastOK, WaitOK
<1> QED
  BY <1>1, <1>2, <1>3

\* What another job has listed is written over what the job did, or before it.
LEMMA OtherWritesStep ==
    ASSUME RefreshIInv, OtherWrites
    PROVE  AskedOK' /\ PastOK' /\ WaitOK' /\ DoneOK' /\ ToastOK'
<1> USE RefreshTypesSplit DEF RefreshIInv, RefreshNumbers, OtherWrites, serverVars, cloudVars, pageVars
<1>1. AskedOK' /\ PastOK' /\ WaitOK'
  BY DEF AskedOK, PastOK, WaitOK
<1>2. missed' = {} => missed = {}
  OBVIOUS
<1>3. DoneOK'
  BY <1>2 DEF DoneOK
<1>4. ToastOK'
  BY <1>2 DEF ToastOK
<1> QED
  BY <1>1, <1>3, <1>4

\* Another job's sync stores what the file holds.
LEMMA OtherSyncsStep ==
    ASSUME RefreshIInv, OtherSyncs
    PROVE  AskedOK' /\ PastOK' /\ WaitOK' /\ DoneOK' /\ ToastOK'
<1> USE DEF RefreshIInv, OtherSyncs, serverVars, cloudVars, pageVars
<1>1. AskedOK' /\ PastOK' /\ WaitOK'
  BY StoredFacts DEF AskedOK, PastOK, WaitOK
<1>2. synced' = file
  BY StoredFacts
<1>3. DoneOK'
  BY <1>2 DEF DoneOK
<1>4. ToastOK'
  BY <1>2, <1>3 DEF DoneOK, ToastOK
<1> QED
  BY <1>1, <1>3, <1>4

\* Every step keeps what the refresh relies on.
LEMMA RefreshStep ==
    ASSUME RefreshIInv, RefreshNext
    PROVE  AskedOK' /\ PastOK' /\ WaitOK' /\ DoneOK' /\ ToastOK'
<1> USE RefreshTypesSplit DEF RefreshIInv, RefreshNumbers, AskedOK, PastOK, WaitOK, DoneOK,
        ToastOK, EndRefresh, serverVars, cloudVars, pageVars
<1>1. CASE PressRefresh
  BY <1>1 DEF PressRefresh
<1>2. CASE Started
  BY <1>2 DEF Started
<1>3. CASE DirectSync
  BY <1>3 DEF DirectSync
<1>4. CASE NothingToSync
  BY <1>4 DEF NothingToSync
<1>5. CASE AskFails
  BY <1>5 DEF AskFails
<1>6. CASE TwoSeconds
  BY <1>6 DEF TwoSeconds
<1>7. CASE RefreshPollFails
  BY <1>7 DEF RefreshPollFails
<1>8. CASE JobLists
  BY <1>8 DEF JobLists
<1>9. CASE JobFails
  BY <1>9 DEF JobFails
<1>10. CASE OtherLists
  BY <1>10 DEF OtherLists
<1>11. CASE CloudChanges
  BY <1>11 DEF CloudChanges
<1>12. CASE FetchList
  BY <1>12 DEF FetchList
<1> QED
  BY <1>1, <1>2, <1>3, <1>4, <1>5, <1>6, <1>7, <1>8, <1>9, <1>10, <1>11, <1>12, PolledStep,
     JobSyncsStep, OtherWritesStep, OtherSyncsStep DEF RefreshNext

\* The invariant of the refresh.
THEOREM RefreshInvariance == RefreshInit /\ [][RefreshNext]_refreshVars => []RefreshIInv
<1>1. RefreshIInv /\ [RefreshNext]_refreshVars => RefreshIInv'
  <2>1. CASE RefreshNext
    BY <2>1, RefreshTypeStep, RefreshStep DEF RefreshIInv
  <2>2. CASE UNCHANGED refreshVars
    BY <2>2 DEF refreshVars, serverVars, cloudVars, pageVars, RefreshIInv, RefreshTypeOK,
                AskedOK, PastOK, WaitOK, DoneOK, ToastOK
  <2> QED
    BY <2>1, <2>2
<1> QED
  BY <1>1, InitRefreshIInv, PTL

\* A list that is called refreshed shows the cloud as it was when Refresh was
\* pressed, however many polls, changes and other jobs there are, unless the
\* listing was empty, the sync raised or an older listing came in between.
THEOREM RefreshedIsFresh == RefreshSpec => []RefreshedShowsTheCloud
<1>1. RefreshIInv => RefreshedShowsTheCloud
  BY DEF RefreshIInv, ToastOK, RefreshedShowsTheCloud
<1> QED
  BY <1>1, RefreshInvariance, PTL DEF RefreshSpec

-----------------------------------------------------------------------------
(***************************************************************************)
(* SecretReveal                                                            *)
(***************************************************************************)

RevealIInv == RevealTypeOK /\ AsksForTheLast

Windows == [open : BOOLEAN, name : Secrets \cup {NoObject},
            value : Secrets \cup {NoObject}, loading : BOOLEAN]

\* A window whose fields are set one after another stays a window.
LEMMA WindowSet ==
    ASSUME NEW m \in Windows, NEW b \in BOOLEAN, NEW o \in Secrets \cup {NoObject}
    PROVE  /\ [m EXCEPT !.open = b] \in Windows
           /\ [m EXCEPT !.name = o] \in Windows
           /\ [m EXCEPT !.value = o] \in Windows
           /\ [m EXCEPT !.loading = b] \in Windows
<1>1. [m EXCEPT !.open = b] \in Windows
  BY DEF Windows
<1>2. [m EXCEPT !.name = o] \in Windows
  BY DEF Windows
<1>3. [m EXCEPT !.value = o] \in Windows
  BY DEF Windows
<1>4. [m EXCEPT !.loading = b] \in Windows
  BY DEF Windows
<1> QED
  BY <1>1, <1>2, <1>3, <1>4

\* Showing an object leaves a window and keys on their way.
LEMMA ShowingTypes ==
    ASSUME RevealTypeOK, NEW o \in Secrets, Showing(o)
    PROVE  modal' \in Windows /\ fetches' \subseteq PrivateKeys
<1>1. CASE o \in PrivateKeys
  <2>1. fetches' \subseteq PrivateKeys
    BY <1>1 DEF Showing, RevealTypeOK
  <2>2. [open |-> TRUE, name |-> o, value |-> NoObject, loading |-> TRUE] \in Windows
    BY DEF Windows
  <2> QED
    BY <1>1, <2>1, <2>2 DEF Showing
<1>2. CASE o \notin PrivateKeys
  <2> DEFINE u == [modal EXCEPT !.open = TRUE]
             v == [u EXCEPT !.name = o]
             w == [v EXCEPT !.value = o]
  <2>1. modal \in Windows
    BY DEF RevealTypeOK, Windows
  <2>2. u \in Windows
    BY <2>1, WindowSet
  <2>3. v \in Windows
    <3> HIDE DEF u
    <3> QED BY <2>2, WindowSet
  <2>4. w \in Windows
    <3> HIDE DEF v
    <3> QED BY <2>3, WindowSet
  <2>5. modal' = w
    BY <1>2 DEF Showing
  <2> QED
    BY <1>2, <2>4, <2>5 DEF Showing, RevealTypeOK
<1> QED
  BY <1>1, <1>2

\* A key that arrives is in a window, whichever it is.
LEMMA KeyTypes ==
    ASSUME RevealTypeOK, NEW o \in fetches, KeyArrives(o) \/ KeyFails(o)
    PROVE  modal' \in Windows /\ fetches' \subseteq PrivateKeys
<1>1. modal \in Windows /\ o \in Secrets /\ fetches' \subseteq PrivateKeys
  BY DEF RevealTypeOK, Windows, KeyArrives, KeyFails, Secrets
<1>2. CASE KeyArrives(o)
  <2> DEFINE u == [modal EXCEPT !.value = o]
  <2>1. u \in Windows
    BY <1>1, WindowSet
  <2>2. [u EXCEPT !.loading = FALSE] \in Windows
    <3> HIDE DEF u
    <3> QED BY <2>1, WindowSet
  <2> QED
    BY <1>1, <1>2, <2>2 DEF KeyArrives
<1>3. CASE KeyFails(o)
  <2> DEFINE u == [modal EXCEPT !.open = FALSE]
  <2>1. u \in Windows
    BY <1>1, WindowSet
  <2>2. [u EXCEPT !.loading = FALSE] \in Windows
    <3> HIDE DEF u
    <3> QED BY <2>1, WindowSet
  <2> QED
    BY <1>1, <1>3, <2>2 DEF KeyFails
<1> QED
  BY <1>2, <1>3

\* Every step keeps the types and the question that waits for its answer.
LEMMA RevealStep ==
    ASSUME RevealIInv, RevealNext
    PROVE  RevealIInv'
<1> USE RevealAssumption
<1>1. ASSUME NEW o \in Secrets, Reveal(o) PROVE RevealIInv'
  <2>1. AsksForTheLast'
    BY <1>1 DEF Reveal, RevealIInv, AsksForTheLast
  <2>2. modal' \in Windows /\ fetches' \subseteq PrivateKeys
    BY <1>1, ShowingTypes DEF Reveal, RevealIInv, RevealTypeOK, Windows
  <2>3. RevealTypeOK'
    BY <1>1, <2>2 DEF Reveal, RevealIInv, RevealTypeOK, Windows
  <2> QED
    BY <2>1, <2>3 DEF RevealIInv
<1>2. CASE SubmitPassword
  BY <1>2 DEF SubmitPassword, RevealIInv, RevealTypeOK, AsksForTheLast
<1>3. CASE PasswordVerified
  <2>1. AsksForTheLast'
    BY <1>3 DEF PasswordVerified, AsksForTheLast
  <2>2. modal' \in Windows /\ fetches' \subseteq PrivateKeys
    BY <1>3, ShowingTypes DEF PasswordVerified, RevealIInv, RevealTypeOK, Windows
  <2>3. checks' \in 0 .. MaxChecks /\ granted' = TRUE /\ prompt' = FALSE
        /\ asking' = NoObject /\ kept' = kept /\ wanted' = wanted
    BY <1>3 DEF PasswordVerified, RevealIInv, RevealTypeOK
  <2>4. RevealTypeOK'
    BY <2>2, <2>3 DEF RevealIInv, RevealTypeOK, Windows
  <2> QED
    BY <2>1, <2>4 DEF RevealIInv
<1>4. CASE PasswordRefused
  BY <1>4 DEF PasswordRefused, RevealIInv, RevealTypeOK, AsksForTheLast
<1>5. CASE CancelPrompt
  BY <1>5 DEF CancelPrompt, RevealIInv, RevealTypeOK, AsksForTheLast
<1>6. CASE CloseModal
  <2>1. modal' \in Windows
    BY <1>6, WindowSet DEF CloseModal, RevealIInv, RevealTypeOK, Windows
  <2> QED
    BY <1>6, <2>1 DEF CloseModal, RevealIInv, RevealTypeOK, Windows, AsksForTheLast
<1>7. CASE GrantEnds
  BY <1>7 DEF GrantEnds, RevealIInv, RevealTypeOK, AsksForTheLast
<1>8. CASE NewColumns
  BY <1>8 DEF NewColumns, RevealIInv, RevealTypeOK, AsksForTheLast
<1>9. ASSUME NEW o \in fetches, KeyArrives(o) \/ KeyFails(o) PROVE RevealIInv'
  <2>1. modal' \in Windows /\ fetches' \subseteq PrivateKeys
    BY <1>9, KeyTypes DEF RevealIInv
  <2>2. UNCHANGED <<granted, kept, asking, wanted, prompt, checks>>
    BY <1>9 DEF KeyArrives, KeyFails
  <2> QED
    BY <2>1, <2>2 DEF RevealIInv, RevealTypeOK, Windows, AsksForTheLast
<1> QED
  BY <1>1, <1>2, <1>3, <1>4, <1>5, <1>6, <1>7, <1>8, <1>9 DEF RevealNext

\* The invariant of the secrets: types, and the dialog asks for the last object.
THEOREM RevealInvariance == RevealSpec => []RevealIInv
<1>1. ASSUME RevealInit PROVE RevealIInv
  <2>1. [open |-> FALSE, name |-> NoObject, value |-> NoObject, loading |-> FALSE] \in Windows
    BY DEF Windows
  <2>2. modal \in Windows /\ checks \in 0 .. MaxChecks
    BY <1>1, <2>1, RevealAssumption DEF RevealInit
  <2>3. granted \in BOOLEAN /\ kept \in BOOLEAN /\ prompt \in BOOLEAN
    BY <1>1 DEF RevealInit
  <2> QED
    BY <1>1, <2>2, <2>3 DEF RevealInit, RevealIInv, RevealTypeOK, AsksForTheLast, Windows
<1>2. RevealIInv /\ [RevealNext]_revealVars => RevealIInv'
  <2>1. CASE RevealNext
    BY <2>1, RevealStep
  <2>2. CASE UNCHANGED revealVars
    BY <2>2 DEF revealVars, RevealIInv, RevealTypeOK, AsksForTheLast
  <2> QED
    BY <2>1, <2>2
<1> QED
  BY <1>1, <1>2, PTL DEF RevealSpec

\* The password's answer shows the object of the last button pressed.
THEOREM AsksCorrect == RevealSpec => []AsksForTheLast
<1>1. RevealIInv => AsksForTheLast
  BY DEF RevealIInv
<1> QED
  BY <1>1, RevealInvariance, PTL

\* No step opens the window of a secret but the answer to a check, or a button
\* within ten minutes of one.
LEMMA OpeningStep ==
    ASSUME RevealTypeOK, RevealNext, ~modal.open, modal'.open
    PROVE  granted \/ (checks' < checks /\ granted')
<1>1. ASSUME NEW o \in Secrets, Reveal(o) PROVE granted
  BY <1>1 DEF Reveal
<1>2. CASE PasswordVerified
  <2>1. checks \in Nat /\ checks' = checks - 1 /\ granted' = TRUE
    BY <1>2, RevealAssumption DEF PasswordVerified, RevealTypeOK
  <2> QED
    BY <2>1
<1>3. CASE CloseModal
  BY <1>3 DEF CloseModal
<1>4. CASE SubmitPassword \/ PasswordRefused \/ CancelPrompt \/ GrantEnds \/ NewColumns
  BY <1>4 DEF SubmitPassword, PasswordRefused, CancelPrompt, GrantEnds, NewColumns
<1>5. ASSUME NEW o \in fetches, KeyArrives(o) \/ KeyFails(o) PROVE FALSE
  <2>1. modal \in Windows
    BY DEF RevealTypeOK, Windows
  <2>2. CASE KeyArrives(o)
    <3> DEFINE u == [modal EXCEPT !.value = o]
    <3>1. u.open = modal.open /\ DOMAIN u = DOMAIN modal
      BY <2>1 DEF Windows
    <3>2. [u EXCEPT !.loading = FALSE].open = u.open
      <4> HIDE DEF u
      <4> QED BY <3>1
    <3> QED
      BY <2>2, <3>1, <3>2 DEF KeyArrives
  <2>3. CASE KeyFails(o)
    <3> DEFINE u == [modal EXCEPT !.open = FALSE]
    <3>1. u.open = FALSE
      BY <2>1 DEF Windows
    <3>2. [u EXCEPT !.loading = FALSE].open = u.open
      <4> HIDE DEF u
      <4> QED OBVIOUS
    <3> QED
      BY <2>3, <3>1, <3>2 DEF KeyFails
  <2> QED
    BY <1>5, <2>2, <2>3
<1> QED
  BY <1>1, <1>2, <1>3, <1>4, <1>5 DEF RevealNext

\* A secret is shown only after its user's password was checked.
THEOREM OpensCorrect == RevealSpec => OpensAfterCheck
<1>1. RevealIInv /\ [RevealNext]_revealVars
        => [~modal.open /\ modal'.open => granted \/ (checks' < checks /\ granted')]_revealVars
  BY OpeningStep DEF RevealIInv
<1> QED
  BY <1>1, RevealInvariance, PTL DEF RevealSpec, OpensAfterCheck

-----------------------------------------------------------------------------
(***************************************************************************)
(* JobPage                                                                 *)
(***************************************************************************)

PollRecords == [slot : 1 .. MaxPolls, of : Jobs, saw : {"running", "over"}]

\* The types of the job page, without the counter of moves.
PageTypes ==
    /\ jobRoute \in Jobs /\ jobsLoading \subseteq Jobs
    /\ jobCache \in [Jobs -> {NoJob, "running", "over"}]
    /\ effectFor \in {NoJob, jobRoute} /\ pollTimer \in {NoJob, effectFor}
    /\ jobStatus \in {"running", "over"} /\ outputOf \in Jobs \cup {NoJob}
    /\ over \subseteq Jobs
    /\ polls \subseteq PollRecords

\* Until polls cross, there is one at a time, for the job of the page, while the
\* page shows it running and its timer is set.
OnePoll ==
    ~crossed =>
        /\ \A p, q \in polls : p = q
        /\ \A p \in polls : p.of = effectFor /\ pollTimer = effectFor /\ jobStatus = "running"

\* What a poll saw, or the cache holds, as over is over.
OverOK ==
    /\ \A p \in polls : p.saw = "over" => p.of \in over
    /\ \A j \in Jobs : jobCache[j] = "over" => j \in over

TimerOK == ~crossed /\ pollTimer # NoJob => jobStatus = "running"

PageIInv == PageTypes /\ OnePoll /\ OverOK /\ TimerOK /\ ShowsItsOwnJob

\* The status the server answers with.
LEMMA StatusType ==
    ASSUME NEW j
    PROVE  StatusOf(j) \in {"running", "over"} /\ (StatusOf(j) = "over" => j \in over)
BY DEF StatusOf

\* The effect, run for the job of the route with what is known of it, while no
\* poll is on its way.
LEMMA EffectStep ==
    ASSUME NEW j \in Jobs, NEW held \in {NoJob, "running", "over"},
           RunEffect(j, held), PageTypes, held = "over" => j \in over,
           jobRoute' = j, over' = over, polls' = polls,
           ~crossed' => polls = {}
    PROVE  /\ effectFor' \in {NoJob, j} /\ pollTimer' \in {NoJob, effectFor'}
           /\ jobStatus' \in {"running", "over"} /\ outputOf' \in Jobs \cup {NoJob}
           /\ OnePoll' /\ TimerOK' /\ ShowsItsOwnJob'
<1> USE JobPageAssumption
<1>1. /\ effectFor' \in {NoJob, j} /\ pollTimer' \in {NoJob, effectFor'}
      /\ jobStatus' \in {"running", "over"} /\ outputOf' \in Jobs \cup {NoJob}
  BY DEF RunEffect, PageTypes
<1>2. OnePoll'
  BY DEF OnePoll
<1>3. TimerOK' /\ ShowsItsOwnJob'
  BY DEF RunEffect, TimerOK, ShowsItsOwnJob
<1> QED
  BY <1>1, <1>2, <1>3

\* A route change runs the effect with what the cache has.
LEMMA GoToStep ==
    ASSUME PageIInv, NEW j \in Jobs, GoTo(j)
    PROVE  PageIInv'
<1>1. jobCache[j] \in {NoJob, "running", "over"} /\ (jobCache[j] = "over" => j \in over)
  BY DEF PageIInv, PageTypes, OverOK
<1>2. /\ effectFor' \in {NoJob, j} /\ pollTimer' \in {NoJob, effectFor'}
      /\ jobStatus' \in {"running", "over"} /\ outputOf' \in Jobs \cup {NoJob}
      /\ OnePoll' /\ TimerOK' /\ ShowsItsOwnJob'
  BY <1>1, EffectStep DEF GoTo, PageIInv
<1>3. PageTypes'
  BY <1>2 DEF GoTo, PageIInv, PageTypes
<1>4. OverOK'
  BY DEF GoTo, PageIInv, OverOK
<1> QED
  BY <1>2, <1>3, <1>4 DEF PageIInv

\* An answer of the query runs the effect if the page waited for it.
LEMMA LoadJobStep ==
    ASSUME PageIInv, NEW j \in Jobs, LoadJob(j)
    PROVE  PageIInv'
<1>1. StatusOf(j) \in {"running", "over"} /\ (StatusOf(j) = "over" => j \in over)
  BY StatusType
<1>2. /\ jobRoute' = jobRoute /\ over' = over /\ polls' = polls /\ crossed' = crossed
      /\ jobsLoading' \subseteq Jobs
  BY DEF LoadJob, PageIInv, PageTypes
<1>3. jobCache' \in [Jobs -> {NoJob, "running", "over"}] /\ OverOK'
  BY <1>1, <1>2 DEF LoadJob, PageIInv, PageTypes, OverOK
<1>4. CASE j = jobRoute /\ effectFor = NoJob
  <2>1. ~crossed => polls = {}
    BY <1>4, JobPageAssumption DEF PageIInv, PageTypes, PollRecords, OnePoll
  <2>2. /\ effectFor' \in {NoJob, j} /\ pollTimer' \in {NoJob, effectFor'}
        /\ jobStatus' \in {"running", "over"} /\ outputOf' \in Jobs \cup {NoJob}
        /\ OnePoll' /\ TimerOK' /\ ShowsItsOwnJob'
    BY <1>1, <1>2, <1>4, <2>1, EffectStep DEF LoadJob, PageIInv
  <2>3. PageTypes'
    BY <1>2, <1>3, <1>4, <2>2 DEF PageIInv, PageTypes
  <2> QED
    BY <1>3, <2>2, <2>3 DEF PageIInv
<1>5. CASE ~(j = jobRoute /\ effectFor = NoJob)
  <2>1. UNCHANGED <<effectFor, pollTimer, jobStatus, outputOf>>
    BY <1>5 DEF LoadJob
  <2> QED
    BY <1>2, <1>3, <2>1 DEF PageIInv, PageTypes, OnePoll, TimerOK, ShowsItsOwnJob
<1> QED
  BY <1>4, <1>5

\* The timer starts a poll, which crosses another or is the only one.
LEMMA TickStep ==
    ASSUME PageIInv, Tick
    PROVE  PageIInv'
<1>1. PICK n \in 1 .. MaxPolls :
        polls' = polls \cup {[slot |-> n, of |-> pollTimer, saw |-> StatusOf(pollTimer)]}
  BY DEF Tick
<1> DEFINE p == [slot |-> n, of |-> pollTimer, saw |-> StatusOf(pollTimer)]
<1>2. pollTimer \in Jobs /\ pollTimer = effectFor
  BY DEF Tick, PageIInv, PageTypes
<1>3. StatusOf(pollTimer) \in {"running", "over"}
      /\ (StatusOf(pollTimer) = "over" => pollTimer \in over)
  BY StatusType
<1>4. p \in PollRecords /\ p.of = pollTimer /\ p.saw = StatusOf(pollTimer)
  BY <1>2, <1>3 DEF PollRecords
<1> HIDE DEF p
<1>5. /\ UNCHANGED <<jobRoute, jobCache, jobsLoading, effectFor, pollTimer,
                     jobStatus, outputOf, over>>
      /\ polls' = polls \cup {p}
      /\ ~crossed' => ~crossed /\ polls = {}
  BY <1>1 DEF Tick, p
<1>6. PageTypes'
  BY <1>4, <1>5 DEF PageIInv, PageTypes
<1>7. OnePoll' /\ TimerOK'
  BY <1>2, <1>4, <1>5, JobPageAssumption DEF PageIInv, OnePoll, TimerOK
<1>8. OverOK' /\ ShowsItsOwnJob'
  BY <1>3, <1>4, <1>5 DEF PageIInv, OverOK, ShowsItsOwnJob
<1> QED
  BY <1>6, <1>7, <1>8 DEF PageIInv

\* The only poll there is answers for the job of the page.
LEMMA AnswerPollStep ==
    ASSUME PageIInv, NEW p \in polls, AnswerPoll(p)
    PROVE  PageIInv'
<1>1. p.of \in Jobs /\ p.saw \in {"running", "over"} /\ (p.saw = "over" => p.of \in over)
  BY DEF PageIInv, PageTypes, PollRecords, OverOK
<1>2. /\ UNCHANGED <<jobRoute, jobCache, jobsLoading, effectFor, over, crossed>>
      /\ polls' = polls \ {p} /\ jobStatus' = p.saw /\ outputOf' = p.of
      /\ pollTimer' \in {pollTimer, NoJob}
      /\ p.saw = "over" => pollTimer' = NoJob
      /\ p.saw = "running" => pollTimer' = pollTimer
  BY DEF AnswerPoll
<1>3. PageTypes'
  BY <1>1, <1>2 DEF PageIInv, PageTypes
<1>4. ~crossed => polls' = {} /\ p.of = effectFor /\ pollTimer = effectFor
  BY <1>2 DEF PageIInv, OnePoll
<1>5. OnePoll' /\ TimerOK'
  BY <1>1, <1>2, <1>4 DEF OnePoll, TimerOK
<1>6. OverOK' /\ ShowsItsOwnJob'
  BY <1>1, <1>2, <1>4 DEF PageIInv, OverOK, ShowsItsOwnJob
<1> QED
  BY <1>3, <1>5, <1>6 DEF PageIInv

\* The invariant of the job page.
THEOREM JobPageInvariance == JobPageInit /\ [][JobPageNext]_jobPageVars => []PageIInv
<1>1. JobPageInit => PageIInv
  BY JobPageAssumption
     DEF JobPageInit, PageIInv, PageTypes, OnePoll, OverOK, TimerOK, ShowsItsOwnJob
<1>2. PageIInv /\ [JobPageNext]_jobPageVars => PageIInv'
  <2> SUFFICES ASSUME PageIInv, [JobPageNext]_jobPageVars PROVE PageIInv'
    OBVIOUS
  <2>1. ASSUME NEW j \in Jobs, JobEnds(j) PROVE PageIInv'
    BY <2>1 DEF JobEnds, PageIInv, PageTypes, OnePoll, OverOK, TimerOK, ShowsItsOwnJob
  <2>2. ASSUME NEW p \in polls, PollFails(p) PROVE PageIInv'
    BY <2>2 DEF PollFails, PageIInv, PageTypes, OnePoll, OverOK, TimerOK, ShowsItsOwnJob
  <2>3. CASE UNCHANGED jobPageVars
    BY <2>3 DEF jobPageVars, PageIInv, PageTypes, OnePoll, OverOK, TimerOK, ShowsItsOwnJob
  <2>4. ASSUME NEW j \in Jobs, LoadFails(j) PROVE PageIInv'
    BY <2>4 DEF LoadFails, PageIInv, PageTypes, OnePoll, OverOK, TimerOK, ShowsItsOwnJob
  <2> QED
    BY <2>1, <2>2, <2>3, <2>4, GoToStep, LoadJobStep, TickStep, AnswerPollStep DEF JobPageNext
<1> QED
  BY <1>1, <1>2, PTL

\* A loaded page shows its own job for any number of jobs, polls and moves, as
\* long as no poll fails, meets another or is left behind.
THEOREM OwnJobShown == JobPageSpec => []ShowsItsOwnJob
<1>1. PageIInv => ShowsItsOwnJob
  BY DEF PageIInv
<1> QED
  BY <1>1, JobPageInvariance, PTL DEF JobPageSpec

-----------------------------------------------------------------------------
(***************************************************************************)
(* SshTerminal                                                             *)
(***************************************************************************)

\* Connections are numbered as they are started.
Numbered == \E n \in Nat : DOMAIN sockets = 1 .. n

PendingSockets == {t \in DOMAIN sockets : sockets[t] \in {"delayed", "loading"}}

\* A connection whose code is still to load is the only one, and nothing is
\* live beside it, unless two load together.
PendingOK ==
    ~crowded => \A t \in PendingSockets : LiveSockets = {} /\ PendingSockets = {t}

TerminalIInv == Numbered /\ PendingOK /\ OneSocket

\* After the cleanup no socket is live and none waits for its 50 ms.
LEMMA CleanupStep ==
    ASSUME TerminalIInv, ~crowded
    PROVE  /\ DOMAIN AfterCleanup = DOMAIN sockets
           /\ \A t \in DOMAIN sockets :
                 /\ AfterCleanup[t] \notin {"opening", "open", "delayed"}
                 /\ AfterCleanup[t] = "loading" => sockets[t] = "loading"
<1>1. \A t \in LiveSockets : t = wsRef
  BY DEF TerminalIInv, OneSocket
<1>2. ASSUME NEW t \in DOMAIN sockets
      PROVE  /\ AfterCleanup[t] \notin {"opening", "open", "delayed"}
             /\ AfterCleanup[t] = "loading" => sockets[t] = "loading"
  BY <1>1 DEF AfterCleanup, LiveSockets
<1>3. DOMAIN AfterCleanup = DOMAIN sockets
  BY DEF AfterCleanup
<1> QED
  BY <1>2, <1>3

\* A new connection finds nothing but what Connect calls crowded.
LEMMA ConnectStep ==
    ASSUME TerminalIInv, Connect
    PROVE  TerminalIInv'
<1>1. PICK n \in Nat : DOMAIN sockets = 1 .. n
  BY DEF TerminalIInv, Numbered
<1>2. Cardinality(DOMAIN sockets) = n
  BY <1>1, FS_Interval
<1>3. PICK first \in {"delayed", "loading"} :
        sockets' = [t \in 1 .. n + 1 |-> IF t = n + 1 THEN first ELSE AfterCleanup[t]]
  BY <1>2 DEF Connect
<1>4. crowded' = (crowded \/ \E t \in DOMAIN sockets : sockets[t] = "loading")
  BY DEF Connect
<1>5. DOMAIN sockets' = 1 .. n + 1 /\ sockets'[n + 1] = first
      /\ \A t \in 1 .. n : sockets'[t] = AfterCleanup[t]
  BY <1>3
<1>6. Numbered'
  BY <1>5 DEF Numbered
<1>7. ASSUME ~crowded' PROVE LiveSockets' = {} /\ PendingSockets' = {n + 1}
  <2>1. \A t \in 1 .. n : AfterCleanup[t] \notin {"opening", "open", "delayed", "loading"}
    BY <1>1, <1>4, <1>7, CleanupStep
  <2>2. \A t \in DOMAIN sockets' : t = n + 1 \/ t \in 1 .. n
    BY <1>5
  <2>3. LiveSockets' = {}
    BY <1>5, <2>1, <2>2 DEF LiveSockets
  <2>4. PendingSockets' = {n + 1}
    BY <1>5, <2>1, <2>2 DEF PendingSockets
  <2> QED
    BY <2>3, <2>4
<1>8. PendingOK' /\ OneSocket'
  BY <1>7 DEF PendingOK, OneSocket
<1> QED
  BY <1>6, <1>8 DEF TerminalIInv

\* Leaving closes the socket there is.
LEMMA LeaveStep ==
    ASSUME TerminalIInv, Leave
    PROVE  TerminalIInv'
<1>1. sockets' = AfterCleanup /\ crowded' = crowded /\ DOMAIN AfterCleanup = DOMAIN sockets
  BY DEF Leave, AfterCleanup
<1>2. Numbered'
  BY <1>1 DEF TerminalIInv, Numbered
<1>3. ASSUME ~crowded PROVE LiveSockets' = {} /\ PendingSockets' \subseteq PendingSockets
  BY <1>1, <1>3, CleanupStep DEF LiveSockets, PendingSockets
<1>4. PendingOK' /\ OneSocket'
  BY <1>1, <1>3 DEF PendingOK, OneSocket, TerminalIInv
<1> QED
  BY <1>2, <1>4 DEF TerminalIInv

\* A step of one connection.
LEMMA SocketStep ==
    ASSUME TerminalIInv, NEW t \in DOMAIN sockets,
           DelayOver(t) \/ CodeLoaded(t) \/ CodeFails(t) \/ Opened(t) \/ Closed(t)
    PROVE  TerminalIInv'
<1>1. PICK s : sockets' = [sockets EXCEPT ![t] = s]
  BY DEF DelayOver, CodeLoaded, CodeFails, Opened, Closed, SetSocket
<1>2. DOMAIN sockets' = DOMAIN sockets /\ crowded' = crowded
      /\ \A u \in DOMAIN sockets : sockets'[u] = IF u = t THEN s ELSE sockets[u]
  BY <1>1 DEF DelayOver, CodeLoaded, CodeFails, Opened, Closed
<1>3. Numbered'
  BY <1>2 DEF TerminalIInv, Numbered
<1>4. CASE DelayOver(t)
  <2>1. sockets[t] = "delayed" /\ sockets'[t] = "loading"
        /\ terminalShown' = terminalShown /\ wsRef' = wsRef
    BY <1>4 DEF DelayOver, SetSocket
  <2>2. LiveSockets' = LiveSockets
    BY <1>2, <2>1 DEF LiveSockets
  <2>3. PendingSockets' = PendingSockets
    BY <1>2, <2>1 DEF PendingSockets
  <2> QED
    BY <1>2, <1>3, <2>1, <2>2, <2>3 DEF TerminalIInv, PendingOK, OneSocket
<1>5. CASE CodeLoaded(t)
  <2>1. sockets[t] = "loading" /\ t \in PendingSockets
    BY <1>5 DEF CodeLoaded, PendingSockets
  <2>2. ~crowded => LiveSockets = {} /\ PendingSockets = {t}
    BY <2>1 DEF TerminalIInv, PendingOK
  <2>3. sockets'[t] \in {"opening", "dropped"}
    BY <1>5 DEF CodeLoaded, SetSocket
  <2>4. ~crowded => PendingSockets' = {}
    BY <1>2, <2>2, <2>3 DEF PendingSockets
  <2>5. CASE terminalShown
    <3>1. wsRef' = t /\ terminalShown'
      BY <1>5, <2>5 DEF CodeLoaded
    <3>2. ~crowded => LiveSockets' \subseteq {t}
      BY <1>2, <2>2 DEF LiveSockets
    <3> QED
      BY <1>2, <1>3, <2>4, <3>1, <3>2 DEF TerminalIInv, PendingOK, OneSocket
  <2>6. CASE ~terminalShown
    <3>1. sockets'[t] = "dropped"
      BY <1>5, <2>6 DEF CodeLoaded, SetSocket
    <3>2. ~crowded => LiveSockets' = {}
      BY <1>2, <2>2, <3>1 DEF LiveSockets
    <3> QED
      BY <1>2, <1>3, <2>4, <3>2 DEF TerminalIInv, PendingOK, OneSocket
  <2> QED
    BY <2>5, <2>6
<1>6. CASE Opened(t) \/ Closed(t)
  <2>1. /\ terminalShown' = terminalShown /\ wsRef' = wsRef
        /\ sockets[t] \in {"opening", "open", "closing"}
        /\ sockets'[t] = "open" => sockets[t] = "opening"
        /\ sockets'[t] \in {"open", "closed"}
    BY <1>6 DEF Opened, Closed, SetSocket
  <2>2. LiveSockets' \subseteq LiveSockets
    BY <1>2, <2>1 DEF LiveSockets
  <2>3. PendingSockets' = PendingSockets
    BY <1>2, <2>1 DEF PendingSockets
  <2> QED
    BY <1>2, <1>3, <2>1, <2>2, <2>3 DEF TerminalIInv, PendingOK, OneSocket
<1>7. CASE CodeFails(t)
  <2>1. sockets[t] = "loading" /\ sockets'[t] = "dropped"
        /\ terminalShown' = terminalShown /\ wsRef' = wsRef
    BY <1>7 DEF CodeFails, SetSocket
  <2>2. LiveSockets' = LiveSockets
    BY <1>2, <2>1 DEF LiveSockets
  <2>3. PendingSockets' = PendingSockets \ {t}
    BY <1>2, <2>1 DEF PendingSockets
  <2> QED
    BY <1>2, <1>3, <2>1, <2>2, <2>3 DEF TerminalIInv, PendingOK, OneSocket
<1> QED
  BY <1>4, <1>5, <1>6, <1>7

\* The invariant of the terminal.
THEOREM TerminalInvariance == TerminalSpec => []TerminalIInv
<1>1. ASSUME TerminalInit PROVE TerminalIInv
  <2>1. DOMAIN sockets = {} /\ {} = 1 .. 0
    BY <1>1 DEF TerminalInit
  <2>2. Numbered
    BY <2>1 DEF Numbered
  <2> QED
    BY <2>1, <2>2 DEF TerminalIInv, PendingOK, OneSocket, PendingSockets, LiveSockets
<1>2. ASSUME TerminalIInv, [TerminalNext]_terminalVars PROVE TerminalIInv'
  <2>1. CASE TerminalNext
    <3>1. ASSUME NEW t \in DOMAIN sockets, Errored(t) PROVE TerminalIInv'
      BY <1>2, <3>1 DEF Errored, TerminalIInv, Numbered, PendingOK, OneSocket,
                        PendingSockets, LiveSockets
    <3> QED
      BY <1>2, <2>1, <3>1, ConnectStep, LeaveStep, SocketStep DEF TerminalNext
  <2>2. CASE UNCHANGED terminalVars
    BY <1>2, <2>2 DEF terminalVars, TerminalIInv, Numbered, PendingOK, OneSocket,
                      PendingSockets, LiveSockets
  <2> QED
    BY <1>2, <2>1, <2>2
<1> QED
  BY <1>1, <1>2, PTL DEF TerminalSpec

\* No connection is left open behind the terminal, however many are started,
\* unless two of them load the code together.
THEOREM NoSocketLeft == TerminalSpec => []OneSocket
<1>1. TerminalIInv => OneSocket
  BY DEF TerminalIInv
<1> QED
  BY <1>1, TerminalInvariance, PTL

-----------------------------------------------------------------------------
(***************************************************************************)
(* SeededForms                                                             *)
(***************************************************************************)

Drafts == [of : Targets \cup {Unread}, from : Nat, typed : BOOLEAN, taken : BOOLEAN,
           loose : BOOLEAN]

FormBase ==
    /\ form \in {"config", "role", "budget", "object"} /\ formFor \in Targets
    /\ saved \in [Targets -> Nat]
    /\ known \in [Targets -> Nat \cup {Unread}]
    /\ draft \in Drafts

\* A form that shows what was read is filled for its target, or was taken along.
FilledOK ==
    form # "object" /\ known[formFor] # Unread /\ ~draft.taken => draft.of = formFor

\* Typing in a file that could not be read waits for no answer that would name
\* it read and leave the text.
UnreadOK ==
    form = "config" /\ dirty /\ known[formFor] = Unread /\ formFor \in arriving
    => draft.taken

\* What is typed in the editor, and not given up, keeps it dirty.
DirtyOK == form = "config" /\ draft.typed /\ ~draft.loose => dirty

FormIInv == FormBase /\ FilledOK /\ UnreadOK /\ DirtyOK /\ SavedUnderItsTarget

\* A draft as Filled makes it.
LEMMA FilledType ==
    ASSUME NEW t \in Targets, NEW ver \in Nat
    PROVE  /\ Filled(t, ver) \in Drafts
           /\ Filled(t, ver).of = t /\ Filled(t, ver).typed = FALSE
BY DEF Filled, Drafts

\* A draft that the user types in, saves, gives up or takes along.
LEMMA MarkedType ==
    ASSUME NEW d \in Drafts
    PROVE  /\ [d EXCEPT !.typed = FALSE] \in Drafts
           /\ [d EXCEPT !.typed = FALSE].of = d.of
           /\ [d EXCEPT !.typed = FALSE].taken = d.taken
           /\ [d EXCEPT !.typed = FALSE].typed = FALSE
           /\ [d EXCEPT !.typed = TRUE, !.loose = FALSE] \in Drafts
           /\ [d EXCEPT !.typed = TRUE, !.loose = FALSE].of = d.of
           /\ [d EXCEPT !.typed = TRUE, !.loose = FALSE].taken = d.taken
           /\ [d EXCEPT !.typed = TRUE, !.loose = FALSE].typed = TRUE
           /\ [d EXCEPT !.taken = TRUE] \in Drafts
           /\ [d EXCEPT !.taken = TRUE].taken = TRUE
           /\ [d EXCEPT !.taken = TRUE].typed = d.typed
           /\ [d EXCEPT !.taken = TRUE].loose = d.loose
BY DEF Drafts

\* A draft given up keeps its text and is no longer what dirty stands for.
LEMMA GivenType ==
    ASSUME FormBase
    PROVE  /\ Given \in Drafts /\ Given.of = draft.of /\ Given.taken = draft.taken
           /\ Given.typed = draft.typed /\ (Given.typed => Given.loose)
           /\ [Given EXCEPT !.taken = TRUE] \in Drafts
           /\ [Given EXCEPT !.taken = TRUE].taken = TRUE
           /\ [Given EXCEPT !.taken = TRUE].typed = draft.typed
           /\ [Given EXCEPT !.taken = TRUE].loose = draft.typed
BY DEF FormBase, Given, Drafts

\* The initial states satisfy the invariant.
LEMMA InitFormIInv == FormInit => FormIInv
<1> SUFFICES ASSUME FormInit PROVE FormIInv
  OBVIOUS
<1>1. Blank \in Drafts /\ Blank.of = Unread /\ Blank.typed = FALSE
  BY DEF Blank, Filled, Drafts
<1>2. FormBase
  BY <1>1, FormAssumption DEF FormInit, FormBase
<1>3. save.busy = FALSE
  BY DEF FormInit, NoSave
<1>4. FilledOK /\ UnreadOK
  BY <1>1, FormAssumption DEF FormInit, FilledOK, UnreadOK
<1>5. DirtyOK
  BY <1>1 DEF FormInit, DirtyOK
<1>6. SavedUnderItsTarget
  BY <1>3 DEF SavedUnderItsTarget
<1> QED
  BY <1>2, <1>4, <1>5, <1>6 DEF FormIInv

\* An answer fills the form or leaves text that is for its target already.
LEMMA FormArrivesStep ==
    ASSUME FormIInv, NEW t \in Targets, FormArrives(t)
    PROVE  FormIInv'
<1> USE FormAssumption
<1>1. /\ UNCHANGED <<form, formFor, saved, dirty, save>>
      /\ arriving' = arriving \ {t} /\ t \in arriving
      /\ known' = [known EXCEPT ![t] = saved[t]]
      /\ draft' = draft \/ (draft' = Filled(t, saved[t]) /\ t = formFor)
      /\ t = formFor /\ known' # known /\ Reseeds /\ known[t] = Unread
         => draft' = Filled(t, saved[t])
  BY DEF FormArrives, Unmoved
<1>2. saved[t] \in Nat /\ saved[t] # Unread
  BY DEF FormIInv, FormBase
<1>3. Filled(t, saved[t]) \in Drafts /\ Filled(t, saved[t]).of = t
      /\ Filled(t, saved[t]).typed = FALSE
  BY <1>2, FilledType
<1>4. FormBase'
  BY <1>1, <1>2, <1>3 DEF FormIInv, FormBase
<1>5. known'[t] = saved[t] /\ \A u \in Targets : u # t => known'[u] = known[u]
  BY <1>1 DEF FormIInv, FormBase
<1>6. FilledOK'
  <2>1. CASE t # formFor
    BY <1>1, <1>3, <1>5, <2>1 DEF FormIInv, FormBase, FilledOK
  <2>2. CASE t = formFor /\ known[t] # Unread
    BY <1>1, <1>3, <2>2 DEF FormIInv, FilledOK
  <2>3. CASE t = formFor /\ known[t] = Unread
    <3>1. known' # known
      BY <1>2, <1>5, <2>3
    <3>2. CASE Reseeds
      BY <1>1, <1>3, <2>3, <3>1, <3>2 DEF FilledOK
    <3>3. CASE ~Reseeds
      <4>1. form = "object" \/ draft.taken
        BY <1>1, <2>3, <3>3 DEF FormIInv, FormBase, UnreadOK, Reseeds
      <4>2. draft' = draft \/ draft'.of = t
        BY <1>1, <1>3
      <4> QED
        BY <1>1, <2>3, <4>1, <4>2 DEF FilledOK
    <3> QED
      BY <3>2, <3>3
  <2> QED
    BY <2>1, <2>2, <2>3
<1>7. UnreadOK'
  BY <1>1, <1>2, <1>5 DEF FormIInv, FormBase, UnreadOK
<1>8. DirtyOK' /\ SavedUnderItsTarget'
  BY <1>1, <1>3 DEF FormIInv, DirtyOK, SavedUnderItsTarget
<1> QED
  BY <1>4, <1>6, <1>7, <1>8 DEF FormIInv

\* Another file takes the editor, with the text the browser has of it, with the
\* text that is there or with nothing read.
LEMMA SelectFileStep ==
    ASSUME FormIInv, NEW t \in Targets, SelectFile(t)
    PROVE  FormIInv'
<1>1. /\ UNCHANGED <<form, saved, known, save>>
      /\ formFor' = t /\ form = "config" /\ dirty' = FALSE
      /\ \/ known[t] # Unread /\ draft' = Filled(t, known[t])
         \/ known[t] = Unread /\ draft' = Given
         \/ draft' = [Given EXCEPT !.taken = TRUE]
  BY DEF SelectFile, MoveTo
<1>2. known[t] # Unread =>
        /\ Filled(t, known[t]) \in Drafts
        /\ Filled(t, known[t]).of = t /\ Filled(t, known[t]).typed = FALSE
  BY FilledType DEF FormIInv, FormBase
<1>3. FormBase'
  BY <1>1, <1>2, GivenType DEF FormIInv, FormBase
<1>4. FilledOK'
  BY <1>1, <1>2, GivenType DEF FormIInv, FilledOK
<1>5. DirtyOK'
  BY <1>1, <1>2, GivenType DEF FormIInv, DirtyOK
<1>6. UnreadOK' /\ SavedUnderItsTarget'
  BY <1>1 DEF FormIInv, UnreadOK, SavedUnderItsTarget
<1> QED
  BY <1>3, <1>4, <1>5, <1>6 DEF FormIInv

\* So does another service, role or object; a dirty text goes along.
LEMMA RouteStep ==
    ASSUME FormIInv, NEW t \in Targets, Route(t)
    PROVE  FormIInv'
<1>1. /\ UNCHANGED <<form, saved, known, save, dirty>>
      /\ formFor' = t
      /\ \/ known[t] # Unread /\ draft' = Filled(t, known[t]) /\ (form = "config" => ~dirty)
         \/ known[t] = Unread /\ draft' = draft /\ (form = "config" => ~dirty)
         \/ form = "object" /\ draft' = draft
         \/ draft' = [draft EXCEPT !.taken = TRUE]
  BY DEF Route, MoveTo, Shown, FormIInv, FormBase
<1>2. known[t] # Unread =>
        /\ Filled(t, known[t]) \in Drafts
        /\ Filled(t, known[t]).of = t /\ Filled(t, known[t]).typed = FALSE
  BY FilledType DEF FormIInv, FormBase
<1>3. /\ [draft EXCEPT !.taken = TRUE] \in Drafts
      /\ [draft EXCEPT !.taken = TRUE].taken = TRUE
      /\ [draft EXCEPT !.taken = TRUE].typed = draft.typed
      /\ [draft EXCEPT !.taken = TRUE].loose = draft.loose
  BY MarkedType DEF FormIInv, FormBase
<1>4. FormBase'
  BY <1>1, <1>2, <1>3 DEF FormIInv, FormBase
<1>5. FilledOK'
  BY <1>1, <1>2, <1>3 DEF FormIInv, FilledOK
<1>6. UnreadOK'
  BY <1>1, <1>2, <1>3 DEF FormIInv, UnreadOK
<1>7. DirtyOK'
  BY <1>1, <1>2, <1>3 DEF FormIInv, DirtyOK
<1>8. SavedUnderItsTarget'
  BY <1>1 DEF FormIInv, SavedUnderItsTarget
<1> QED
  BY <1>4, <1>5, <1>6, <1>7, <1>8 DEF FormIInv

\* The file that is shown is selected again, or a version of it restored.
LEMMA GivenUpStep ==
    ASSUME FormIInv, SelectAgain \/ Restored
    PROVE  FormIInv'
<1>1. /\ UNCHANGED <<form, formFor, known, save>>
      /\ dirty' = FALSE /\ draft' = Given
      /\ saved' = saved \/ saved' = [saved EXCEPT ![formFor] = saved[formFor] + 1]
  BY DEF SelectAgain, Restored
<1>2. FormBase'
  BY <1>1, GivenType DEF FormIInv, FormBase
<1>3. FilledOK' /\ UnreadOK' /\ DirtyOK' /\ SavedUnderItsTarget'
  BY <1>1, GivenType DEF FormIInv, FilledOK, UnreadOK, DirtyOK, SavedUnderItsTarget
<1> QED
  BY <1>2, <1>3 DEF FormIInv

\* Typing marks the text, and the editor.
LEMMA TypeInStep ==
    ASSUME FormIInv, TypeIn
    PROVE  FormIInv'
<1>1. /\ UNCHANGED <<form, formFor, saved, known, arriving>>
      /\ draft' = [draft EXCEPT !.typed = TRUE, !.loose = FALSE]
      /\ form = "config" => dirty' = TRUE
      /\ save' = [save EXCEPT !.typedOn = save.busy]
      /\ form = "config" => known[formFor] # Unread \/ formFor \notin arriving
  BY DEF TypeIn, Visible
<1>2. draft' \in Drafts /\ draft'.of = draft.of /\ draft'.taken = draft.taken
  BY <1>1, MarkedType DEF FormIInv, FormBase
<1>3. FormBase'
  BY <1>1, <1>2 DEF FormIInv, FormBase
<1>4. FilledOK' /\ UnreadOK' /\ DirtyOK'
  BY <1>1, <1>2 DEF FormIInv, FilledOK, UnreadOK, DirtyOK
<1>5. save'.busy = save.busy /\ save'.read = save.read /\ save'.to = save.to
      /\ save'.text = save.text
  BY <1>1
<1>6. SavedUnderItsTarget'
  BY <1>1, <1>5 DEF FormIInv, SavedUnderItsTarget
<1> QED
  BY <1>3, <1>4, <1>6 DEF FormIInv

\* A save carries the text and the target there are.
LEMMA PressSaveStep ==
    ASSUME FormIInv, PressSave
    PROVE  FormIInv'
<1>1. /\ UNCHANGED <<form, formFor, saved, known, arriving, draft, dirty>>
      /\ save'.to = formFor /\ save'.text = draft
      /\ save'.read = (known[formFor] # Unread)
  BY DEF PressSave
<1>2. FormBase' /\ FilledOK' /\ UnreadOK' /\ DirtyOK'
  BY <1>1 DEF FormIInv, FormBase, FilledOK, UnreadOK, DirtyOK
<1>3. SavedUnderItsTarget'
  BY <1>1 DEF FormIInv, FilledOK, SavedUnderItsTarget
<1> QED
  BY <1>2, <1>3 DEF FormIInv

\* The answer of a save clears the mark, or gives up what was typed since.
LEMMA SavedStep ==
    ASSUME FormIInv, Saved
    PROVE  FormIInv'
<1>1. /\ UNCHANGED <<form, formFor, known>>
      /\ save'.busy = FALSE
      /\ form = "config" => dirty' = FALSE
      /\ saved' = [saved EXCEPT ![save.to] = saved[save.to] + 1]
      /\ draft' = Given \/ draft' = [draft EXCEPT !.typed = FALSE]
  BY DEF Saved, NoSave
<1>2. /\ draft' \in Drafts /\ draft'.of = draft.of /\ draft'.taken = draft.taken
      /\ draft'.typed => draft'.loose
  <2>1. CASE draft' = Given
    BY <2>1, GivenType DEF FormIInv
  <2>2. CASE draft' = [draft EXCEPT !.typed = FALSE]
    BY <2>2, MarkedType DEF FormIInv, FormBase
  <2> QED
    BY <1>1, <2>1, <2>2
<1>3. saved' \in [Targets -> Nat]
  <2> DEFINE n == saved[save.to] + 1
  <2>1. save.to \in Targets => n \in Nat
    BY DEF FormIInv, FormBase
  <2>2. saved' = [saved EXCEPT ![save.to] = n]
    BY <1>1
  <2> HIDE DEF n
  <2> QED
    BY <2>1, <2>2 DEF FormIInv, FormBase
<1>4. FormBase'
  BY <1>1, <1>2, <1>3 DEF FormIInv, FormBase
<1>5. FilledOK' /\ UnreadOK' /\ DirtyOK'
  BY <1>1, <1>2 DEF FormIInv, FilledOK, UnreadOK, DirtyOK
<1>6. SavedUnderItsTarget'
  BY <1>1 DEF SavedUnderItsTarget
<1> QED
  BY <1>4, <1>5, <1>6 DEF FormIInv

\* Editing an object starts from what was read of it.
LEMMA StartEditStep ==
    ASSUME FormIInv, StartEdit
    PROVE  FormIInv'
<1>1. /\ UNCHANGED <<form, formFor, saved, known, arriving, save>>
      /\ form = "object" /\ known[formFor] # Unread
      /\ draft' = Filled(formFor, known[formFor])
  BY DEF StartEdit
<1>2. draft' \in Drafts /\ draft'.of = formFor /\ draft'.typed = FALSE
  BY <1>1, FilledType DEF FormIInv, FormBase
<1> QED
  BY <1>1, <1>2 DEF FormIInv, FormBase, FilledOK, UnreadOK, DirtyOK, SavedUnderItsTarget

\* The steps that leave the draft and what is known of its target alone.
LEMMA OtherFormSteps ==
    ASSUME FormIInv,
           \/ CancelEdit \/ SaveFails
           \/ \E t \in Targets : FormFetchFails(t) \/ OthersSave(t)
    PROVE  FormIInv'
<1>1. /\ UNCHANGED <<form, formFor, known, draft>>
      /\ saved' \in [Targets -> Nat]
  BY DEF CancelEdit, SaveFails, FormFetchFails, OthersSave, FormIInv, FormBase
<1>2. arriving' \subseteq arriving /\ (dirty' = dirty \/ form # "config")
  BY DEF CancelEdit, SaveFails, FormFetchFails, OthersSave
<1>3. save' = save \/ save'.busy = FALSE
  BY DEF CancelEdit, SaveFails, FormFetchFails, OthersSave, NoSave
<1>4. FormBase'
  BY <1>1 DEF FormIInv, FormBase
<1>5. FilledOK' /\ UnreadOK' /\ DirtyOK'
  BY <1>1, <1>2 DEF FormIInv, FilledOK, UnreadOK, DirtyOK
<1>6. SavedUnderItsTarget'
  BY <1>1, <1>3 DEF FormIInv, SavedUnderItsTarget
<1> QED
  BY <1>4, <1>5, <1>6 DEF FormIInv

\* The invariant of the forms.
THEOREM FormInvariance == FormSpec => []FormIInv
<1>1. FormIInv /\ [FormNext]_formVars => FormIInv'
  <2>1. CASE FormNext
    BY <2>1, FormArrivesStep, SelectFileStep, RouteStep, GivenUpStep, TypeInStep,
       PressSaveStep, SavedStep, StartEditStep, OtherFormSteps DEF FormNext
  <2>2. CASE UNCHANGED formVars
    BY <2>2 DEF formVars, FormIInv, FormBase, FilledOK, UnreadOK, DirtyOK,
                SavedUnderItsTarget
  <2> QED
    BY <2>1, <2>2
<1> QED
  BY <1>1, InitFormIInv, PTL DEF FormSpec

\* Files, roles and the budget are saved under what they were filled for, but for
\* a text the editor has taken along, for any number of targets and saves.
THEOREM SavedWhereRead == FormSpec => []SavedUnderItsTarget
<1>1. FormIInv => SavedUnderItsTarget
  BY DEF FormIInv
<1> QED
  BY <1>1, FormInvariance, PTL

\* A step of the editor that is neither the answer of a save nor another file
\* selected keeps what is typed, unless dirty was reset before.
LEMMA TypedStep ==
    ASSUME FormIInv, FormNext, form = "config", draft.typed, ~draft.loose
    PROVE  draft'.typed \/ Saved \/ \E t \in Targets : SelectFile(t)
<1>0. dirty
  BY DEF FormIInv, DirtyOK
<1>1. ASSUME NEW t \in Targets, FormArrives(t) PROVE draft'.typed
  BY <1>0, <1>1 DEF FormArrives, Reseeds
<1>2. ASSUME NEW t \in Targets, FormFetchFails(t) \/ OthersSave(t) PROVE draft'.typed
  BY <1>2 DEF FormFetchFails, OthersSave
<1>3. ASSUME NEW t \in Targets, Route(t) PROVE draft'.typed
  <2>1. ~dirty \/ draft' = [draft EXCEPT !.taken = TRUE]
    BY <1>3 DEF Route
  <2>2. [draft EXCEPT !.taken = TRUE].typed = draft.typed
    BY MarkedType DEF FormIInv, FormBase
  <2>3. draft' = [draft EXCEPT !.taken = TRUE]
    BY <1>0, <2>1
  <2>4. draft'.typed = draft.typed
    BY <2>2, <2>3
  <2> QED
    BY <2>4
<1>4. CASE TypeIn
  BY <1>4, MarkedType DEF TypeIn, FormIInv, FormBase
<1>5. CASE SelectAgain \/ Restored
  BY <1>5, GivenType DEF SelectAgain, Restored, FormIInv
<1>6. CASE StartEdit \/ CancelEdit \/ PressSave \/ SaveFails
  BY <1>6 DEF StartEdit, CancelEdit, PressSave, SaveFails
<1> QED
  BY <1>1, <1>2, <1>3, <1>4, <1>5, <1>6 DEF FormNext

\* What is typed in the configuration editor is kept, whoever saves meanwhile and
\* wherever the route goes, until one of the three resets of dirty.
THEOREM TypingKept == FormSpec => TypedIsKept
<1>1. FormIInv /\ [FormNext]_formVars =>
        [form = "config" /\ draft.typed /\ ~draft.loose
         => draft'.typed \/ Saved \/ \E t \in Targets : SelectFile(t)]_formVars
  BY TypedStep
<1> QED
  BY <1>1, FormInvariance, PTL DEF FormSpec, TypedIsKept

-----------------------------------------------------------------------------
(***************************************************************************)
(* BulkSelection                                                           *)
(***************************************************************************)

\* What the lists are made of.
ListTypes ==
    /\ list \in {"hub", "services"} /\ typeShown \in ObjectTypes
    /\ objects \in [ObjectTypes -> SUBSET Ids] /\ listing \in [ObjectTypes -> SUBSET Ids]
    /\ created \in 0 .. MaxObjects

\* What is selected was ticked: ids always, row numbers while the list stays.
SelectedOK == list = "services" \/ ~moved => Selected \subseteq meant

TicksOK == list = "services" => ticked \subseteq meant

SelectionIInv == ListTypes /\ SelectedOK /\ TicksOK /\ BulkHitsMeant

\* Two rows of a list have different places.
LEMMA PlaceInjective ==
    ASSUME ListTypes, NEW o \in Listed, NEW p \in Listed, Place(o) = Place(p)
    PROVE  o = p
<1> DEFINE Above(x) == {q \in Listed : q > x}
<1>1. Listed \subseteq 1 .. MaxObjects /\ MaxObjects \in Nat
  BY SelectionAssumption DEF ListTypes, Listed, Ids
<1>2. IsFiniteSet(Listed)
  <2>1. IsFiniteSet(1 .. MaxObjects)
    BY <1>1, FS_Interval
  <2> QED
    BY <1>1, <2>1, FS_Subset
<1>3. ASSUME NEW x \in Listed, NEW y \in Listed, x > y, Place(x) = Place(y)
      PROVE  FALSE
  <2>1. Above(x) \subseteq Above(y) /\ x \in Above(y) /\ x \notin Above(x)
    <3>1. \A q \in Listed : q \in Int
      BY <1>1
    <3>2. \A q \in Listed : q > x => q > y
      BY <1>3, <3>1
    <3> QED
      BY <1>3, <3>1, <3>2
  <2>2. IsFiniteSet(Above(y))
    BY <1>2, FS_Subset
  <2>3. Cardinality(Above(x)) = Cardinality(Above(y))
    BY <1>3 DEF Place
  <2> HIDE DEF Above
  <2>4. Above(x) = Above(y)
    BY <2>1, <2>2, <2>3, FS_Subset
  <2> QED
    BY <2>1, <2>4
<1>4. o \in Nat /\ p \in Nat
  BY <1>1
<1> QED
  BY <1>3, <1>4

\* So a tick stands for one row.
LEMMA HandleInjective ==
    ASSUME ListTypes, NEW o \in Listed, NEW p \in Listed, Handle(o) = Handle(p)
    PROVE  o = p
BY PlaceInjective DEF Handle

\* A row is ticked, or not any more, and the object with it.
LEMMA ToggleStep ==
    ASSUME SelectionIInv, NEW o \in Listed, Toggle(o)
    PROVE  SelectionIInv'
<1>1. UNCHANGED <<list, typeShown, objects, listing, created, bulk>>
  BY DEF Toggle
<1>2. Listed' = Listed /\ \A x : Handle(x)' = Handle(x)
  BY <1>1 DEF Listed, Handle, Place
<1>3. ASSUME list = "services" \/ ~moved', NEW x \in Selected' PROVE x \in meant'
  <2>1. x \in Listed /\ Handle(x) \in ticked'
    BY <1>2 DEF Selected
  <2>2. CASE Handle(o) \in ticked
    <3>1. ticked' = ticked \ {Handle(o)} /\ meant' = meant \ {o}
      BY <2>2 DEF Toggle
    <3>2. x # o /\ x \in Selected
      BY <2>1, <3>1 DEF Selected
    <3>3. list = "services" \/ ~moved
      BY <1>3, <2>1 DEF Toggle
    <3> QED
      BY <3>1, <3>2, <3>3 DEF SelectionIInv, SelectedOK
  <2>3. CASE Handle(o) \notin ticked
    <3>1. ticked' = ticked \cup {Handle(o)} /\ meant' = meant \cup {o}
      BY <2>3 DEF Toggle
    <3>2. list = "services" \/ ~moved
      BY <1>3, <2>1 DEF Toggle
    <3>3. CASE Handle(x) = Handle(o)
      BY <2>1, <3>1, <3>3, HandleInjective DEF SelectionIInv
    <3>4. CASE Handle(x) # Handle(o)
      <4>1. x \in Selected
        BY <2>1, <3>1, <3>4 DEF Selected
      <4> QED
        BY <3>1, <3>2, <4>1 DEF SelectionIInv, SelectedOK
    <3> QED
      BY <3>3, <3>4
  <2> QED
    BY <2>2, <2>3
<1>4. SelectedOK'
  BY <1>1, <1>3 DEF SelectedOK
<1>5. TicksOK'
  BY <1>1 DEF Toggle, Handle, SelectionIInv, TicksOK
<1> QED
  BY <1>1, <1>4, <1>5 DEF SelectionIInv, ListTypes, BulkHitsMeant

\* The box of the header ticks what is listed or gives all of it up.
LEMMA ToggleAllStep ==
    ASSUME SelectionIInv, ToggleAll
    PROVE  SelectionIInv'
<1> DEFINE page == {Handle(o) : o \in Listed}
<1>1. UNCHANGED <<list, typeShown, objects, listing, created, bulk>>
      /\ moved' = (moved /\ ticked' # {})
  BY DEF ToggleAll
<1>2. Listed' = Listed /\ \A x : Handle(x)' = Handle(x)
  BY <1>1 DEF Listed, Handle, Place
<1>3. Selected' = {x \in Listed : Handle(x) \in ticked'}
  BY <1>2 DEF Selected
<1>4. \/ ticked' = ticked \ page
      \/ ticked' = {}
      \/ meant' = meant \cup Listed
      \/ meant' = Listed
  BY DEF ToggleAll
<1>5. (\E x \in Selected' : TRUE) => meant' = meant \cup Listed \/ meant' = Listed
  BY <1>3, <1>4
<1>6. SelectedOK'
  <2>1. ASSUME NEW x \in Selected', meant' = meant \cup Listed \/ meant' = Listed
        PROVE  x \in meant'
    BY <1>3, <2>1
  <2> QED
    BY <1>5, <2>1 DEF SelectedOK
<1>7. TicksOK'
  <2>1. ASSUME list = "services" PROVE ticked' = {} \/ (ticked' = Listed /\ meant' = Listed)
    <3>1. page = Listed
      BY <2>1 DEF Handle
    <3> QED
      BY <2>1, <3>1 DEF ToggleAll
  <2> QED
    BY <1>1, <2>1 DEF TicksOK
<1> QED
  BY <1>1, <1>6, <1>7 DEF SelectionIInv, ListTypes, BulkHitsMeant

\* The list changes under the ticks: ids go with their objects, row numbers do
\* not, and moved says so.
LEMMA ListMovesStep ==
    ASSUME SelectionIInv, Refetch \/ \E t \in ObjectTypes : SwitchType(t)
    PROVE  SelectionIInv'
<1>1. UNCHANGED <<list, objects, created, ticked, meant, bulk>>
      /\ moved' = (moved \/ ticked # {})
  BY DEF Refetch, SwitchType
<1>2. ListTypes'
  BY <1>1 DEF Refetch, SwitchType, SelectionIInv, ListTypes
<1>3. TicksOK'
  BY <1>1 DEF SelectionIInv, TicksOK
<1>4. ASSUME list = "services" \/ ~moved', NEW x \in Selected' PROVE x \in meant'
  <2>1. ticked # {}
    BY <1>1 DEF Selected
  <2>2. list = "services"
    BY <1>1, <1>4, <2>1
  <2>3. x \in ticked
    BY <1>1, <2>2 DEF Selected, Handle
  <2> QED
    BY <1>1, <1>3, <2>2, <2>3 DEF TicksOK
<1>5. SelectedOK'
  BY <1>1, <1>4 DEF SelectedOK
<1> QED
  BY <1>1, <1>2, <1>3, <1>5 DEF SelectionIInv, BulkHitsMeant

\* Nothing ticked selects nothing.
LEMMA ClearedStep ==
    ASSUME SelectionIInv, Cleared, bulk' \subseteq bulk,
           UNCHANGED <<list, typeShown, objects, listing, created>>
    PROVE  SelectionIInv'
<1>1. SelectedOK' /\ TicksOK'
  BY DEF Cleared, SelectedOK, Selected, TicksOK
<1> QED
  BY <1>1 DEF SelectionIInv, ListTypes, BulkHitsMeant

\* Objects come and go on the server; what is listed and ticked stays.
LEMMA ObjectsStep ==
    ASSUME SelectionIInv, NEW t \in ObjectTypes,
           CreateObject(t) \/ \E o \in objects[t] : DeleteObject(t, o)
    PROVE  SelectionIInv'
<1>1. UNCHANGED <<list, typeShown, listing, ticked, meant, moved, bulk>>
  BY DEF CreateObject, DeleteObject
<1>2. objects' \in [ObjectTypes -> SUBSET Ids] /\ created' \in 0 .. MaxObjects
  <2>1. CASE CreateObject(t)
    <3>1. created + 1 \in Ids /\ created' = created + 1
      BY <2>1, SelectionAssumption DEF CreateObject, SelectionIInv, ListTypes, Ids
    <3> QED
      BY <2>1, <3>1 DEF CreateObject, SelectionIInv, ListTypes, Ids
  <2>2. ASSUME NEW o \in objects[t], DeleteObject(t, o)
        PROVE  objects' \in [ObjectTypes -> SUBSET Ids] /\ created' \in 0 .. MaxObjects
    BY <2>2 DEF DeleteObject, SelectionIInv, ListTypes
  <2> QED
    BY <2>1, <2>2
<1>3. ListTypes'
  BY <1>1, <1>2 DEF SelectionIInv, ListTypes
<1>4. Selected' = Selected
  BY <1>1 DEF Selected, Handle, Place, Listed
<1> QED
  BY <1>1, <1>3, <1>4 DEF SelectionIInv, SelectedOK, TicksOK, BulkHitsMeant

\* A bulk call takes what is selected.
LEMMA ConfirmBulkStep ==
    ASSUME SelectionIInv, ConfirmBulk
    PROVE  SelectionIInv'
<1> DEFINE b == [hits |-> Selected, meant |-> meant, counted |-> Cardinality(ticked),
                 moved |-> moved]
<1>1. UNCHANGED <<list, typeShown, objects, listing, created, ticked, meant, moved>>
      /\ bulk' = bulk \cup {b}
  BY DEF ConfirmBulk
<1>2. b.hits = Selected /\ b.meant = meant /\ b.moved = moved
  OBVIOUS
<1> HIDE DEF b
<1>3. BulkHitsMeant'
  BY <1>1, <1>2 DEF SelectionIInv, SelectedOK, BulkHitsMeant
<1>4. Selected' = Selected
  BY <1>1 DEF Selected, Handle, Place, Listed
<1> QED
  BY <1>1, <1>3, <1>4 DEF SelectionIInv, ListTypes, SelectedOK, TicksOK

\* The invariant of the lists.
THEOREM SelectionInvariance == SelectionSpec => []SelectionIInv
<1>1. SelectionInit => SelectionIInv
  BY SelectionAssumption
     DEF SelectionInit, SelectionIInv, ListTypes, SelectedOK, Selected, TicksOK, BulkHitsMeant
<1>2. SelectionIInv /\ [SelectionNext]_selectionVars => SelectionIInv'
  <2> SUFFICES ASSUME SelectionIInv, [SelectionNext]_selectionVars PROVE SelectionIInv'
    OBVIOUS
  <2>1. CASE ClearSelection
    BY <2>1, ClearedStep DEF ClearSelection
  <2>2. ASSUME NEW b \in bulk, BulkDone(b) PROVE SelectionIInv'
    BY <2>2, ClearedStep DEF BulkDone
  <2>3. ASSUME NEW b \in bulk, BulkFails(b) PROVE SelectionIInv'
    <3>1. UNCHANGED <<list, typeShown, objects, listing, created, ticked, meant, moved>>
          /\ bulk' \subseteq bulk
      BY <2>3 DEF BulkFails
    <3>2. Selected' = Selected
      BY <3>1 DEF Selected, Handle, Place, Listed
    <3> QED
      BY <3>1, <3>2 DEF SelectionIInv, ListTypes, SelectedOK, TicksOK, BulkHitsMeant
  <2>4. CASE UNCHANGED selectionVars
    <3>1. Selected' = Selected
      BY <2>4 DEF selectionVars, Selected, Handle, Place, Listed
    <3> QED
      BY <2>4, <3>1
         DEF selectionVars, SelectionIInv, ListTypes, SelectedOK, TicksOK, BulkHitsMeant
  <2>5. CASE \E o \in Listed : Toggle(o)
    BY <2>5, ToggleStep
  <2>6. CASE ToggleAll \/ Refetch \/ ConfirmBulk
    BY <2>6, ToggleAllStep, ListMovesStep, ConfirmBulkStep
  <2>7. CASE \E t \in ObjectTypes :
               SwitchType(t) \/ CreateObject(t) \/ \E o \in objects[t] : DeleteObject(t, o)
    BY <2>7, ListMovesStep, ObjectsStep
  <2> QED
    BY <2>1, <2>2, <2>3, <2>4, <2>5, <2>6, <2>7 DEF SelectionNext
<1> QED
  BY <1>1, <1>2, PTL DEF SelectionSpec

\* A bulk call acts on what was ticked, for any types, objects and calls, unless
\* the inventory list moved under the ticks.
THEOREM BulkHitsWhatWasTicked == SelectionSpec => []BulkHitsMeant
<1>1. SelectionIInv => BulkHitsMeant
  BY DEF SelectionIInv
<1> QED
  BY <1>1, SelectionInvariance, PTL

-----------------------------------------------------------------------------
(***************************************************************************)
(* ClientSession                                                           *)
(***************************************************************************)

Requests == [what : {"me", "load", "save"}, as : Users \cup {NoUser}, prefs : Kept]

SessionBase ==
    /\ token \in Users \cup {NoUser} /\ factorOf \in Users \cup {NoUser}
    /\ memory \subseteq Users
    /\ place = "inside" => token # NoUser
    /\ onWay \subseteq Requests
    /\ \A r \in onWay : r.what = "load" => r.prefs = Defaults
    /\ edits \in 0 .. MaxEdits
    /\ prefs \in Kept /\ timer \in Kept \cup {NoTimer}
    /\ onServer \in [Users -> Kept]

\* Nothing here, nor on its way, is anybody's but the one user's.
Mine(x) == x \in memory \cup {NoUser}

AloneOK ==
    ~shared =>
        /\ \A a, b \in memory : a = b
        /\ Mine(token) /\ (token # NoUser => user = token)
        /\ Mine(prefs.of) /\ Mine(timer.of)
        /\ \A r \in onWay : Mine(r.as) /\ Mine(r.prefs.of)
        /\ \A r \in onWay : r.what \in {"me", "load"} => r.as \in memory
        /\ \A u \in Users : onServer[u].of \in {NoUser, u}

\* Preferences are edited once they are loaded, and what was edited last waits
\* for the timer, is on its way or is on the server.
SyncOK ==
    ~shared /\ ~gap =>
        /\ loaded => memory # {} /\ Sent("load") = {}
        /\ ~loaded => timer = NoTimer /\ Sent("save") = {}
        /\ ~loaded /\ place = "inside" => Sent("load") # {}
        /\ timer # NoTimer => timer = prefs
        /\ \A r \in Sent("save") : timer = NoTimer => r.prefs = prefs
        /\ \A r, q \in Sent("save") : r = q
        /\ loaded /\ timer = NoTimer /\ Sent("save") = {} =>
              \A u \in memory : onServer[u] = prefs

SessionIInv == SessionBase /\ AloneOK /\ SyncOK

\* The preferences before any are loaded, and the timer that does not run.
LEMMA DefaultFacts ==
    /\ Defaults \in Kept /\ Defaults.of = NoUser
    /\ NoTimer \notin Kept /\ NoTimer.of = NoUser
<1>1. Defaults \in Kept /\ Defaults.of = NoUser
  BY SessionAssumption DEF Defaults, Kept
<1>2. NoTimer.of = NoUser /\ NoTimer.n = MaxEdits + 1
  BY DEF NoTimer
<1>3. \A k \in Kept : k.n \in 0 .. MaxEdits
  BY DEF Kept
<1>4. MaxEdits + 1 \notin 0 .. MaxEdits
  BY SessionAssumption
<1> QED
  BY <1>1, <1>2, <1>3, <1>4

\* A request that is sent.
LEMMA AskedFor ==
    ASSUME NEW what \in {"me", "load", "save"}, NEW held \in Kept,
           token \in Users \cup {NoUser}, onWay' = Ask(what, held)
    PROVE  \E r \in Requests :
              /\ r.what = what /\ r.as = token /\ r.prefs = held
              /\ onWay' = onWay \cup {r}
<1> DEFINE r == [what |-> what, as |-> token, prefs |-> held]
<1>1. r \in Requests /\ r.what = what /\ r.as = token /\ r.prefs = held
  BY DEF Requests
<1>2. onWay' = onWay \cup {r}
  BY DEF Ask
<1> QED
  BY <1>1, <1>2

\* The initial states satisfy the invariant.
LEMMA InitSessionIInv == SessionInit => SessionIInv
<1> SUFFICES ASSUME SessionInit PROVE SessionIInv
  OBVIOUS
<1>1. SessionBase
  BY DefaultFacts, SessionAssumption DEF SessionInit, SessionBase
<1>2. AloneOK
  BY DefaultFacts DEF SessionInit, AloneOK, Mine
<1>3. SyncOK
  BY DEF SessionInit, SyncOK, Sent
<1> QED
  BY <1>1, <1>2, <1>3 DEF SessionIInv

\* Signing in: another user than the one before is no longer alone.
LEMMA SetAuthStep ==
    ASSUME SessionIInv, NEW u \in Users, SetAuth(u)
    PROVE  SessionIInv'
<1>1. /\ token' = u /\ user' = u /\ place' = "guard" /\ factorOf' = NoUser
      /\ memory' = memory \cup {u}
      /\ shared' = (shared \/ memory \ {u} # {})
      /\ UNCHANGED <<onWay, prefs, loaded, timer, onServer, edits, gap>>
  BY DEF SetAuth, prefVars
<1>2. SessionBase'
  BY <1>1 DEF SessionIInv, SessionBase
<1>3. ~shared' => ~shared /\ memory' = {u} /\ (memory # {} => memory = {u})
  BY <1>1
<1>4. AloneOK'
  BY <1>1, <1>3 DEF SessionIInv, AloneOK, Mine
<1>5. SyncOK'
  BY <1>1, <1>3 DEF SessionIInv, SyncOK, Sent
<1> QED
  BY <1>2, <1>4, <1>5 DEF SessionIInv

\* A page loaded anew keeps the token or nothing; saves that reach the server
\* are those of the one user.
LEMMA LoadPageStep ==
    ASSUME SessionIInv, NEW keeps \in {token, NoUser}, LoadPage(keeps)
    PROVE  SessionIInv'
<1> DEFINE Done(done, u) == {r.prefs : r \in {d \in done : d.as = u}}
<1>1. /\ token' = keeps /\ user' = (IF keeps = NoUser THEN NoUser ELSE user)
      /\ place' \in {"public", "guard"} /\ factorOf' = NoUser
      /\ memory' = {keeps} \ {NoUser} /\ onWay' = {}
      /\ prefs' = Defaults /\ loaded' = FALSE /\ timer' = NoTimer
      /\ UNCHANGED <<shared, edits, gap>>
  BY DEF LoadPage
<1>2. PICK done \in SUBSET Sent("save") :
        onServer' = [u \in Users |->
            IF Done(done, u) = {} THEN onServer[u] ELSE CHOOSE k \in Done(done, u) : TRUE]
  BY DEF LoadPage
<1>3. ASSUME NEW u \in Users
      PROVE  \/ onServer'[u] = onServer[u]
             \/ \E r \in onWay : r.as = u /\ onServer'[u] = r.prefs
  <2>1. CASE Done(done, u) = {}
    BY <1>2, <2>1
  <2>2. CASE Done(done, u) # {}
    <3>1. onServer'[u] = CHOOSE k \in Done(done, u) : TRUE
      BY <1>2, <2>2
    <3>2. (CHOOSE k \in Done(done, u) : TRUE) \in Done(done, u)
      BY <2>2
    <3>3. PICK r \in done : r.as = u /\ onServer'[u] = r.prefs
      BY <3>1, <3>2
    <3> QED
      BY <1>2, <3>3 DEF Sent
  <2> QED
    BY <2>1, <2>2
<1>4. DOMAIN onServer' = Users /\ onServer' = [u \in Users |-> onServer'[u]]
  BY <1>2
<1>5. \A u \in Users : onServer'[u] \in Kept
  BY <1>3 DEF SessionIInv, SessionBase, Requests
<1> HIDE DEF Done
<1>6. onServer' \in [Users -> Kept]
  BY <1>4, <1>5
<1>7. SessionBase'
  BY <1>1, <1>6, DefaultFacts, SessionAssumption DEF SessionIInv, SessionBase
<1>8. AloneOK'
  <2>1. ASSUME ~shared, NEW u \in Users PROVE onServer'[u].of \in {NoUser, u}
    BY <1>3, <2>1, SessionAssumption DEF SessionIInv, SessionBase, AloneOK, Mine
  <2>2. ~shared => (token # NoUser => user = token)
    BY DEF SessionIInv, AloneOK
  <2>3. \A a, b \in memory' : a = b
    BY <1>1
  <2>4. Mine(token)' /\ (~shared => (token' # NoUser => user' = token'))
    BY <1>1, <2>2 DEF Mine
  <2>5. Mine(prefs.of)' /\ Mine(timer.of)'
    BY <1>1, DefaultFacts DEF Mine
  <2> QED
    BY <1>1, <2>1, <2>3, <2>4, <2>5 DEF AloneOK
<1>9. SyncOK'
  BY <1>1 DEF SyncOK, Sent
<1> QED
  BY <1>7, <1>8, <1>9 DEF SessionIInv

\* Steps of the login pages and the guard, after which nobody is inside who was
\* not before.
LEMMA QuietStep ==
    ASSUME SessionIInv,
           \/ BackToLogin \/ SignOut \/ StatusArrives \/ StatusCollected \/ Redirect
           \/ \E u \in Users : AskSecondFactor(u)
    PROVE  SessionIInv'
<1>1. /\ UNCHANGED <<memory, shared, onWay, prefs, loaded, timer, onServer, edits, gap>>
      /\ (token' = token /\ user' = user) \/ token' = NoUser
      /\ place' = "inside" => place = "inside" /\ token' = token
      /\ factorOf' \in {factorOf, NoUser} \cup Users
  BY DEF BackToLogin, SignOut, StatusArrives, StatusCollected, Redirect, AskSecondFactor,
         prefVars
<1>2. SessionBase'
  BY <1>1 DEF SessionIInv, SessionBase
<1>3. AloneOK'
  BY <1>1 DEF SessionIInv, AloneOK, Mine
<1>4. SyncOK'
  BY <1>1 DEF SessionIInv, SyncOK, Sent
<1> QED
  BY <1>2, <1>3, <1>4 DEF SessionIInv

\* The application is entered, and asks for the preferences unless it has them.
LEMMA EnterStep ==
    ASSUME SessionIInv, Enter
    PROVE  SessionIInv'
<1>1. /\ place' = "inside" /\ token # NoUser
      /\ UNCHANGED <<token, user, factorOf, memory, shared, prefs, loaded, timer, onServer,
                     edits, gap>>
  BY DEF Enter, prefVars
<1>2. CASE loaded
  <2>1. onWay' = onWay
    BY <1>2 DEF Enter
  <2>2. SessionBase' /\ AloneOK'
    BY <1>1, <2>1 DEF SessionIInv, SessionBase, AloneOK, Mine
  <2>3. SyncOK'
    BY <1>1, <1>2, <2>1 DEF SessionIInv, SyncOK, Sent
  <2> QED
    BY <2>2, <2>3 DEF SessionIInv
<1>3. CASE ~loaded
  <2>1. PICK r \in Requests : /\ r.what = "load" /\ r.as = token /\ r.prefs = Defaults
                              /\ onWay' = onWay \cup {r}
    BY <1>3, AskedFor, DefaultFacts DEF Enter, SessionIInv, SessionBase
  <2>2. SessionBase'
    BY <1>1, <2>1 DEF SessionIInv, SessionBase
  <2>3. AloneOK'
    BY <1>1, <2>1, DefaultFacts DEF SessionIInv, AloneOK, Mine
  <2>4. Sent("save")' = Sent("save") /\ r \in Sent("load")'
    BY <2>1 DEF Sent
  <2>5. SyncOK'
    BY <1>1, <1>3, <2>4 DEF SessionIInv, SyncOK
  <2> QED
    BY <2>2, <2>3, <2>5 DEF SessionIInv
<1> QED
  BY <1>2, <1>3

\* Asking who is signed in.
LEMMA AskWhoStep ==
    ASSUME SessionIInv, AskWho
    PROVE  SessionIInv'
<1>1. /\ token # NoUser
      /\ UNCHANGED <<token, user, place, factorOf, memory, shared, prefs, loaded, timer,
                     onServer, edits, gap>>
  BY DEF AskWho, authVars, prefVars
<1>2. PICK r \in Requests : /\ r.what = "me" /\ r.as = token /\ r.prefs = Defaults
                            /\ onWay' = onWay \cup {r}
  BY AskedFor, DefaultFacts DEF AskWho, SessionIInv, SessionBase
<1>3. SessionBase'
  BY <1>1, <1>2 DEF SessionIInv, SessionBase
<1>4. AloneOK'
  BY <1>1, <1>2, DefaultFacts DEF SessionIInv, AloneOK, Mine
<1>5. Sent("save")' = Sent("save") /\ Sent("load")' = Sent("load")
  BY <1>2 DEF Sent
<1>6. SyncOK'
  BY <1>1, <1>5 DEF SessionIInv, SyncOK
<1> QED
  BY <1>3, <1>4, <1>6 DEF SessionIInv

\* The answer is about whoever asked: the one user.
LEMMA WhoArrivesStep ==
    ASSUME SessionIInv, NEW r \in onWay, WhoArrives(r)
    PROVE  SessionIInv'
<1>1. /\ r.what = "me" /\ onWay' = onWay \ {r} /\ user' = r.as
      /\ UNCHANGED <<token, place, factorOf, memory, shared, prefs, loaded, timer, onServer,
                     edits, gap>>
  BY DEF WhoArrives, prefVars
<1>2. SessionBase'
  BY <1>1 DEF SessionIInv, SessionBase
<1>3. ~shared /\ token # NoUser => user' = token
  BY <1>1 DEF SessionIInv, AloneOK, Mine
<1>4. AloneOK'
  BY <1>1, <1>3 DEF SessionIInv, AloneOK, Mine
<1>5. Sent("save")' = Sent("save") /\ Sent("load")' = Sent("load")
  BY <1>1 DEF Sent
<1>6. SyncOK'
  BY <1>1, <1>5 DEF SessionIInv, SyncOK
<1> QED
  BY <1>2, <1>4, <1>6 DEF SessionIInv

\* A call that fails is a gap, but for the question who is signed in.
LEMMA AnswerFailsStep ==
    ASSUME SessionIInv, NEW r \in onWay, AnswerFails(r)
    PROVE  SessionIInv'
<1>1. /\ onWay' = onWay \ {r}
      /\ loaded' = (loaded \/ r.what = "load") /\ gap' = (gap \/ r.what # "me")
      /\ UNCHANGED <<token, user, place, factorOf, memory, shared, prefs, timer, onServer,
                     edits>>
  BY DEF AnswerFails, authVars
<1>2. SessionBase'
  BY <1>1 DEF SessionIInv, SessionBase
<1>3. AloneOK'
  BY <1>1 DEF SessionIInv, AloneOK, Mine
<1>4. CASE r.what = "me"
  <2>1. Sent("save")' = Sent("save") /\ Sent("load")' = Sent("load")
        /\ (loaded' <=> loaded) /\ (gap' <=> gap)
    BY <1>1, <1>4 DEF Sent
  <2>2. SyncOK'
    BY <1>1, <2>1 DEF SessionIInv, SyncOK
  <2> QED
    BY <1>2, <1>3, <2>2 DEF SessionIInv
<1>5. CASE r.what # "me"
  <2>1. gap'
    BY <1>1, <1>5
  <2> QED
    BY <1>2, <1>3, <2>1 DEF SessionIInv, SyncOK
<1> QED
  BY <1>4, <1>5

\* The preferences arrive: nothing of them waited or was on its way.
LEMMA PrefsArriveStep ==
    ASSUME SessionIInv, NEW r \in onWay, PrefsArrive(r)
    PROVE  SessionIInv'
<1>1. /\ r.what = "load" /\ r.as # NoUser /\ onWay' = onWay \ {r}
      /\ prefs' = onServer[r.as] /\ loaded' = TRUE
      /\ gap' = (gap \/ timer # NoTimer \/ Sent("save") # {})
      /\ UNCHANGED <<token, user, place, factorOf, memory, shared, timer, onServer, edits>>
  BY DEF PrefsArrive, authVars
<1>2. r \in Requests /\ r.as \in Users /\ r.prefs = Defaults
  BY <1>1 DEF SessionIInv, SessionBase, Requests
<1>3. SessionBase'
  BY <1>1, <1>2 DEF SessionIInv, SessionBase
<1>4. ~shared => r.as \in memory /\ prefs'.of \in {NoUser, r.as}
  BY <1>1, <1>2 DEF SessionIInv, AloneOK
<1>5. AloneOK'
  BY <1>1, <1>4 DEF SessionIInv, AloneOK, Mine
<1>6. ASSUME ~shared, ~gap' PROVE timer = NoTimer /\ Sent("save") = {} /\ Sent("save")' = {}
                                  /\ Sent("load")' = {}
  <2>1. timer = NoTimer /\ Sent("save") = {}
    BY <1>1, <1>6
  <2>2. \A q \in onWay : q.what = "load" => q = r
    <3>1. ASSUME NEW q \in onWay, q.what = "load" PROVE q = r
      <4>1. q \in Requests /\ q.prefs = Defaults
        BY <3>1 DEF SessionIInv, SessionBase
      <4>2. q.as = r.as
        BY <1>4, <1>6, <3>1 DEF SessionIInv, AloneOK
      <4> QED
        BY <1>1, <1>2, <3>1, <4>1, <4>2 DEF Requests
    <3> QED
      BY <3>1
  <2> QED
    BY <1>1, <2>1, <2>2 DEF Sent
<1>7. SyncOK'
  <2>1. ASSUME ~shared, ~gap', NEW u \in memory PROVE onServer[u] = prefs'
    BY <1>1, <1>4, <2>1 DEF SessionIInv, AloneOK
  <2> QED
    BY <1>1, <1>4, <1>6, <2>1 DEF SyncOK
<1> QED
  BY <1>3, <1>5, <1>7 DEF SessionIInv

\* What was saved is on the server of the one user.
LEMMA PrefsSavedStep ==
    ASSUME SessionIInv, NEW r \in onWay, PrefsSaved(r)
    PROVE  SessionIInv'
<1>1. /\ r.what = "save" /\ r.as # NoUser /\ onWay' = onWay \ {r}
      /\ onServer' = [onServer EXCEPT ![r.as] = r.prefs]
      /\ UNCHANGED <<token, user, place, factorOf, memory, shared, prefs, loaded, timer,
                     edits, gap>>
  BY DEF PrefsSaved, authVars
<1>2. r \in Requests /\ r.as \in Users /\ r.prefs \in Kept
  BY <1>1 DEF SessionIInv, SessionBase, Requests
<1>3. SessionBase'
  BY <1>1, <1>2 DEF SessionIInv, SessionBase
<1>4. \A u \in Users : onServer'[u] = IF u = r.as THEN r.prefs ELSE onServer[u]
  BY <1>1, <1>2 DEF SessionIInv, SessionBase
<1>5. ~shared => r.as \in memory /\ r.prefs.of \in {NoUser, r.as}
  BY <1>1 DEF SessionIInv, AloneOK, Mine
<1>6. AloneOK'
  <2>1. ~shared => \A u \in Users : onServer'[u].of \in {NoUser, u}
    BY <1>4, <1>5 DEF SessionIInv, AloneOK
  <2> QED
    BY <1>1, <2>1 DEF SessionIInv, AloneOK, Mine
<1>7. r \in Sent("save") /\ Sent("load")' = Sent("load") /\ Sent("save")' \subseteq Sent("save")
  BY <1>1 DEF Sent
<1>8. SyncOK'
  <2>1. ASSUME ~shared, ~gap, timer = NoTimer, NEW u \in memory PROVE onServer'[u] = prefs
    <3>1. u = r.as /\ r.prefs = prefs /\ u \in Users
      BY <1>2, <1>5, <1>7, <2>1 DEF SessionIInv, SessionBase, AloneOK, SyncOK
    <3> QED
      BY <1>4, <3>1
  <2> QED
    BY <1>1, <1>7, <2>1 DEF SessionIInv, SyncOK
<1> QED
  BY <1>3, <1>6, <1>8 DEF SessionIInv

\* An edit is in the store and starts the timer; before the preferences are
\* there it is a gap.
LEMMA EditStep ==
    ASSUME SessionIInv, Edit
    PROVE  SessionIInv'
<1> DEFINE k == [of |-> IF prefs.of = NoUser THEN token ELSE prefs.of, n |-> edits + 1]
<1>1. /\ place = "inside" /\ edits < MaxEdits /\ edits' = edits + 1
      /\ prefs' = k /\ timer' = k
      /\ gap' = (gap \/ Sent("load") # {})
      /\ UNCHANGED <<token, user, place, factorOf, memory, shared, onWay, loaded, onServer>>
  BY DEF Edit, authVars
<1>2. k.of \in {token, prefs.of} /\ k \in Kept
  <2>1. edits + 1 \in 0 .. MaxEdits
    BY <1>1, SessionAssumption DEF SessionIInv, SessionBase
  <2>2. token \in Users \cup {NoUser} /\ prefs.of \in Users \cup {NoUser}
    BY DEF SessionIInv, SessionBase, Kept
  <2> QED
    BY <2>1, <2>2 DEF Kept
<1> HIDE DEF k
<1>3. edits' \in 0 .. MaxEdits
  BY <1>1, SessionAssumption DEF SessionIInv, SessionBase
<1>4. SessionBase'
  BY <1>1, <1>2, <1>3 DEF SessionIInv, SessionBase
<1>5. AloneOK'
  BY <1>1, <1>2 DEF SessionIInv, AloneOK, Mine
<1>6. timer' # NoTimer
  BY <1>1, <1>2, DefaultFacts
<1>7. SyncOK'
  <2>1. Sent("load")' = Sent("load") /\ Sent("save")' = Sent("save")
    BY <1>1 DEF Sent
  <2>2. ~shared /\ ~gap' => loaded
    BY <1>1 DEF SessionIInv, SyncOK
  <2> QED
    BY <1>1, <1>6, <2>1, <2>2 DEF SessionIInv, SyncOK
<1> QED
  BY <1>4, <1>5, <1>7 DEF SessionIInv

\* The timer sends what is shown; a second save beside another is a gap.
LEMMA FireStep ==
    ASSUME SessionIInv, Fire
    PROVE  SessionIInv'
<1>1. /\ timer # NoTimer /\ timer' = NoTimer /\ timer \in Kept
      /\ gap' = (gap \/ Sent("save") # {})
      /\ UNCHANGED <<token, user, place, factorOf, memory, shared, prefs, loaded, onServer,
                     edits>>
  BY DEF Fire, authVars, SessionIInv, SessionBase
<1>2. PICK r \in Requests : /\ r.what = "save" /\ r.as = token /\ r.prefs = timer
                            /\ onWay' = onWay \cup {r}
  BY <1>1, AskedFor DEF Fire, SessionIInv, SessionBase
<1>3. SessionBase'
  BY <1>1, <1>2 DEF SessionIInv, SessionBase
<1>4. AloneOK'
  BY <1>1, <1>2, DefaultFacts DEF SessionIInv, AloneOK, Mine
<1>5. Sent("load")' = Sent("load") /\ Sent("save")' = Sent("save") \cup {r}
  BY <1>2 DEF Sent
<1>6. SyncOK'
  BY <1>1, <1>2, <1>5 DEF SessionIInv, SyncOK
<1> QED
  BY <1>3, <1>4, <1>6 DEF SessionIInv

\* The invariant of the session.
THEOREM SessionInvariance == SessionSpec => []SessionIInv
<1>1. SessionIInv /\ [SessionNext]_sessionVars => SessionIInv'
  <2> SUFFICES ASSUME SessionIInv, [SessionNext]_sessionVars PROVE SessionIInv'
    OBVIOUS
  <2>1. ASSUME NEW u \in Users, SignIn(u) \/ FirstAccount(u) PROVE SessionIInv'
    BY <2>1, SetAuthStep DEF SignIn, FirstAccount
  <2>2. CASE SecondFactor
    <3>1. factorOf \in Users /\ SetAuth(factorOf)
      BY <2>2 DEF SecondFactor, SessionIInv, SessionBase
    <3> QED
      BY <3>1, SetAuthStep
  <2>3. CASE Reload \/ Unauthorized
    BY <2>3, LoadPageStep DEF Reload, Unauthorized
  <2>4. CASE UNCHANGED sessionVars
    <3>1. /\ UNCHANGED <<token, user, place, factorOf, memory, shared, onWay, prefs, loaded,
                         timer, onServer, edits, gap>>
          /\ Sent("load")' = Sent("load") /\ Sent("save")' = Sent("save")
      BY <2>4 DEF sessionVars, authVars, prefVars, Sent
    <3>2. SessionBase' /\ AloneOK'
      BY <3>1 DEF SessionIInv, SessionBase, AloneOK, Mine
    <3>3. SyncOK'
      BY <3>1 DEF SessionIInv, SyncOK
    <3> QED
      BY <3>2, <3>3 DEF SessionIInv
  <2> QED
    BY <2>1, <2>2, <2>3, <2>4, QuietStep, EnterStep, AskWhoStep, WhoArrivesStep,
       AnswerFailsStep, PrefsArriveStep, PrefsSavedStep, EditStep, FireStep DEF SessionNext
<1> QED
  BY <1>1, InitSessionIInv, PTL DEF SessionSpec

\* A user who is alone in the browser is the one who is shown, and has no other's
\* preferences, for any number of users, sign-ins and edits.
THEOREM OwnPreferences == SessionSpec => []OwnWhileAlone
<1>1. SessionIInv => OwnWhileAlone
  BY DEF SessionIInv, AloneOK, Mine, OwnWhileAlone
<1> QED
  BY <1>1, SessionInvariance, PTL

\* What the dashboard shows is what the server keeps when nothing is on its way,
\* but for the four lapses.
THEOREM ShownPreferences == SessionSpec => []ShownIsSaved
<1>1. ASSUME SessionIInv, ~gap, ~shared, place = "inside", timer = NoTimer,
             Sent("load") = {}, Sent("save") = {}
      PROVE  onServer[token] = prefs
  <2>1. token \in memory
    BY <1>1 DEF SessionIInv, SessionBase, AloneOK, Mine
  <2>2. loaded
    BY <1>1 DEF SessionIInv, SyncOK
  <2> QED
    BY <1>1, <2>1, <2>2 DEF SessionIInv, SyncOK
<1>2. SessionIInv => ShownIsSaved
  BY <1>1 DEF ShownIsSaved
<1> QED
  BY <1>2, SessionInvariance, PTL

-----------------------------------------------------------------------------
(***************************************************************************)
(* PageDialogs, for every table of dialogs in which each dialog starts     *)
(* over (DialogAssumption)                                                 *)
(***************************************************************************)

USE DialogAssumption

\* A dialog that is shown has the fields of the object it is shown for, or
\* empty ones, and was opened before.
ShownOK ==
    shown # Nothing => fields \in {shown, Nothing} /\ opening >= 1

\* A dialog that is shut keeps its fields only if the next opening sets them
\* or is for the same object.
ShutOK ==
    shown = Nothing => Has("seeded") \/ ~Has("aimed") \/ fields = Nothing

\* Nobody fills in a dialog without fields.
BlankOK == Has("typed") \/ Has("seeded") \/ fields = Nothing

AboutOK == shown \in About \cup {Nothing} /\ fields \in About \cup {Nothing}

DialogIInv ==
    /\ row \in Rows
    /\ DialogTypeOK /\ AboutOK /\ ShownOK /\ ShutOK /\ BlankOK
    /\ SentForItsTarget

\* What a dialog is about is among the objects.
LEMMA AboutType == About \subseteq Objects
BY DEF About

\* A dialog that is not aimed is about one object only.
LEMMA AboutOne ==
    ASSUME ~Has("aimed"), NEW a \in About, NEW b \in About
    PROVE  a = b
BY DEF About

\* The row that is followed starts over.
LEMMA RowStartsOver == ASSUME row \in Rows PROVE StartsOver(row)
OBVIOUS

\* Every way to shut a dialog leaves it shut as ShutOK asks, when the fields
\* are wiped wherever the row says so.
LEMMA ShutAgain ==
    ASSUME DialogIInv, row' = row, shown' = Nothing,
           Has("wiped") /\ ~Has("confirm")
             /\ ("shuts" \in row.ends => "clears" \in row.ends) => fields' = Nothing,
           fields' \in {fields, Nothing}
    PROVE  AboutOK' /\ ShownOK' /\ ShutOK' /\ BlankOK'
<1>1. StartsOver(row)
  BY RowStartsOver DEF DialogIInv
<1>2. ShutOK' /\ BlankOK'
  BY <1>1 DEF StartsOver, DialogIInv, ShutOK, BlankOK, Has
<1>3. About' = About
  BY DEF About, Has
<1>4. AboutOK' /\ ShownOK'
  BY <1>3 DEF DialogIInv, AboutOK, ShownOK
<1> QED
  BY <1>2, <1>4

\* The initial states satisfy the invariant.
LEMMA InitDialogIInv == DialogInit => DialogIInv
<1> SUFFICES ASSUME DialogInit PROVE DialogIInv
  OBVIOUS
<1>1. DialogTypeOK /\ SentForItsTarget
  BY DEF DialogInit, DialogTypeOK, SentForItsTarget
<1>2. AboutOK /\ ShownOK /\ ShutOK /\ BlankOK
  BY DEF DialogInit, AboutOK, ShownOK, ShutOK, BlankOK
<1> QED
  BY <1>1, <1>2 DEF DialogInit, DialogIInv

\* Opening a dialog sets the fields, or finds them empty, or filled in for the
\* one object there is.
LEMMA OpenForStep ==
    ASSUME DialogIInv, NEW o \in About, OpenFor(o)
    PROVE  DialogIInv'
<1>1. o \in Objects /\ o # Nothing
  BY AboutType
<1>2. row' = row /\ About' = About
  BY DEF OpenFor, About, Has
<1>3. DialogTypeOK'
  BY <1>1 DEF DialogIInv, DialogTypeOK, OpenFor
<1>4. fields' \in {o, Nothing}
  <2>1. CASE Has("seeded")
    BY <2>1 DEF OpenFor
  <2>2. CASE ~Has("seeded") /\ ~Has("aimed")
    BY <2>2, AboutOne DEF OpenFor, DialogIInv, AboutOK
  <2>3. CASE ~Has("seeded") /\ Has("aimed")
    BY <2>3 DEF OpenFor, DialogIInv, ShutOK
  <2> QED
    BY <2>1, <2>2, <2>3
<1>5. AboutOK' /\ ShownOK' /\ ShutOK'
  BY <1>1, <1>2, <1>4 DEF OpenFor, DialogIInv, DialogTypeOK, AboutOK, ShownOK, ShutOK
<1>6. BlankOK' /\ SentForItsTarget'
  BY <1>2 DEF OpenFor, DialogIInv, BlankOK, SentForItsTarget, Has
<1> QED
  BY <1>2, <1>3, <1>5, <1>6 DEF DialogIInv

\* Filling in is for what is shown.
LEMMA FillInStep == ASSUME DialogIInv, FillIn PROVE DialogIInv'
<1>1. row' = row /\ About' = About
  BY DEF FillIn, About, Has
<1>2. DialogTypeOK' /\ SentForItsTarget'
  BY DEF FillIn, DialogIInv, DialogTypeOK, SentForItsTarget
<1>3. AboutOK' /\ ShownOK' /\ ShutOK' /\ BlankOK'
  BY <1>1 DEF FillIn, DialogIInv, AboutOK, ShownOK, ShutOK, BlankOK, Has
<1> QED
  BY <1>1, <1>2, <1>3 DEF DialogIInv

\* What is sent is what is shown, with fields that ShownOK speaks of.
LEMMA PressButtonStep == ASSUME DialogIInv, PressButton PROVE DialogIInv'
<1> DEFINE r == [for |-> shown, text |-> fields, visit |-> visit, opening |-> opening]
<1>1. row' = row /\ About' = About
  BY DEF PressButton, About, Has
<1>2. shown \in Objects /\ fields \in {shown, Nothing} /\ opening \in 1 .. MaxOpened
  BY DEF PressButton, DialogIInv, DialogTypeOK, ShownOK
<1>3. r \in [for : Objects, text : Objects \cup {Nothing}, visit : 1 .. MaxVisits,
             opening : 1 .. MaxOpened]
  BY <1>2 DEF DialogIInv, DialogTypeOK
<1>4. sent' = sent \cup {r}
  BY DEF PressButton
<1>5. DialogTypeOK'
  BY <1>3, <1>4 DEF PressButton, DialogIInv, DialogTypeOK
<1>6. SentForItsTarget'
  BY <1>2, <1>4 DEF DialogIInv, SentForItsTarget
<1>7. AboutOK' /\ ShownOK' /\ ShutOK' /\ BlankOK'
  <2>1. CASE Has("confirm")
    BY <2>1, <1>1, ShutAgain DEF PressButton
  <2>2. CASE ~Has("confirm")
    BY <2>2, <1>1 DEF PressButton, DialogIInv, AboutOK, ShownOK, ShutOK, BlankOK, Has
  <2> QED
    BY <2>1, <2>2
<1> QED
  BY <1>1, <1>5, <1>6, <1>7 DEF DialogIInv

\* Cancel, and every other way the user shuts the dialog.
LEMMA CloseStep ==
    ASSUME DialogIInv, CancelDialog \/ Dismiss
    PROVE  DialogIInv'
<1>1. row' = row /\ shown' = Nothing /\ fields' \in {fields, Nothing}
  BY DEF CancelDialog, Dismiss
<1>2. Has("wiped") => fields' = Nothing
  BY DEF CancelDialog, Dismiss
<1>3. AboutOK' /\ ShownOK' /\ ShutOK' /\ BlankOK'
  BY <1>1, <1>2, ShutAgain
<1>4. DialogTypeOK' /\ SentForItsTarget'
  BY <1>1 DEF CancelDialog, Dismiss, DialogIInv, DialogTypeOK, SentForItsTarget
<1> QED
  BY <1>1, <1>3, <1>4 DEF DialogIInv

\* An answer takes its call away; what it shuts it has cleared if it must.
LEMMA SucceedStep ==
    ASSUME DialogIInv, NEW r \in sent, Succeed(r)
    PROVE  DialogIInv'
<1>1. row' = row /\ About' = About
  BY DEF Succeed, About, Has
<1>2. DialogTypeOK' /\ SentForItsTarget'
  BY DEF Succeed, DialogIInv, DialogTypeOK, SentForItsTarget
<1>3. fields' \in {fields, Nothing} /\ shown' \in {shown, Nothing}
  BY DEF Succeed
<1>4. AboutOK' /\ ShownOK' /\ ShutOK' /\ BlankOK'
  <2>1. CASE r.visit = visit /\ "shuts" \in row.ends
    <3>1. shown' = Nothing /\ ("clears" \in row.ends => fields' = Nothing)
      BY <2>1 DEF Succeed
    <3> QED
      BY <1>1, <1>3, <2>1, <3>1, ShutAgain
  <2>2. CASE ~(r.visit = visit /\ "shuts" \in row.ends)
    <3>1. shown' = shown /\ opening' = opening
      BY <2>2 DEF Succeed
    <3> QED
      BY <1>1, <1>3, <3>1 DEF DialogIInv, AboutOK, ShownOK, ShutOK, BlankOK, Has
  <2> QED
    BY <2>1, <2>2
<1> QED
  BY <1>1, <1>2, <1>4 DEF DialogIInv

\* A failed call takes only itself away.
LEMMA FailStep ==
    ASSUME DialogIInv, NEW r \in sent, Fail(r)
    PROVE  DialogIInv'
<1>1. row' = row /\ About' = About
  BY DEF Fail, About, Has
<1>2. DialogTypeOK' /\ SentForItsTarget'
  BY DEF Fail, DialogIInv, DialogTypeOK, SentForItsTarget
<1>3. AboutOK' /\ ShownOK' /\ ShutOK' /\ BlankOK'
  BY <1>1 DEF Fail, DialogIInv, AboutOK, ShownOK, ShutOK, BlankOK, Has
<1> QED
  BY <1>1, <1>2, <1>3 DEF DialogIInv

\* The page mounted again starts with nothing shown and nothing filled in.
LEMMA RemountStep == ASSUME DialogIInv, Remount PROVE DialogIInv'
<1>1. row' = row /\ About' = About
  BY DEF Remount, About, Has
<1>2. DialogTypeOK' /\ SentForItsTarget'
  BY DEF Remount, DialogIInv, DialogTypeOK, SentForItsTarget
<1>3. AboutOK' /\ ShownOK' /\ ShutOK' /\ BlankOK'
  BY <1>1 DEF Remount, AboutOK, ShownOK, ShutOK, BlankOK
<1> QED
  BY <1>1, <1>2, <1>3 DEF DialogIInv

\* A step that changes nothing preserves the invariant.
LEMMA DialogStutter == ASSUME DialogIInv, UNCHANGED dialogVars PROVE DialogIInv'
BY DEF dialogVars, DialogIInv, DialogTypeOK, AboutOK, ShownOK, ShutOK, BlankOK,
       SentForItsTarget, About, Has

\* The invariant is one: DialogIInv holds in every state of every behaviour.
THEOREM DialogInvariance == DialogSpec => []DialogIInv
<1>1. DialogIInv /\ [DialogNext]_dialogVars => DialogIInv'
  <2> SUFFICES ASSUME DialogIInv, [DialogNext]_dialogVars PROVE DialogIInv'
    OBVIOUS
  <2> QED
    BY OpenForStep, FillInStep, PressButtonStep, CloseStep, SucceedStep, FailStep,
       RemountStep, DialogStutter
    DEF DialogNext
<1> QED
  BY <1>1, InitDialogIInv, PTL DEF DialogSpec

\* What was filled in for one object is never sent for another, whatever is
\* opened, answered, failed or mounted again meanwhile: PageDialogs' rows for
\* the dialogs of UsersPage, SchedulesPage, WebhooksPage and the others.
THEOREM DialogsSendWhatTheyShow == DialogSpec => []SentForItsTarget
<1>1. DialogIInv => SentForItsTarget
  BY DEF DialogIInv
<1> QED
  BY <1>1, DialogInvariance, PTL

\* The variables of a dialog keep their types.
THEOREM DialogTypes == DialogSpec => []DialogTypeOK
<1>1. DialogIInv => DialogTypeOK
  BY DEF DialogIInv
<1> QED
  BY <1>1, DialogInvariance, PTL

-----------------------------------------------------------------------------
(***************************************************************************)
(* The types of the parts whose invariants above leave some of them out.   *)
(***************************************************************************)

\* A row's handle, and how many rows can be ticked.
LEMMA HandleType ==
    ASSUME SelectionTypeOK, NEW o \in Listed
    PROVE  Handle(o) \in 0 .. MaxObjects
<1>1. /\ MaxObjects \in Nat /\ Listed \subseteq 1 .. MaxObjects
  BY SelectionAssumption DEF SelectionTypeOK, Listed, Ids
<1> DEFINE above == {p \in Listed : p > o}
<1>2. IsFiniteSet(1 .. MaxObjects) /\ Cardinality(1 .. MaxObjects) = MaxObjects
  BY <1>1, FS_Interval
<1>3. above \subseteq 1 .. MaxObjects
  BY <1>1
<1> HIDE DEF above
<1>4. IsFiniteSet(above) /\ Cardinality(above) <= Cardinality(1 .. MaxObjects)
  BY <1>2, <1>3, FS_Subset
<1>5. Cardinality(above) \in 0 .. MaxObjects
  BY <1>1, <1>2, <1>4, FS_CardinalityType
<1> QED
  BY <1>1, <1>5 DEF Handle, Place, above

\* There are no more ticks than rows or ids.
LEMMA TickedCount ==
    ASSUME SelectionTypeOK
    PROVE  Cardinality(ticked) \in 0 .. MaxObjects + 1
<1>1. MaxObjects \in Nat /\ ticked \subseteq 0 .. MaxObjects
  BY SelectionAssumption DEF SelectionTypeOK
<1>2. IsFiniteSet(0 .. MaxObjects) /\ Cardinality(0 .. MaxObjects) = MaxObjects + 1
  BY <1>1, FS_Interval
<1>3. IsFiniteSet(ticked) /\ Cardinality(ticked) <= Cardinality(0 .. MaxObjects)
  BY <1>1, <1>2, FS_Subset
<1> QED
  BY <1>1, <1>2, <1>3, FS_CardinalityType

\* Ticking keeps the types: what is ticked is a row or an id of the list.
LEMMA TicksTypeStep ==
    ASSUME SelectionTypeOK, ToggleAll \/ \E o \in Listed : Toggle(o)
    PROVE  SelectionTypeOK'
<1>0. Listed \subseteq Ids
  BY DEF SelectionTypeOK, Listed
<1>1. /\ ticked' \subseteq ticked \cup {Handle(o) : o \in Listed}
      /\ meant' \subseteq meant \cup Listed
      /\ moved' \in BOOLEAN
      /\ UNCHANGED <<list, typeShown, objects, listing, created, bulk>>
  BY DEF ToggleAll, Toggle, SelectionTypeOK
<1>2. ticked' \subseteq 0 .. MaxObjects
  BY <1>1, HandleType DEF SelectionTypeOK
<1> QED
  BY <1>0, <1>1, <1>2 DEF SelectionTypeOK

\* A bulk call is about objects of the types it was made for.
LEMMA BulkTypeStep ==
    ASSUME SelectionTypeOK, ConfirmBulk
    PROVE  SelectionTypeOK'
<1> DEFINE b == [hits |-> Selected, meant |-> meant,
                 counted |-> Cardinality(ticked), moved |-> moved]
<1>1. Selected \in SUBSET Ids
  BY DEF Selected, SelectionTypeOK, Listed
<1>2. b \in [hits : SUBSET Ids, meant : SUBSET Ids, counted : 0 .. MaxObjects + 1,
             moved : BOOLEAN]
  BY <1>1, TickedCount DEF SelectionTypeOK
<1>3. bulk' = bulk \cup {b}
      /\ UNCHANGED <<list, typeShown, objects, listing, created, ticked, meant, moved>>
  BY DEF ConfirmBulk
<1> HIDE DEF b
<1> QED
  BY <1>2, <1>3 DEF SelectionTypeOK

\* So do refetches, routes, creations, deletions and answers.
LEMMA ListTypeStep ==
    ASSUME SelectionTypeOK,
           \/ ClearSelection \/ Refetch \/ UNCHANGED selectionVars
           \/ \E t \in ObjectTypes :
                 SwitchType(t) \/ CreateObject(t) \/ \E o \in objects[t] : DeleteObject(t, o)
           \/ \E b \in bulk : BulkDone(b) \/ BulkFails(b)
    PROVE  SelectionTypeOK'
<1>1. CASE ClearSelection \/ UNCHANGED selectionVars
  BY <1>1 DEF ClearSelection, Cleared, selectionVars, SelectionTypeOK
<1>2. CASE Refetch
  BY <1>2 DEF Refetch, SelectionTypeOK
<1>3. ASSUME NEW t \in ObjectTypes, SwitchType(t) PROVE SelectionTypeOK'
  BY <1>3 DEF SwitchType, SelectionTypeOK
<1>4. ASSUME NEW t \in ObjectTypes, CreateObject(t) PROVE SelectionTypeOK'
  <2>1. created' \in 0 .. MaxObjects /\ created + 1 \in Ids
    BY <1>4, SelectionAssumption DEF CreateObject, SelectionTypeOK, Ids
  <2> QED
    BY <1>4, <2>1 DEF CreateObject, SelectionTypeOK
<1>5. ASSUME NEW t \in ObjectTypes, NEW o, DeleteObject(t, o) PROVE SelectionTypeOK'
  BY <1>5 DEF DeleteObject, SelectionTypeOK
<1>6. ASSUME NEW b \in bulk, BulkDone(b) \/ BulkFails(b) PROVE SelectionTypeOK'
  BY <1>6 DEF BulkDone, BulkFails, Cleared, SelectionTypeOK
<1> QED
  BY <1>1, <1>2, <1>3, <1>4, <1>5, <1>6

\* Type correctness of the lists, their ticks and bulk calls, for any types and objects.
THEOREM SelectionTypes == SelectionSpec => []SelectionTypeOK
<1>1. SelectionInit => SelectionTypeOK
  <2>1. 0 \in 0 .. MaxObjects
    BY SelectionAssumption
  <2>2. [t \in ObjectTypes |-> {}] \in [ObjectTypes -> SUBSET Ids]
    OBVIOUS
  <2> QED
    BY <2>1, <2>2, Zenon DEF SelectionInit, SelectionTypeOK
<1>2. SelectionTypeOK /\ [SelectionNext]_selectionVars => SelectionTypeOK'
  BY TicksTypeStep, BulkTypeStep, ListTypeStep DEF SelectionNext
<1> QED
  BY <1>1, <1>2, PTL DEF SelectionSpec

\* The effect sets the timer for the job it ran for, or none.
LEMMA JobPageTypeStep ==
    ASSUME JobPageTypeOK, [JobPageNext]_jobPageVars
    PROVE  JobPageTypeOK'
<1>1. ASSUME NEW j \in Jobs, GoTo(j) PROVE JobPageTypeOK'
  <2>1. jobCache[j] \in {NoJob, "running", "over"} /\ moves' \in 0 .. MaxMoves
    BY <1>1, JobPageAssumption DEF JobPageTypeOK, GoTo
  <2>2. /\ effectFor' \in {NoJob, j} /\ pollTimer' \in {NoJob, effectFor'}
        /\ jobStatus' \in {"running", "over"} /\ outputOf' \in Jobs \cup {NoJob}
    BY <1>1, <2>1, JobPageAssumption DEF JobPageTypeOK, GoTo, RunEffect
  <2> QED
    BY <1>1, <2>1, <2>2 DEF JobPageTypeOK, GoTo
<1>2. ASSUME NEW j \in Jobs, LoadJob(j) PROVE JobPageTypeOK'
  <2>1. StatusOf(j) \in {"running", "over"}
    BY DEF StatusOf
  <2>2. /\ effectFor' \in {NoJob, jobRoute} /\ pollTimer' \in {NoJob, effectFor'}
        /\ jobStatus' \in {"running", "over"} /\ outputOf' \in Jobs \cup {NoJob}
    <3>1. CASE j = jobRoute /\ effectFor = NoJob
      BY <1>2, <2>1, <3>1, JobPageAssumption DEF JobPageTypeOK, LoadJob, RunEffect
    <3>2. CASE ~(j = jobRoute /\ effectFor = NoJob)
      BY <1>2, <3>2 DEF JobPageTypeOK, LoadJob
    <3> QED
      BY <3>1, <3>2
  <2> QED
    BY <1>2, <2>1, <2>2 DEF JobPageTypeOK, LoadJob
<1>3. CASE Tick
  <2>1. pollTimer \in Jobs /\ StatusOf(pollTimer) \in {"running", "over"}
    BY <1>3 DEF Tick, JobPageTypeOK, StatusOf
  <2>2. PICK n \in 1 .. MaxPolls :
          polls' = polls \cup {[slot |-> n, of |-> pollTimer, saw |-> StatusOf(pollTimer)]}
    BY <1>3 DEF Tick
  <2>3. polls' \subseteq [slot : 1 .. MaxPolls, of : Jobs, saw : {"running", "over"}]
    BY <2>1, <2>2 DEF JobPageTypeOK
  <2> QED
    BY <1>3, <2>3 DEF Tick, JobPageTypeOK
<1>4. ASSUME NEW p \in polls, AnswerPoll(p) \/ PollFails(p) PROVE JobPageTypeOK'
  <2>1. p.of \in Jobs /\ p.saw \in {"running", "over"}
    BY DEF JobPageTypeOK
  <2> QED
    BY <1>4, <2>1 DEF AnswerPoll, PollFails, JobPageTypeOK
<1>5. ASSUME NEW j \in Jobs, JobEnds(j) \/ LoadFails(j) PROVE JobPageTypeOK'
  BY <1>5 DEF JobEnds, LoadFails, JobPageTypeOK
<1>6. CASE UNCHANGED jobPageVars
  BY <1>6 DEF jobPageVars, JobPageTypeOK
<1> QED
  BY <1>1, <1>2, <1>3, <1>4, <1>5, <1>6 DEF JobPageNext

\* Type correctness of the job page and its polls, whatever is fair.
THEOREM JobPageTypes == JobPageInit /\ [][JobPageNext]_jobPageVars => []JobPageTypeOK
<1>1. JobPageInit => JobPageTypeOK
  <2>1. 0 \in 0 .. MaxMoves
    BY JobPageAssumption
  <2>2. [j \in Jobs |-> NoJob] \in [Jobs -> {NoJob, "running", "over"}]
    OBVIOUS
  <2> QED
    BY <2>1, <2>2 DEF JobPageInit, JobPageTypeOK
<1> QED
  BY <1>1, JobPageTypeStep, PTL

\* Connections are numbered in the order they are started.
LEMMA TerminalTypeStep ==
    ASSUME TerminalTypeOK, Numbered, [TerminalNext]_terminalVars
    PROVE  TerminalTypeOK' /\ Numbered'
<1> DEFINE States == {"delayed", "loading", "opening", "open", "closing", "closed", "dropped"}
<1>1. PICK n \in Nat : DOMAIN sockets = 1 .. n
  BY DEF Numbered
<1>2. Cardinality(DOMAIN sockets) = n
  BY <1>1, FS_Interval
<1>3. \A t \in 1 .. n : sockets[t] \in States
  BY <1>1 DEF TerminalTypeOK
<1>4. DOMAIN AfterCleanup = 1 .. n /\ \A t \in 1 .. n : AfterCleanup[t] \in States
  BY <1>1, <1>3 DEF AfterCleanup
<1>5. CASE Connect
  <2>1. PICK first \in {"delayed", "loading"} :
          sockets' = [t \in 1 .. n + 1 |-> IF t = n + 1 THEN first ELSE AfterCleanup[t]]
    BY <1>2, <1>5 DEF Connect
  <2>2. DOMAIN sockets' = 1 .. n + 1 /\ \A t \in 1 .. n + 1 : sockets'[t] \in States
    BY <1>4, <2>1
  <2>3. DOMAIN sockets' = 1 .. Cardinality(DOMAIN sockets')
    BY <1>1, <2>2, FS_Interval
  <2>4. /\ terminalShown' \in BOOLEAN /\ crowded' \in BOOLEAN /\ wsRef' \in {0} \cup 1 .. n + 1
        /\ terminalStatus' = terminalStatus
    BY <1>1, <1>5 DEF Connect, TerminalTypeOK
  <2> QED
    BY <2>2, <2>3, <2>4 DEF TerminalTypeOK, Numbered
<1>6. CASE Leave
  <2>1. sockets' = AfterCleanup /\ UNCHANGED <<wsRef, terminalStatus, crowded>>
        /\ terminalShown' = FALSE
    BY <1>6 DEF Leave
  <2>2. DOMAIN sockets' = DOMAIN sockets
    BY <1>1, <1>4, <2>1
  <2> QED
    BY <1>1, <1>4, <2>1, <2>2 DEF TerminalTypeOK, Numbered
<1>7. ASSUME NEW t \in DOMAIN sockets,
             DelayOver(t) \/ CodeLoaded(t) \/ CodeFails(t) \/ Opened(t) \/ Closed(t)
      PROVE  TerminalTypeOK' /\ Numbered'
  <2>1. PICK s \in States : sockets' = [sockets EXCEPT ![t] = s]
    BY <1>7 DEF DelayOver, CodeLoaded, CodeFails, Opened, Closed, SetSocket
  <2>2. /\ wsRef' \in {wsRef, t} /\ terminalShown' = terminalShown /\ crowded' = crowded
        /\ terminalStatus' \in {terminalStatus, "connecting", "connected", "disconnected"}
    BY <1>7 DEF DelayOver, CodeLoaded, CodeFails, Opened, Closed
  <2>3. DOMAIN sockets' = DOMAIN sockets
        /\ \A u \in DOMAIN sockets : sockets'[u] \in {sockets[u], s}
    BY <2>1
  <2> QED
    BY <1>1, <2>1, <2>2, <2>3 DEF TerminalTypeOK, Numbered
<1>8. CASE UNCHANGED terminalVars
  BY <1>8 DEF terminalVars, TerminalTypeOK, Numbered
<1>9. ASSUME NEW t \in DOMAIN sockets, Errored(t) PROVE TerminalTypeOK' /\ Numbered'
  <2>1. /\ UNCHANGED <<terminalShown, sockets, wsRef, crowded>>
        /\ terminalStatus' \in {"disconnected", "error"}
    BY <1>9 DEF Errored
  <2> QED
    BY <2>1 DEF TerminalTypeOK, Numbered
<1> QED
  BY <1>5, <1>6, <1>7, <1>8, <1>9 DEF TerminalNext

\* Type correctness of the terminal's sockets, however many connections are started.
THEOREM TerminalTypes == TerminalSpec => []TerminalTypeOK
<1>1. ASSUME TerminalInit PROVE TerminalTypeOK /\ Numbered
  <2>1. DOMAIN sockets = {} /\ {} = 1 .. 0 /\ Cardinality({}) = 0
    BY <1>1, FS_EmptySet DEF TerminalInit
  <2>2. Numbered
    BY <2>1 DEF Numbered
  <2>3. /\ DOMAIN sockets = 1 .. Cardinality(DOMAIN sockets) /\ wsRef \in {0} \cup DOMAIN sockets
        /\ \A t \in DOMAIN sockets : FALSE
    BY <1>1, <2>1 DEF TerminalInit
  <2> QED
    BY <1>1, <2>2, <2>3 DEF TerminalInit, TerminalTypeOK
<1> QED
  BY <1>1, TerminalTypeStep, PTL DEF TerminalSpec

\* The browser has of each target a state the server had, or nothing.
FormTyped == FormTypeOK /\ known \in [Targets -> Nat \cup {Unread}]

\* What a form may hold: empty, filled from a version of a target, typed in.
LEMMA TextTypes ==
    /\ Blank \in Texts
    /\ \A t \in Targets, ver \in 0 .. MaxSaves : Filled(t, ver) \in Texts
    /\ \A d \in Texts :
         /\ [d EXCEPT !.typed = FALSE] \in Texts
         /\ [d EXCEPT !.typed = TRUE, !.loose = FALSE] \in Texts
         /\ [d EXCEPT !.taken = TRUE] \in Texts
         /\ [d EXCEPT !.loose = d.typed] \in Texts
<1>1. 0 \in 0 .. MaxSaves
  BY FormAssumption
<1> QED
  BY <1>1 DEF Blank, Texts, Filled

\* An answer that seeds the form keeps the types.
LEMMA FormArrivesTypes ==
    ASSUME FormTyped, NEW t \in Targets, FormArrives(t)
    PROVE  FormTyped'
<1>1. /\ saved[t] \in 1 .. MaxSaves /\ saved[t] \in Nat /\ MaxSaves \in Nat
      /\ saved[t] \in 1 .. saved[t] /\ saved[t] \in 0 .. MaxSaves
  BY FormAssumption DEF FormTyped, FormTypeOK
<1>2. /\ known' = [known EXCEPT ![t] = saved[t]]
      /\ draft' = Filled(t, saved[t]) \/ draft' = draft
      /\ arriving' = arriving \ {t} /\ UNCHANGED <<form, formFor, saved, dirty, save>>
  BY DEF FormArrives
<1>3. draft' \in Texts
  <2>1. Filled(t, saved[t]) \in Texts
    BY <1>1, TextTypes
  <2> QED
    BY <1>2, <2>1 DEF FormTyped, FormTypeOK
<1>4. known' \in [Targets -> Nat \cup {Unread}]
  BY <1>1, <1>2 DEF FormTyped
<1>5. \A u \in Targets : known'[u] = Unread \/ known'[u] \in 1 .. saved'[u]
  BY <1>1, <1>2 DEF FormTyped, FormTypeOK
<1> QED
  BY <1>2, <1>3, <1>4, <1>5 DEF FormTyped, FormTypeOK

\* So do another file and a route to another target.
LEMMA GoToTypes ==
    ASSUME FormTyped, NEW t \in Targets, SelectFile(t) \/ Route(t)
    PROVE  FormTyped'
<1>1. known[t] # Unread => Filled(t, known[t]) \in Texts
  <2>1. known[t] # Unread => known[t] \in 0 .. MaxSaves
    BY FormAssumption DEF FormTyped, FormTypeOK
  <2> QED
    BY <2>1, TextTypes
<1>2. /\ draft \in Texts /\ Given \in Texts
      /\ [draft EXCEPT !.taken = TRUE] \in Texts /\ [Given EXCEPT !.taken = TRUE] \in Texts
  BY TextTypes DEF Given, FormTyped, FormTypeOK
<1>3. form \in {"config", "role", "budget", "object"}
  BY FormAssumption DEF FormTyped, FormTypeOK
<1>4. draft' \in Texts /\ dirty' \in BOOLEAN
  BY <1>1, <1>2, <1>3 DEF SelectFile, Route, Shown, FormTyped, FormTypeOK
<1>5. formFor' = t /\ arriving' = arriving \cup {t} /\ UNCHANGED <<form, saved, known, save>>
  BY DEF SelectFile, Route, MoveTo
<1> QED
  BY <1>4, <1>5 DEF FormTyped, FormTypeOK

\* So does the edit button.
LEMMA StartEditTypes ==
    ASSUME FormTyped, StartEdit
    PROVE  FormTyped'
<1>1. formFor \in Targets /\ known[formFor] \in 0 .. MaxSaves
  BY FormAssumption DEF StartEdit, FormTyped, FormTypeOK
<1>2. draft' \in Texts
  BY <1>1, TextTypes DEF StartEdit
<1> QED
  BY <1>2 DEF StartEdit, FormTyped, FormTypeOK

\* The server's copy of a target gets a new state.
LEMMA SavedTypes ==
    ASSUME FormTyped, NEW t \in Targets, saved[t] < MaxSaves,
           saved' = [saved EXCEPT ![t] = @ + 1], known' = known
    PROVE  /\ saved' \in [Targets -> 1 .. MaxSaves]
           /\ known' \in [Targets -> Nat \cup {Unread}]
           /\ \A u \in Targets : known'[u] = Unread \/ known'[u] \in 1 .. saved'[u]
<1>1. MaxSaves \in Nat /\ saved \in [Targets -> 1 .. MaxSaves] /\ saved[t] \in 1 .. MaxSaves
  BY FormAssumption DEF FormTyped, FormTypeOK
<1>2. saved[t] + 1 \in 1 .. MaxSaves
  BY <1>1
<1>3. saved' \in [Targets -> 1 .. MaxSaves]
  BY <1>1, <1>2
<1>4. ASSUME NEW u \in Targets PROVE known'[u] = Unread \/ known'[u] \in 1 .. saved'[u]
  <2>1. saved[u] \in 1 .. MaxSaves /\ saved'[u] \in {saved[u], saved[u] + 1}
    BY <1>1
  <2> QED
    BY <2>1, <1>1 DEF FormTyped, FormTypeOK
<1> QED
  BY <1>3, <1>4 DEF FormTyped

\* So do saves that arrive, restored versions and saves by others.
LEMMA SavingTypes ==
    ASSUME FormTyped, Saved => save.to \in Targets,
           Saved \/ Restored \/ \E t \in Targets : OthersSave(t)
    PROVE  FormTyped'
<1>1. /\ formFor \in Targets /\ draft \in Texts /\ arriving \subseteq Targets
      /\ save \in [busy : BOOLEAN, to : Targets \cup {Unread}, text : Texts, read : BOOLEAN,
              typedOn : BOOLEAN]
  BY DEF FormTyped, FormTypeOK
<1>2. [draft EXCEPT !.typed = FALSE] \in Texts /\ Given \in Texts
  BY <1>1, TextTypes DEF Given
<1>3. NoSave \in [busy : BOOLEAN, to : Targets \cup {Unread}, text : Texts, read : BOOLEAN,
              typedOn : BOOLEAN]
  BY TextTypes DEF NoSave
<1>4. PICK t \in Targets : saved[t] < MaxSaves /\ saved' = [saved EXCEPT ![t] = @ + 1]
                           /\ UNCHANGED <<form, formFor, known>>
  BY <1>1 DEF Saved, Restored, OthersSave
<1>5. /\ saved' \in [Targets -> 1 .. MaxSaves]
      /\ known' \in [Targets -> Nat \cup {Unread}]
      /\ \A u \in Targets : known'[u] = Unread \/ known'[u] \in 1 .. saved'[u]
  BY <1>4, SavedTypes
<1>6. /\ arriving' \subseteq arriving \cup {formFor} /\ dirty' \in {dirty, FALSE}
      /\ draft' \in {draft, Given, [draft EXCEPT !.typed = FALSE]} /\ save' \in {save, NoSave}
  BY DEF Saved, Restored, OthersSave
<1> QED
  BY <1>1, <1>2, <1>3, <1>4, <1>5, <1>6 DEF FormTyped, FormTypeOK

\* So do typing, cancelling, sending and failures.
LEMMA TypingTypes ==
    ASSUME FormTyped,
           \/ SelectAgain \/ CancelEdit \/ TypeIn \/ PressSave \/ SaveFails
           \/ UNCHANGED formVars \/ \E t \in Targets : FormFetchFails(t)
    PROVE  FormTyped'
<1>1. /\ formFor \in Targets /\ draft \in Texts /\ save.busy \in BOOLEAN
  BY DEF FormTyped, FormTypeOK
<1>2. [draft EXCEPT !.typed = TRUE, !.loose = FALSE] \in Texts /\ Given \in Texts
  BY <1>1, TextTypes DEF Given
<1>3. NoSave \in [busy : BOOLEAN, to : Targets \cup {Unread}, text : Texts, read : BOOLEAN,
              typedOn : BOOLEAN]
  BY TextTypes DEF NoSave
<1>4. CASE SelectAgain \/ CancelEdit \/ UNCHANGED formVars \/ \E t \in Targets : FormFetchFails(t)
  BY <1>2, <1>4 DEF SelectAgain, CancelEdit, formVars, FormFetchFails, FormTyped, FormTypeOK
<1>5. CASE TypeIn
  <2>1. dirty' \in BOOLEAN
    BY <1>5 DEF TypeIn, FormTyped, FormTypeOK
  <2>2. save' \in [busy : BOOLEAN, to : Targets \cup {Unread}, text : Texts, read : BOOLEAN,
                   typedOn : BOOLEAN]
    BY <1>1, <1>5 DEF TypeIn, FormTyped, FormTypeOK
  <2> QED
    BY <1>2, <1>5, <2>1, <2>2 DEF TypeIn, FormTyped, FormTypeOK
<1>6. CASE PressSave
  <2>1. save' \in [busy : BOOLEAN, to : Targets \cup {Unread}, text : Texts, read : BOOLEAN,
              typedOn : BOOLEAN]
    BY <1>1, <1>6 DEF PressSave
  <2> QED
    BY <1>6, <2>1 DEF PressSave, FormTyped, FormTypeOK
<1>7. CASE SaveFails
  BY <1>3, <1>7 DEF SaveFails, FormTyped, FormTypeOK
<1> QED
  BY <1>4, <1>5, <1>6, <1>7

\* A save that is on its way has a target.
SaveAimed == save.busy => save.to \in Targets

\* A save on its way is for one of the targets.
LEMMA SaveAimedStep ==
    ASSUME FormTyped, SaveAimed, [FormNext]_formVars
    PROVE  SaveAimed'
<1>1. formFor \in Targets
  BY DEF FormTyped, FormTypeOK
<1>2. CASE PressSave
  BY <1>1, <1>2 DEF PressSave, SaveAimed
<1>3. CASE Saved \/ SaveFails
  <2>1. save' = NoSave
    BY <1>3 DEF Saved, SaveFails
  <2>2. ~ NoSave.busy
    BY DEF NoSave
  <2> QED
    BY <2>1, <2>2 DEF SaveAimed
<1>4. CASE SelectAgain \/ StartEdit \/ CancelEdit \/ Restored \/ UNCHANGED formVars
  BY <1>4 DEF SelectAgain, StartEdit, CancelEdit, Restored, formVars, SaveAimed
<1>6. CASE TypeIn
  <2>1. save'.busy = save.busy /\ save'.to = save.to
    BY <1>6 DEF TypeIn, FormTyped, FormTypeOK
  <2> QED
    BY <2>1 DEF SaveAimed
<1>5. ASSUME NEW t \in Targets,
             \/ FormArrives(t) \/ FormFetchFails(t) \/ SelectFile(t) \/ Route(t) \/ OthersSave(t)
      PROVE  SaveAimed'
  BY <1>5 DEF FormArrives, FormFetchFails, SelectFile, Route, MoveTo, OthersSave, SaveAimed
<1> QED
  BY <1>2, <1>3, <1>4, <1>5, <1>6 DEF FormNext

\* Type correctness of the forms, for any targets and number of saves.
THEOREM FormTypes == FormSpec => []FormTypeOK
<1>1. FormInit => FormTyped /\ SaveAimed
  <2> SUFFICES ASSUME FormInit PROVE FormTyped /\ SaveAimed
    OBVIOUS
  <2>1. 1 \in 1 .. MaxSaves
    BY FormAssumption
  <2>2. /\ saved \in [Targets -> 1 .. MaxSaves] /\ known \in [Targets -> Nat \cup {Unread}]
        /\ \A t \in Targets : known[t] = Unread
    BY <2>1 DEF FormInit
  <2>3. /\ save \in [busy : BOOLEAN, to : Targets \cup {Unread}, text : Texts, read : BOOLEAN,
              typedOn : BOOLEAN]
        /\ ~save.busy
    BY TextTypes DEF FormInit, NoSave
  <2> QED
    BY <2>2, <2>3, TextTypes DEF FormInit, FormTyped, FormTypeOK, SaveAimed
<1>2. FormTyped /\ SaveAimed /\ [FormNext]_formVars => FormTyped' /\ SaveAimed'
  <2> SUFFICES ASSUME FormTyped, SaveAimed, [FormNext]_formVars PROVE FormTyped'
    BY SaveAimedStep
  <2>1. Saved => save.to \in Targets
    BY DEF Saved, SaveAimed
  <2>2. CASE Saved \/ Restored \/ \E t \in Targets : OthersSave(t)
    BY <2>1, <2>2, SavingTypes
  <2> QED
    BY <2>2, FormArrivesTypes, GoToTypes, StartEditTypes, TypingTypes DEF FormNext
<1>3. FormTyped => FormTypeOK
  BY DEF FormTyped
<1> QED
  BY <1>1, <1>2, <1>3, PTL DEF FormSpec

\* What SessionTypeOK says beyond SessionBase.
MoreSessionTypes ==
    /\ user \in Users \cup {NoUser}
    /\ place \in {"public", "setup", "guard", "inside"}
    /\ setUp \in BOOLEAN /\ status \in {"unknown", "unset", "set"}
    /\ loaded \in BOOLEAN /\ signIns \in 0 .. MaxSignIns
    /\ shared \in BOOLEAN /\ gap \in BOOLEAN

\* Signing in keeps the types.
LEMMA SignedInTypes ==
    ASSUME MoreSessionTypes, NEW u \in Users, SetAuth(u), setUp' \in BOOLEAN
    PROVE  MoreSessionTypes'
<1>1. signIns' \in 0 .. MaxSignIns
  BY SessionAssumption DEF SetAuth, MoreSessionTypes
<1> QED
  BY <1>1 DEF SetAuth, MoreSessionTypes, prefVars

\* So does every step of the session.
LEMMA SessionTypeStep ==
    ASSUME SessionBase, MoreSessionTypes, [SessionNext]_sessionVars
    PROVE  MoreSessionTypes'
<1>1. ASSUME NEW u \in Users, SignIn(u) \/ FirstAccount(u) PROVE MoreSessionTypes'
  <2>1. SetAuth(u) /\ setUp' \in BOOLEAN
    BY <1>1 DEF SignIn, FirstAccount, MoreSessionTypes
  <2> QED
    BY <2>1, SignedInTypes
<1>2. CASE SecondFactor
  <2>1. factorOf \in Users /\ SetAuth(factorOf) /\ setUp' = setUp
    BY <1>2 DEF SecondFactor, SessionBase
  <2> QED
    BY <2>1, SignedInTypes DEF MoreSessionTypes
<1>3. ASSUME NEW keeps, LoadPage(keeps) PROVE MoreSessionTypes'
  <2>1. /\ user' \in {user, NoUser} /\ place' \in {"public", "guard"}
        /\ status' = "unknown" /\ loaded' = FALSE
        /\ UNCHANGED <<setUp, signIns, shared, gap>>
    BY <1>3 DEF LoadPage
  <2> QED
    BY <2>1 DEF MoreSessionTypes
<1>4. CASE \/ BackToLogin \/ SignOut \/ StatusArrives \/ StatusCollected \/ Redirect \/ Enter
           \/ \E u \in Users : AskSecondFactor(u)
  BY <1>4 DEF BackToLogin, SignOut, StatusArrives, StatusCollected, Redirect, Enter,
              AskSecondFactor, MoreSessionTypes, prefVars
<1>5. CASE AskWho \/ UNCHANGED sessionVars
  BY <1>5 DEF AskWho, sessionVars, authVars, prefVars, MoreSessionTypes
<1>6. CASE Edit \/ Fire
  BY <1>6 DEF Edit, Fire, authVars, MoreSessionTypes
<1>7. ASSUME NEW r \in onWay, WhoArrives(r) PROVE MoreSessionTypes'
  <2>1. r.as \in Users \cup {NoUser}
    BY DEF SessionBase, Requests
  <2> QED
    BY <1>7, <2>1 DEF WhoArrives, prefVars, MoreSessionTypes
<1>8. ASSUME NEW r \in onWay, AnswerFails(r) \/ PrefsArrive(r) \/ PrefsSaved(r)
      PROVE  MoreSessionTypes'
  BY <1>8 DEF AnswerFails, PrefsArrive, PrefsSaved, authVars, MoreSessionTypes
<1> QED
  BY <1>1, <1>2, <1>3, <1>4, <1>5, <1>6, <1>7, <1>8
     DEF SessionNext, Reload, Unauthorized

\* Type correctness of the session: tokens, users, late answers and preferences.
THEOREM SessionTypes == SessionSpec => []SessionTypeOK
<1>1. SessionInit => MoreSessionTypes
  <2>1. 0 \in 0 .. MaxSignIns
    BY SessionAssumption
  <2> QED
    BY <2>1 DEF SessionInit, MoreSessionTypes
<1>2. SessionIInv /\ MoreSessionTypes /\ [SessionNext]_sessionVars => MoreSessionTypes'
  BY SessionTypeStep DEF SessionIInv
<1>3. SessionIInv /\ MoreSessionTypes => SessionTypeOK
  BY DEF SessionIInv, SessionBase, MoreSessionTypes, SessionTypeOK, Requests
<1> QED
  BY <1>1, <1>2, <1>3, SessionInvariance, PTL DEF SessionSpec
=============================================================================
