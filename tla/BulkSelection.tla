---------------------------- MODULE BulkSelection ----------------------------
(* Ticking rows of a list and acting on the ticked ones: the inventory list   *)
(* of a type (InventoryHubPage), whose table keeps row numbers, and the       *)
(* services page, which keeps ids.  Others create and delete objects          *)
(* meanwhile; the server lists them newest first, so ids say the order.       *)
EXTENDS Naturals, FiniteSets

CONSTANTS ObjectTypes,  \* inventory types: the hub's page stays mounted between them
          MaxObjects,   \* bound on the objects ever created
          MaxBulk       \* bound on the bulk calls in flight

ASSUME SelectionAssumption == ObjectTypes # {} /\ MaxObjects \in Nat /\ MaxBulk \in Nat

VARIABLES list,       \* which of the two lists this is
          typeShown,  \* the type that is shown
          objects,    \* the objects of each type on the server
          listing,    \* the answer the browser has for each type
          created,    \* objects created so far: ids are given in order
          ticked,     \* rowSelection, or selectedIds
          meant,      \* the objects the user ticked
          moved,      \* the list changed while something was ticked
          bulk        \* bulk calls in flight

selectionVars == <<list, typeShown, objects, listing, created, ticked, meant, moved, bulk>>

-----------------------------------------------------------------------------
Ids == 1 .. MaxObjects

Listed == listing[typeShown]

(* What the selection keeps of a row: its place in data (DataTable is given   *)
(* no getRowId here), or the id of its object.                                *)
Place(o) == Cardinality({p \in Listed : p > o})

(* Mutant: the services page keeps row numbers too.                           *)
MutantHandle(o) == Place(o)

Handle(o) == IF list = "hub" THEN Place(o) ELSE o

Selected == {o \in Listed : Handle(o) \in ticked}

SelectionInit ==
    /\ list \in {"hub", "services"}
    /\ typeShown \in ObjectTypes
    /\ objects = [t \in ObjectTypes |-> {}]
    /\ listing = [t \in ObjectTypes |-> {}]
    /\ created = 0
    /\ ticked = {} /\ meant = {} /\ moved = FALSE
    /\ bulk = {}

-----------------------------------------------------------------------------
(* Checkboxes: one row, the whole page, and clearing the bar.                 *)
Toggle(o) ==
    /\ ticked' = IF Handle(o) \in ticked THEN ticked \ {Handle(o)} ELSE ticked \cup {Handle(o)}
    /\ meant' = IF Handle(o) \in ticked THEN meant \ {o} ELSE meant \cup {o}
    /\ moved' = (moved /\ ticked' # {})
    /\ UNCHANGED <<list, typeShown, objects, listing, created, bulk>>

ToggleAll ==
    LET page == {Handle(o) : o \in Listed}
        off  == IF list = "hub" THEN page \subseteq ticked
                ELSE Cardinality(ticked) = Cardinality(Listed)
    IN /\ Listed # {}
       /\ IF list = "hub"
          THEN /\ ticked' = IF off THEN ticked \ page ELSE ticked \cup page
               /\ meant' = IF off THEN meant \ Listed ELSE meant \cup Listed
          ELSE /\ ticked' = IF off THEN {} ELSE page
               /\ meant' = IF off THEN {} ELSE Listed
       /\ moved' = (moved /\ ticked' # {})
       /\ UNCHANGED <<list, typeShown, objects, listing, created, bulk>>

Cleared == ticked' = {} /\ meant' = {} /\ moved' = FALSE

ClearSelection ==
    /\ ticked # {}
    /\ Cleared
    /\ UNCHANGED <<list, typeShown, objects, listing, created, bulk>>

(* The list is fetched again: Refresh, an invalidation, a reconnection.       *)
Refetch ==
    /\ listing' = [listing EXCEPT ![typeShown] = objects[typeShown]]
    /\ listing' # listing
    /\ moved' = (moved \/ ticked # {})
    /\ UNCHANGED <<list, typeShown, objects, created, ticked, meant, bulk>>

(* The route changes to another type: the page is not mounted anew.           *)
SwitchType(t) ==
    /\ list = "hub" /\ t # typeShown
    /\ typeShown' = t
    /\ moved' = (moved \/ ticked # {})
    /\ UNCHANGED <<list, objects, listing, created, ticked, meant, bulk>>

CreateObject(t) ==
    /\ created < MaxObjects
    /\ created' = created + 1
    /\ objects' = [objects EXCEPT ![t] = @ \cup {created + 1}]
    /\ UNCHANGED <<list, typeShown, listing, ticked, meant, moved, bulk>>

DeleteObject(t, o) ==
    /\ objects' = [objects EXCEPT ![t] = @ \ {o}]
    /\ UNCHANGED <<list, typeShown, listing, created, ticked, meant, moved, bulk>>

-----------------------------------------------------------------------------
(* Confirming a bulk dialog, whose title counts the ticks.                    *)
ConfirmBulk ==
    /\ ticked # {} /\ Cardinality(bulk) < MaxBulk
    /\ bulk' = bulk \cup {[hits |-> Selected, meant |-> meant,
                           counted |-> Cardinality(ticked), moved |-> moved]}
    /\ UNCHANGED <<list, typeShown, objects, listing, created, ticked, meant, moved>>

(* onSuccess clears whatever is ticked by then.                               *)
BulkDone(b) ==
    /\ bulk' = bulk \ {b}
    /\ Cleared
    /\ UNCHANGED <<list, typeShown, objects, listing, created>>

BulkFails(b) ==
    /\ bulk' = bulk \ {b}
    /\ UNCHANGED <<list, typeShown, objects, listing, created, ticked, meant, moved>>

SelectionNext ==
    \/ \E o \in Listed : Toggle(o)
    \/ ToggleAll \/ ClearSelection \/ Refetch \/ ConfirmBulk
    \/ \E t \in ObjectTypes :
          SwitchType(t) \/ CreateObject(t) \/ \E o \in objects[t] : DeleteObject(t, o)
    \/ \E b \in bulk : BulkDone(b) \/ BulkFails(b)

SelectionSpec == SelectionInit /\ [][SelectionNext]_selectionVars

-----------------------------------------------------------------------------
SelectionTypeOK ==
    /\ list \in {"hub", "services"} /\ typeShown \in ObjectTypes
    /\ objects \in [ObjectTypes -> SUBSET Ids] /\ listing \in [ObjectTypes -> SUBSET Ids]
    /\ created \in 0 .. MaxObjects
    /\ ticked \subseteq 0 .. MaxObjects /\ meant \subseteq Ids /\ moved \in BOOLEAN
    /\ bulk \subseteq [hits : SUBSET Ids, meant : SUBSET Ids,
                       counted : 0 .. MaxObjects + 1, moved : BOOLEAN]

(* A bulk call of the services page acts on objects the user ticked, and on   *)
(* all of them that are still listed; one of an inventory list does so long   *)
(* as the list stays as it was when they were ticked.                         *)
BulkHitsMeant ==
    \A b \in bulk : list = "services" \/ ~b.moved => b.hits \subseteq b.meant

(* What the documentation says of every list: "checkbox column in the         *)
(* DataTable for selecting multiple objects" (Frontend.md:250).               *)
BulkHitsTicked == \A b \in bulk : b.hits \subseteq b.meant
=============================================================================
