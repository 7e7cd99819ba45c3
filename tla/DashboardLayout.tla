--------------------------- MODULE DashboardLayout ---------------------------
(* The order of the dashboard: quick links that services announce in their    *)
(* outputs or the user adds, and the sections of the page, both dragged into  *)
(* an order that the preferences keep.  Outputs come and go with the          *)
(* services, and an order may name links that are not there.                  *)
EXTENDS KeptItems

CONSTANTS Announced,    \* links of services in the order of the answers, each id once (linkMap)
          CustomIds,    \* ids of the links the user may add
          Sections,     \* ALL_SECTIONS
          NoLink,       \* no link
          MaxChanges    \* bound on the answers with other links

ASSUME LayoutAssumption ==
    /\ ToSet(Announced) \cap CustomIds = {} /\ NoLink \notin CustomIds
    /\ Announced \in Seq(ToSet(Announced)) /\ IsInjective(Announced)
    /\ Sections \in Seq(ToSet(Sections))
    /\ MaxChanges \in Nat

VARIABLES announced,     \* the links in the last answer
          linkOrder,     \* quick_links.order
          customLinks,   \* quick_links.custom_links
          linkDialog,    \* "closed", "add" or "edit"
          editingLink,   \* the link the dialog was opened for, or NoLink
          sectionOrder,  \* dashboard_sections.order
          changes        \* answers with other links so far

layoutVars == <<announced, linkOrder, customLinks, linkDialog, editingLink, sectionOrder,
                changes>>

-----------------------------------------------------------------------------
(* What is there in saved order, then what the order does not name.           *)
InOrder(order, all) ==
    Only(order, ToSet(all)) \o Only(all, ToSet(all) \ ToSet(order))

QuickLinks == Only(Announced, announced)

SortedLinks == InOrder(linkOrder, QuickLinks \o customLinks)

EffectiveOrder == InOrder(sectionOrder, Sections)

(* The section is not shown while no service announces a link.                *)
LinksShown == announced # {}

(* arrayMove of dnd-kit.                                                      *)
ArrayMove(s, from, to) == InsertAt(RemoveAt(s, from), to, s[from])

LayoutInit ==
    /\ announced \in SUBSET ToSet(Announced)
    /\ linkOrder = <<>> /\ customLinks = <<>>
    /\ linkDialog = "closed" /\ editingLink = NoLink
    /\ sectionOrder = <<>>
    /\ changes = 0

-----------------------------------------------------------------------------
ReorderQuickLinks(from, to) ==
    /\ LinksShown /\ linkDialog = "closed" /\ from # to
    /\ linkOrder' = ArrayMove(SortedLinks, from, to)
    /\ UNCHANGED <<announced, customLinks, linkDialog, editingLink, sectionOrder, changes>>

HandleAddClick ==
    /\ LinksShown /\ linkDialog = "closed"
    /\ linkDialog' = "add" /\ editingLink' = NoLink
    /\ UNCHANGED <<announced, linkOrder, customLinks, sectionOrder, changes>>

HandleEditClick(l) ==
    /\ LinksShown /\ linkDialog = "closed"
    /\ linkDialog' = "edit" /\ editingLink' = l
    /\ UNCHANGED <<announced, linkOrder, customLinks, sectionOrder, changes>>

(* Cancelling keeps editingLink until the next click.                         *)
CloseLinkDialog ==
    /\ linkDialog # "closed"
    /\ linkDialog' = "closed"
    /\ UNCHANGED <<announced, linkOrder, customLinks, editingLink, sectionOrder, changes>>

(* Mutant: the order is not carried over.                                     *)
MutantHandleAddLink(l) ==
    /\ linkDialog # "closed"
    /\ IF editingLink # NoLink THEN l = editingLink /\ UNCHANGED <<customLinks, linkOrder>>
       ELSE /\ l \notin ToSet(customLinks)
            /\ customLinks' = Append(customLinks, l)
            /\ linkOrder' = <<l>>
    /\ linkDialog' = "closed" /\ editingLink' = NoLink
    /\ UNCHANGED <<announced, sectionOrder, changes>>

(* onSave: an edit changes label and url, which no order depends on; a new    *)
(* link has the time as its id and goes to the end of the saved order.        *)
HandleAddLink(l) ==
    /\ linkDialog # "closed"
    /\ IF editingLink # NoLink THEN l = editingLink /\ UNCHANGED <<customLinks, linkOrder>>
       ELSE /\ l \notin ToSet(customLinks)
            /\ customLinks' = Append(customLinks, l)
            /\ linkOrder' = Append(linkOrder, l)
    /\ linkDialog' = "closed" /\ editingLink' = NoLink
    /\ UNCHANGED <<announced, sectionOrder, changes>>

RemoveCustomLink(l) ==
    /\ LinksShown /\ linkDialog = "closed"
    /\ customLinks' = Without(customLinks, l)
    /\ linkOrder' = Without(linkOrder, l)
    /\ UNCHANGED <<announced, linkDialog, editingLink, sectionOrder, changes>>

(* Another answer; with no link the section is gone and its dialog with it.   *)
OutputsArrive(links) ==
    /\ links # announced /\ changes < MaxChanges
    /\ changes' = changes + 1
    /\ announced' = links
    /\ linkDialog' = IF links = {} THEN "closed" ELSE linkDialog
    /\ editingLink' = IF links = {} THEN NoLink ELSE editingLink
    /\ UNCHANGED <<linkOrder, customLinks, sectionOrder>>

ReorderSections(from, to) ==
    /\ from # to
    /\ sectionOrder' = ArrayMove(EffectiveOrder, from, to)
    /\ UNCHANGED <<announced, linkOrder, customLinks, linkDialog, editingLink, changes>>

LayoutNext ==
    \/ \E i, j \in DOMAIN SortedLinks : ReorderQuickLinks(i, j)
    \/ \E i, j \in DOMAIN EffectiveOrder : ReorderSections(i, j)
    \/ HandleAddClick \/ CloseLinkDialog
    \/ \E l \in CustomIds : HandleAddLink(l)
    \/ \E l \in ToSet(customLinks) : HandleEditClick(l) \/ RemoveCustomLink(l)
    \/ \E links \in SUBSET ToSet(Announced) : OutputsArrive(links)

LayoutSpec == LayoutInit /\ [][LayoutNext]_layoutVars

-----------------------------------------------------------------------------
LayoutTypeOK ==
    /\ announced \subseteq ToSet(Announced)
    /\ ToSet(linkOrder) \subseteq ToSet(Announced) \cup CustomIds
    /\ ToSet(customLinks) \subseteq CustomIds
    /\ IsInjective(linkOrder) /\ IsInjective(customLinks)
    /\ linkDialog \in {"closed", "add", "edit"}
    /\ editingLink \in CustomIds \cup {NoLink}
    /\ linkDialog = "edit" => editingLink \in ToSet(customLinks)
    /\ ToSet(sectionOrder) \subseteq ToSet(Sections)
    /\ changes \in 0 .. MaxChanges

Dragged(m) == \E i, j \in DOMAIN SortedLinks : SortedLinks[i] = m /\ ReorderQuickLinks(i, j)

(* Links that are shown before and after a step keep their places among each  *)
(* other, whichever links are added, removed, announced or gone ("Append any  *)
(* new links not in saved order", QuickLinksSection.tsx:106); a drag moves    *)
(* the link that is dragged and no other.                                     *)
LinksKeepTheirPlaces ==
    [][ \A was \in {SortedLinks}, is \in {SortedLinks'} :
           \E m \in {NoLink} \cup ToSet(was) :
              LET others == (ToSet(was) \cap ToSet(is)) \ {m}
              IN /\ Only(was, others) = Only(is, others)
                 /\ m = NoLink \/ Dragged(m) ]_layoutVars
=============================================================================
