------------------------------- MODULE AdminPage -------------------------------
(***************************************************************************)
(* The dashboard: which table it shows, under which filter                 *)
(* (pages/AdminPage.tsx).  The tab is in the URL and follows the browser's *)
(* history; the three filters are state of the page and follow only its    *)
(* own buttons.  BrowserRouter renders a new URL as a transition, so the   *)
(* filters may be rendered before the tab.  The tables for shipments and   *)
(* packages copy their filter when they mount, the one for customers uses  *)
(* the one it is given.                                                    *)
(***************************************************************************)
EXTENDS AdminTables, Integers, Sequences

CONSTANTS
  Customers,   \* ids of customers
  Shipments,   \* ids of shipments
  MaxHistory   \* bound: entries of the browser's history

ASSUME PageAssumption ==
  /\ None \notin Customers \cup Shipments
  /\ Customers \cap Shipments = {}
  /\ MaxHistory \in Nat \ {0}

VARIABLES
  tabs,      \* the browser's history: the ?tab= of every entry
  at,        \* the entry the browser is at
  tab,       \* the tab rendered last
  filter,    \* customerIdFilter, shipmentCustomerFilter, packageShipmentFilter
  mounted,   \* the filter the table on screen works with
  asked      \* history: the last button pressed, the filter it asked for, and the ids
             \* chosen since the last click in the sidebar

vars == <<tabs, at, tab, filter, mounted, asked>>

Views == {"sessions", "customers", "shipments", "packages"}

\* A tab that is missing or unknown is the sessions.
activeTab(raw) == IF raw \in Views THEN raw ELSE "sessions"
Raw == Views \cup {"unknown"}

NoFilter == [v \in Views |-> None]

-----------------------------------------------------------------------------
\* A render with the filters f and the tab t.  The `key` mounts a table anew when
\* its filter has changed, as a change of tab does.
RenderWithoutKey(t, f) ==
  /\ tab' = t
  /\ filter' = f
  /\ mounted' = IF t = tab /\ t # "customers" THEN mounted ELSE f[t]

Render(t, f) ==
  /\ tab' = t
  /\ filter' = f
  /\ mounted' = IF t = tab /\ f[t] = filter[t] THEN mounted ELSE f[t]

\* setSearchParams: a new entry after the current one, rendered later on.
Push(view) ==
  /\ at < MaxHistory
  /\ tabs' = Append(SubSeq(tabs, 1, at), view)
  /\ at' = at + 1

Init ==
  /\ \E raw \in Raw : tabs = <<raw>> /\ tab = activeTab(raw)
  /\ at = 1
  /\ filter = NoFilter
  /\ mounted = None
  /\ asked = [view |-> None, filter |-> None, since |-> {}]

\* One that takes off only the filter of the view it goes to.
SidebarNavigateToOne(view) ==
  /\ Push(view)
  /\ Render(tab, [filter EXCEPT ![view] = None])
  /\ asked' = [view |-> view, filter |-> None, since |-> {}]

\* handleSidebarNavigate
SidebarNavigate(view) ==
  /\ Push(view)
  /\ Render(tab, NoFilter)
  /\ asked' = [view |-> view, filter |-> None, since |-> {}]

\* One that leaves the id with the view of the button.
NavigateToWithin(view, id) ==
  /\ Push(view)
  /\ Render(tab, [filter EXCEPT ![tab] = id])
  /\ asked' = [view |-> view, filter |-> id, since |-> asked.since \cup {id}]

\* navigateToCustomers, navigateToShipments and navigateToPackages.
NavigateTo(view, id) ==
  /\ Push(view)
  /\ Render(tab, [filter EXCEPT ![view] = id])
  /\ asked' = [view |-> view, filter |-> id, since |-> asked.since \cup {id}]

navigateToCustomers ==
  /\ tab = "sessions" /\ "customer" \in RowButtons(tab)
  /\ \E id \in Customers : NavigateTo("customers", id)

\* A customers table with a filter shows that customer alone.
navigateToShipments ==
  /\ tab = "customers" /\ "shipments" \in RowButtons(tab)
  /\ \E id \in Customers : mounted \in {None, id} /\ NavigateTo("shipments", id)

navigateToPackages ==
  /\ tab = "shipments" /\ "packages" \in RowButtons(tab)
  /\ \E id \in Shipments : NavigateTo("packages", id)

\* "Clear x" of the table: its own copy only.
ClearFilter ==
  /\ "clear" \in Controls(tab, [parent |-> mounted])
  /\ mounted' = None
  /\ asked' = IF asked.view = tab THEN [asked EXCEPT !.filter = None] ELSE asked
  /\ UNCHANGED <<tabs, at, tab, filter>>

\* Back and Forward.
Browse(entry) ==
  /\ entry \in 1..Len(tabs) /\ entry # at
  /\ at' = entry
  /\ asked' = [asked EXCEPT !.view = None, !.filter = None]
  /\ UNCHANGED <<tabs, tab, filter, mounted>>

\* The transition to the URL is rendered.
RenderUrl ==
  /\ tab # activeTab(tabs[at])
  /\ Render(activeTab(tabs[at]), filter)
  /\ UNCHANGED <<tabs, at, asked>>

Next ==
  \/ \E view \in Views : SidebarNavigate(view)
  \/ navigateToCustomers \/ navigateToShipments \/ navigateToPackages
  \/ ClearFilter
  \/ \E entry \in 1..MaxHistory : Browse(entry)
  \/ RenderUrl

Spec == Init /\ [][Next]_vars

-----------------------------------------------------------------------------
FilterOf(view) ==
  CASE view \in {"customers", "shipments"} -> Customers
    [] view = "packages" -> Shipments
    [] view = "sessions" -> {}

\* Besides the types: a table is never filtered by an id of another kind.
TypeOK ==
  /\ tabs \in Seq(Raw) /\ Len(tabs) \in 1..MaxHistory
  /\ at \in 1..Len(tabs)
  /\ tab \in Views
  /\ \A v \in Views : filter[v] \in FilterOf(v) \cup {None}
  /\ mounted \in FilterOf(tab) \cup {None}
  /\ asked \in [view : Views \cup {None}, filter : Customers \cup Shipments \cup {None},
               since : SUBSET (Customers \cup Shipments)]

\* What a button asked for is what is on screen once its tab is: all rows after a
\* click in the sidebar or on Clear, also on the tab one is on already, and the
\* rows of one customer or shipment after a row's button.
ShowsWhatWasAsked ==
  asked.view # None /\ tab = activeTab(tabs[at]) =>
    tab = asked.view /\ mounted = asked.filter

\* No filter outlives a click in the sidebar, wherever Back and Forward lead after
\* it: the table on screen is filtered only by an id chosen since.
SidebarEndsFilters == mounted \in asked.since \cup {None}
=============================================================================
