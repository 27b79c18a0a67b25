---------------------------- MODULE AdminPageProofs ----------------------------
(***************************************************************************)
(* AdminPage for any customers, shipments and length of history.           *)
(***************************************************************************)
EXTENDS AdminPage, TLAPS

\* Every filter in the state of the page was chosen since the sidebar was clicked.
FiltersAreRecent == \A v \in Views : filter[v] \in asked.since \cup {None}

\* A table works with the filter of its view, or without one.
MountedIsTheFilter == mounted \in {filter[tab], None}

\* Until the URL of the last button is rendered the filter of its view is what was
\* asked for; after that the table's is.
AskedIsFiltered ==
  asked.view # None =>
    /\ asked.view \in Views /\ asked.view = activeTab(tabs[at])
    /\ tab = asked.view => mounted = asked.filter
    /\ tab # asked.view => filter[asked.view] = asked.filter

FilterType == filter \in [Views -> Customers \cup Shipments \cup {None}]

IInv == TypeOK /\ FilterType /\ FiltersAreRecent /\ MountedIsTheFilter /\ AskedIsFiltered

\* A new entry is the one the browser is at.
LEMMA PushedEntry ==
  ASSUME tabs \in Seq(Raw), at \in 1..Len(tabs), NEW view \in Views, Push(view)
  PROVE /\ tabs' \in Seq(Raw) /\ Len(tabs') = at' /\ at' = at + 1
        /\ at' \in 1..MaxHistory
        /\ tabs'[at'] = view /\ activeTab(tabs'[at']) = view
<1>1. SubSeq(tabs, 1, at) \in Seq(Raw) /\ Len(SubSeq(tabs, 1, at)) = at
  BY DEF Push
<1>2. view \in Raw  BY DEF Raw
<1> QED  BY <1>1, <1>2, PageAssumption DEF Push, activeTab

LEMMA InitIInv == Init => IInv
<1> SUFFICES ASSUME Init PROVE IInv  OBVIOUS
<1>1. PICK raw \in Raw : tabs = <<raw>> /\ tab = activeTab(raw)  BY DEF Init
<1>2. tab \in Views  BY <1>1 DEF activeTab, Views
<1>3. TypeOK  BY <1>1, <1>2, PageAssumption DEF Init, TypeOK, NoFilter, FilterOf
<1> QED
  BY <1>2, <1>3
  DEF Init, IInv, FilterType, FiltersAreRecent, MountedIsTheFilter, AskedIsFiltered, NoFilter

LEMMA NextKeepsIInv == IInv /\ [Next]_vars => IInv'
<1> SUFFICES ASSUME IInv, [Next]_vars PROVE IInv'  OBVIOUS
<1> USE DEF IInv
<1>t. tabs \in Seq(Raw) /\ at \in 1..Len(tabs) /\ tab \in Views  BY DEF TypeOK
<1>1. ASSUME NEW view \in Views, SidebarNavigate(view) PROVE IInv'
  <2>1. Push(view)  BY <1>1 DEF SidebarNavigate
  <2>2. filter' = NoFilter /\ tab' = tab  BY <1>1 DEF SidebarNavigate, Render
  <2>3. mounted' = None
    BY <1>1, <1>t DEF SidebarNavigate, Render, MountedIsTheFilter, NoFilter
  <2>4. asked' = [view |-> view, filter |-> None, since |-> {}]
    BY <1>1 DEF SidebarNavigate
  <2>5. TypeOK'
    BY <1>t, <2>1, <2>2, <2>3, <2>4, PushedEntry DEF TypeOK, NoFilter
  <2> QED
    BY <1>t, <2>1, <2>2, <2>3, <2>4, <2>5, PushedEntry
    DEF FilterType, FiltersAreRecent, MountedIsTheFilter, AskedIsFiltered, NoFilter
<1>2. ASSUME NEW view \in Views, NEW id \in FilterOf(view), tab # view,
             NavigateTo(view, id)
      PROVE IInv'
  <2>1. Push(view)  BY <1>2 DEF NavigateTo
  <2>2. filter' = [filter EXCEPT ![view] = id] /\ tab' = tab
    BY <1>2 DEF NavigateTo, Render
  <2>3. mounted' = mounted  BY <1>2, <1>t DEF NavigateTo, Render, FilterType
  <2>4. asked' = [view |-> view, filter |-> id, since |-> asked.since \cup {id}]
    BY <1>2 DEF NavigateTo
  <2>5. id \in Customers \cup Shipments  BY <1>2 DEF FilterOf, Views
  <2>6. TypeOK'
    BY <1>2, <1>t, <2>1, <2>2, <2>3, <2>4, <2>5, PushedEntry DEF TypeOK, FilterType
  <2> QED
    BY <1>2, <1>t, <2>1, <2>2, <2>3, <2>4, <2>5, <2>6, PushedEntry
    DEF FilterType, FiltersAreRecent, MountedIsTheFilter, AskedIsFiltered
<1>3. CASE ClearFilter
  BY <1>3, <1>t
  DEF ClearFilter, TypeOK, FilterType, FiltersAreRecent, MountedIsTheFilter, AskedIsFiltered
<1>4. ASSUME NEW entry \in 1..MaxHistory, Browse(entry) PROVE IInv'
  BY <1>4, <1>t
  DEF Browse, TypeOK, FilterType, FiltersAreRecent, MountedIsTheFilter, AskedIsFiltered
<1>5. CASE RenderUrl
  <2>1. tab' = activeTab(tabs[at]) /\ filter' = filter /\ mounted' = filter[tab']
    BY <1>5 DEF RenderUrl, Render
  <2>2. UNCHANGED <<tabs, at, asked>>  BY <1>5 DEF RenderUrl
  <2>3. tab' \in Views  BY <2>1 DEF activeTab, Views
  <2> QED
    BY <1>t, <1>5, <2>1, <2>2, <2>3
    DEF RenderUrl, TypeOK, FilterType, FiltersAreRecent, MountedIsTheFilter, AskedIsFiltered
<1>6. CASE UNCHANGED vars
  BY <1>6
  DEF vars, TypeOK, FilterType, FiltersAreRecent, MountedIsTheFilter, AskedIsFiltered
<1>7. CASE navigateToCustomers
  <2>1. PICK id \in Customers : NavigateTo("customers", id)  BY <1>7 DEF navigateToCustomers
  <2> QED  BY <1>2, <1>7, <2>1 DEF navigateToCustomers, FilterOf, Views
<1>8. CASE navigateToShipments
  <2>1. PICK id \in Customers : NavigateTo("shipments", id)  BY <1>8 DEF navigateToShipments
  <2> QED  BY <1>2, <1>8, <2>1 DEF navigateToShipments, FilterOf, Views
<1>9. CASE navigateToPackages
  <2>1. PICK id \in Shipments : NavigateTo("packages", id)  BY <1>9 DEF navigateToPackages
  <2> QED  BY <1>2, <1>9, <2>1 DEF navigateToPackages, FilterOf, Views
<1> QED  BY <1>1, <1>3, <1>4, <1>5, <1>6, <1>7, <1>8, <1>9 DEF Next

THEOREM Invariance == Spec => []IInv
BY InitIInv, NextKeepsIInv, PTL DEF Spec

\* No table is ever filtered by an id of another kind.
THEOREM TypeCorrect == Spec => []TypeOK
<1>1. IInv => TypeOK  BY DEF IInv
<1> QED  BY <1>1, Invariance, PTL

\* The table on screen works with the filter the last button asked for.
THEOREM AlwaysShowsWhatWasAsked == Spec => []ShowsWhatWasAsked
<1>1. IInv => ShowsWhatWasAsked  BY DEF IInv, AskedIsFiltered, ShowsWhatWasAsked
<1> QED  BY <1>1, Invariance, PTL

\* A click in the sidebar ends every filter chosen before it.
THEOREM SidebarAlwaysEndsFilters == Spec => []SidebarEndsFilters
<1>1. IInv => SidebarEndsFilters
  BY DEF IInv, TypeOK, FiltersAreRecent, MountedIsTheFilter, SidebarEndsFilters
<1> QED  BY <1>1, Invariance, PTL
=============================================================================
