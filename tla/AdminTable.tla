------------------------------ MODULE AdminTable ------------------------------
(***************************************************************************)
(* One mounted admin table: the controls over it, the list it fetches      *)
(* through React Query, its form, its delete dialog and the writes they    *)
(* make (CustomersTable, ShipmentsTable, PackagesTable, SessionsTable).    *)
(*                                                                         *)
(* React Query is external.  The cache entry a change of the controls      *)
(* finds is any answer an earlier visit may have left; the server counts   *)
(* the writes of this page in `version`, and a list answer carries the     *)
(* version it was read at.                                                 *)
(***************************************************************************)
EXTENDS AdminTables, Integers

CONSTANTS
  Tables,      \* the tables to look at
  Parents,     \* initial filters by customer or shipment, None for none
  Terms,       \* search terms; None is the empty one
  Statuses,    \* options of the status filter; None is "all"
  Ids,         \* rows
  MaxPages,    \* bound: pages a list may have
  MaxWrites    \* bound: writes sent, of each table

ASSUME TableAssumption ==
  /\ Tables \subseteq {"customers", "shipments", "packages", "sessions"}
  /\ None \in Parents \cap Terms \cap Statuses
  /\ None \notin Ids
  /\ MaxPages \in Nat \ {0} /\ MaxWrites \in [Tables -> Nat]

VARIABLES
  table,
  ui,            \* page, query, debounced, parent and status
  entry,         \* the cache entry of the list on screen
  fetch,         \* the fetch of that list
  form,          \* formState and formError
  deleting,      \* deletingRow and deleteError
  formWrite,     \* the create or update in flight
  deleteWrite,   \* the delete in flight
  version,       \* server: writes of this page that were committed
  sent,          \* writes sent, for the bound
  refetched,     \* history: the version of the last refetch() of the list on screen
  clicked        \* history: the filters a page past the first was clicked on

vars == <<table, ui, entry, fetch, form, deleting, formWrite, deleteWrite,
          version, sent, refetched, clicked>>
listVars == <<entry, fetch, refetched>>
dialogVars == <<form, deleting, formWrite, deleteWrite, version, sent>>

-----------------------------------------------------------------------------
\* React Query's view of the list: nothing fetched yet, or an answer, read when the
\* server was at that version at most.
NoData == [has |-> FALSE, version |-> 0, pages |-> 0, failed |-> FALSE]
Answers(newest) ==
  [has : {TRUE}, version : 0..newest, pages : 0..MaxPages, failed : BOOLEAN]

Idle == [on |-> FALSE, attempt |-> 0, read |-> NoData]
Started == [on |-> TRUE, attempt |-> 0, read |-> NoData]

\* A write: the row it goes to, None for a new one, and whether its dialog has been
\* closed or has turned to another row since.
NoWrite == [stage |-> "none", row |-> None, orphan |-> FALSE]
Rows == Ids \cup {None}

NoError == [about |-> None, orphan |-> FALSE, shown |-> FALSE]
Error(write) == [about |-> write.row, orphan |-> write.orphan, shown |-> TRUE]

Closed == [open |-> FALSE, row |-> None, error |-> NoError]
NotDeleting == [row |-> None, error |-> NoError]

Key(u) == ListOf(table, u).url

\* The list without its page, and whether a search was typed that is still to come.
Unclicked == [list |-> None, early |-> FALSE]
Filters(u) == [q |-> u.debounced, parent |-> u.parent, status |-> u.status]

\* A customer's id selects one row at most.
PagesOf(u) == IF table = "customers" /\ u.parent # None THEN 0..1 ELSE 0..MaxPages

Loading == fetch.on /\ ~entry.has
RowsShown == ~Loading /\ entry.has /\ ui.page <= entry.pages
ShowsButton(button) == RowsShown /\ button \in RowButtons(table)
Shows(control) == control \in Controls(table, ui)

-----------------------------------------------------------------------------
Init ==
  /\ table \in Tables
  /\ \E p \in IF table = "sessions" THEN {None} ELSE Parents :
       ui = [page |-> 1, query |-> None, debounced |-> None, parent |-> p, status |-> None]
  /\ entry = NoData
  /\ fetch = Started
  /\ form = Closed
  /\ deleting = NotDeleting
  /\ formWrite = NoWrite
  /\ deleteWrite = NoWrite
  /\ version = 0
  /\ sent = 0
  /\ refetched = 0
  /\ clicked = Unclicked

-----------------------------------------------------------------------------
\* The controls.  With another key the query of the old one loses its observer,
\* which aborts its fetch; the new one is fetched unless its entry is fresh, for
\* 30 seconds after it was fetched, whatever has been written since.
Observe(u) ==
  /\ ui' = u
  /\ IF Key(u) = Key(ui)
     THEN UNCHANGED listVars
     ELSE /\ entry' \in {NoData} \cup {a \in Answers(version) : a.pages \in PagesOf(u)}
          /\ fetch' \in IF entry'.has THEN {Idle, Started} ELSE {Started}
          /\ refetched' = 0
  /\ UNCHANGED <<table, dialogVars>>

\* A search that stays on its page.
TypeSearchInPlace(term) ==
  /\ Shows("search")
  /\ Observe([ui EXCEPT !.query = term])
  /\ UNCHANGED clicked

\* handleSearchChange
TypeSearch(term) ==
  /\ Shows("search")
  /\ Observe([ui EXCEPT !.query = term, !.page = 1])
  /\ clicked' = Unclicked

\* The timer of useDebounce.
Debounce ==
  /\ ui.debounced # ui.query
  /\ Observe([ui EXCEPT !.debounced = ui.query])
  /\ UNCHANGED clicked

\* handleFilterChange
ChangeStatus(status) ==
  /\ Shows("status")
  /\ Observe([ui EXCEPT !.status = status, !.page = 1])
  /\ clicked' = Unclicked

\* "Clear x" of the parent filter.
ClearParent ==
  /\ Shows("clear")
  /\ Observe([ui EXCEPT !.parent = None, !.page = 1])
  /\ clicked' = Unclicked

\* A page button (Pagination).
ClickPage(page) ==
  /\ RowsShown
  /\ entry.pages > 1
  /\ page \in 1..entry.pages
  /\ Observe([ui EXCEPT !.page = page])
  /\ clicked' = IF page = 1 THEN Unclicked
                ELSE [list |-> Filters(ui), early |-> ui.query # ui.debounced]

-----------------------------------------------------------------------------
\* The fetch of the list on screen: the server reads, the answer arrives; a
\* failure is retried once.
ServerReads ==
  /\ fetch.on
  /\ ~fetch.read.has
  /\ \E n \in PagesOf(ui) :
       fetch' = [fetch EXCEPT !.read = [has |-> TRUE, version |-> version,
                                        pages |-> n, failed |-> FALSE]]
  /\ UNCHANGED <<table, ui, entry, refetched, clicked, dialogVars>>

AnswerArrives ==
  /\ fetch.on
  /\ fetch.read.has
  /\ entry' = fetch.read
  /\ fetch' = Idle
  /\ UNCHANGED <<table, ui, refetched, clicked, dialogVars>>

FetchRetriesForever ==
  /\ fetch.on
  /\ fetch' = Started
  /\ UNCHANGED <<table, ui, entry, refetched, clicked, dialogVars>>

FetchFails ==
  /\ fetch.on
  /\ IF fetch.attempt = 0
     THEN fetch' = [Started EXCEPT !.attempt = 1] /\ UNCHANGED entry
     ELSE fetch' = Idle /\ entry' = [entry EXCEPT !.failed = TRUE]
  /\ UNCHANGED <<table, ui, refetched, clicked, dialogVars>>

\* The browser is online again: a stale list is fetched.
Reconnect ==
  /\ ~fetch.on
  /\ fetch' = Started
  /\ UNCHANGED <<table, ui, entry, refetched, clicked, dialogVars>>

\* A refetch that joins whatever fetch is under way.
RefetchJoins ==
  /\ fetch' = IF fetch.on THEN fetch ELSE Started
  /\ refetched' = IF Loading THEN refetched ELSE version
  /\ UNCHANGED entry

\* refetch() of React Query, of the list on screen by now and of no other: it starts
\* over, but joins a first load, and that may have been read before the write.
Refetch ==
  /\ fetch' = IF Loading THEN fetch ELSE Started
  /\ refetched' = IF Loading THEN refetched ELSE version
  /\ UNCHANGED entry

-----------------------------------------------------------------------------
\* The form.  It is no modal dialog: the keyboard reaches the buttons behind it, and
\* they turn the open form to another row.  What is in its fields is not modelled.
Orphan(write) == [write EXCEPT !.orphan = (write.stage # "none")]

\* An open that leaves the last error on display.
OpenFormKeepingError(row) ==
  /\ form' = [form EXCEPT !.open = TRUE, !.row = row]
  /\ formWrite' = Orphan(formWrite)
  /\ UNCHANGED <<table, ui, listVars, clicked, deleting, deleteWrite, version, sent>>

\* setFormError(null), setFormState({ row })
OpenForm(row) ==
  /\ form' = [open |-> TRUE, row |-> row, error |-> NoError]
  /\ formWrite' = Orphan(formWrite)
  /\ UNCHANGED <<table, ui, listVars, clicked, deleting, deleteWrite, version, sent>>

Edit(id) == ShowsButton("edit") /\ OpenForm(id)
Add == Shows("add") /\ OpenForm(None)

\* onClose: Cancel is disabled while a write is pending, the backdrop is not.
CloseForm ==
  /\ form.open
  /\ form' = [Closed EXCEPT !.error = form.error]
  /\ formWrite' = Orphan(formWrite)
  /\ UNCHANGED <<table, ui, listVars, clicked, deleting, deleteWrite, version, sent>>

\* handleSubmit up to its await; the button is disabled while a write is pending.
Submit ==
  /\ form.open
  /\ formWrite.stage = "none"
  /\ sent < MaxWrites[table]
  /\ form' = [form EXCEPT !.error = NoError]
  /\ formWrite' = [stage |-> "sent", row |-> form.row, orphan |-> FALSE]
  /\ sent' = sent + 1
  /\ UNCHANGED <<table, ui, listVars, clicked, deleting, deleteWrite, version>>

SubmitCommits ==
  /\ formWrite.stage = "sent"
  /\ formWrite' = [formWrite EXCEPT !.stage = "committed"]
  /\ version' = version + 1
  /\ UNCHANGED <<table, ui, listVars, clicked, form, deleting, deleteWrite, sent>>

\* setFormState(null), whichever dialog is open by now, and refetch().
SubmitSucceeds ==
  /\ formWrite.stage = "committed"
  /\ form' = [Closed EXCEPT !.error = form.error]
  /\ formWrite' = NoWrite
  /\ Refetch
  /\ UNCHANGED <<table, ui, clicked, deleting, deleteWrite, version, sent>>

\* The server refused it, or its answer was lost: setFormError.
SubmitFails ==
  /\ formWrite.stage # "none"
  /\ form' = [form EXCEPT !.error = Error(formWrite)]
  /\ formWrite' = NoWrite
  /\ UNCHANGED <<table, ui, listVars, clicked, deleting, deleteWrite, version, sent>>

-----------------------------------------------------------------------------
\* The delete dialog.
AskDelete(id) ==
  /\ ShowsButton("delete")
  /\ deleting' = [row |-> id, error |-> NoError]
  /\ deleteWrite' = Orphan(deleteWrite)
  /\ UNCHANGED <<table, ui, listVars, clicked, form, formWrite, version, sent>>

CancelDelete ==
  /\ deleting.row # None
  /\ deleting' = [deleting EXCEPT !.row = None]
  /\ deleteWrite' = Orphan(deleteWrite)
  /\ UNCHANGED <<table, ui, listVars, clicked, form, formWrite, version, sent>>

\* handleDelete up to its await.
ConfirmDelete ==
  /\ deleting.row # None
  /\ deleteWrite.stage = "none"
  /\ sent < MaxWrites[table]
  /\ deleting' = [deleting EXCEPT !.error = NoError]
  /\ deleteWrite' = [NoWrite EXCEPT !.stage = "sent", !.row = deleting.row]
  /\ sent' = sent + 1
  /\ UNCHANGED <<table, ui, listVars, clicked, form, formWrite, version>>

DeleteCommits ==
  /\ deleteWrite.stage = "sent"
  /\ deleteWrite' = [deleteWrite EXCEPT !.stage = "committed"]
  /\ version' = version + 1
  /\ UNCHANGED <<table, ui, listVars, clicked, form, deleting, formWrite, sent>>

DeleteSucceeds ==
  /\ deleteWrite.stage = "committed"
  /\ deleting' = [deleting EXCEPT !.row = None]
  /\ deleteWrite' = NoWrite
  /\ Refetch
  /\ UNCHANGED <<table, ui, clicked, form, formWrite, version, sent>>

DeleteFails ==
  /\ deleteWrite.stage # "none"
  /\ deleting' = [deleting EXCEPT !.error = Error(deleteWrite)]
  /\ deleteWrite' = NoWrite
  /\ UNCHANGED <<table, ui, listVars, clicked, form, formWrite, version, sent>>

-----------------------------------------------------------------------------
Next ==
  \/ \E term \in Terms : TypeSearch(term)
  \/ Debounce
  \/ \E status \in Statuses : ChangeStatus(status)
  \/ ClearParent
  \/ \E page \in 1..MaxPages : ClickPage(page)
  \/ ServerReads \/ AnswerArrives \/ FetchFails \/ Reconnect
  \/ \E id \in Ids : Edit(id) \/ AskDelete(id)
  \/ Add \/ CloseForm \/ Submit \/ SubmitCommits \/ SubmitSucceeds \/ SubmitFails
  \/ CancelDelete \/ ConfirmDelete \/ DeleteCommits \/ DeleteSucceeds \/ DeleteFails

Spec == Init /\ [][Next]_vars

\* The server and the browser answer or give up, so a fetch that the controls leave
\* alone gets on.
FairSpec == Spec /\ WF_vars(ServerReads \/ AnswerArrives \/ FetchFails)

-----------------------------------------------------------------------------
Write == [stage : {"none", "sent", "committed"}, row : Rows, orphan : BOOLEAN]
ErrorType == [about : Rows, orphan : BOOLEAN, shown : BOOLEAN]

TypeOK ==
  /\ table \in Tables
  /\ ui \in [page : 1..MaxPages \cup {1}, query : Terms, debounced : Terms,
             parent : Parents, status : Statuses]
  /\ entry \in Answers(version) \cup {NoData, [NoData EXCEPT !.failed = TRUE]}
  /\ fetch \in [on : BOOLEAN, attempt : 0..1, read : Answers(version) \cup {NoData}]
  /\ form \in [open : BOOLEAN, row : Rows, error : ErrorType]
  /\ deleting \in [row : Rows, error : ErrorType]
  /\ formWrite \in Write /\ deleteWrite \in Write
  /\ version \in 0..sent /\ sent \in 0..MaxWrites[table]
  /\ refetched \in 0..version
  /\ clicked = Unclicked \/ clicked \in
       [list : [q : Terms, parent : Parents, status : Statuses], early : BOOLEAN]

\* A page past the first is a page of the list on screen, not one left over from
\* another search or filter, unless it was clicked in the 300 ms in which a search
\* was typed and had still to come.
PageIsOfThisList ==
  ui.page > 1 => clicked.list = Filters(ui) \/ clicked.early

\* The list on screen is never older than the last refetch made for it since it came
\* there: an answer read before that refetch, and arriving late, does not replace a
\* newer one.  After a write that succeeded this is what shows the write.  It is said
\* only of the list the refetch was for (another list, cached before the write, may
\* be shown without it), not of a refetch that joined a first load, and not of a
\* list that could not be fetched.
OwnWritesShown ==
  \/ fetch.on
  \/ entry.failed
  \/ entry.version >= refetched

\* An error on display is about the row the dialog is for, unless its own dialog
\* was closed, or turned to another row, while the write was pending.
ErrorIsItsOwn ==
  /\ form.open /\ form.error.shown => form.error.about = form.row \/ form.error.orphan
  /\ deleting.row # None /\ deleting.error.shown =>
       deleting.error.about = deleting.row \/ deleting.error.orphan

\* From a page with no rows on it there is a way back to the first page.
AlwaysAWayBack ==
  ui.page > 1 => \E control \in {"search", "status", "clear"} : Shows(control)

\* Loading ends, unless the controls are moved again and again.
LoadingEnds == []<>~Loading \/ []<><<ui' # ui>>_ui
=============================================================================
