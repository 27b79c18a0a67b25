--------------------------- MODULE AdminTableProofs ---------------------------
(***************************************************************************)
(* AdminTable for any rows, search terms, filters and number of pages and  *)
(* writes.  The controls, the list and the two dialogs have an inductive   *)
(* invariant each; what they share is the types.                           *)
(***************************************************************************)
EXTENDS AdminTable, TLAPS

\* The page was clicked on the list on screen, which no search is about to
\* replace, or early.
ClickedHere ==
  ui.page > 1 => \/ clicked.early
                 \/ clicked.list = Filters(ui) /\ ui.query = ui.debounced

\* The only table whose filter cannot be taken off shows one row, so no second page.
OneRowOnly ==
  table = "customers" /\ ui.parent # None =>
    ui.page = 1 /\ entry.pages \in 0..1 /\ fetch.read.pages \in 0..1

\* What is on screen, and what the server has read for it, is recent enough.
ReadsAreRecent ==
  /\ fetch.on /\ fetch.read.has => fetch.read.version >= refetched
  /\ OwnWritesShown

\* A pending write is that of the dialog on screen, or its dialog is gone.
WritesHaveDialogs ==
  /\ formWrite.stage # "none" =>
       formWrite.orphan \/ (form.open /\ formWrite.row = form.row)
  /\ deleteWrite.stage # "none" =>
       deleteWrite.orphan \/ (deleting.row # None /\ deleteWrite.row = deleting.row)
  /\ ErrorIsItsOwn

-----------------------------------------------------------------------------
(* The controls. *)

LEMMA InitClickedHere == Init => ClickedHere
BY DEF Init, ClickedHere

LEMMA NextClickedHere == TypeOK /\ ClickedHere /\ [Next]_vars => ClickedHere'
<1> SUFFICES ASSUME TypeOK, ClickedHere, [Next]_vars PROVE ClickedHere'  OBVIOUS
<1> USE DEF ClickedHere, Filters
<1>1. ASSUME NEW term \in Terms, TypeSearch(term) PROVE ClickedHere'
  <2>1. ui'.page = 1  BY <1>1 DEF TypeSearch, Observe, TypeOK
  <2> QED  BY <2>1
<1>2. CASE Debounce  BY <1>2 DEF Debounce, Observe, TypeOK
<1>3. ASSUME NEW status \in Statuses, ChangeStatus(status) PROVE ClickedHere'
  BY <1>3 DEF ChangeStatus, Observe, TypeOK
<1>4. CASE ClearParent  BY <1>4 DEF ClearParent, Observe, TypeOK
<1>5. ASSUME NEW page \in 1..MaxPages, ClickPage(page) PROVE ClickedHere'
  <2>1. ui' = [ui EXCEPT !.page = page]  BY <1>5 DEF ClickPage, Observe
  <2>2. CASE page = 1  BY <2>1, <2>2 DEF TypeOK
  <2>3. CASE page # 1 
    <3>1. clicked' = [list |-> Filters(ui), early |-> ui.query # ui.debounced]
      BY <1>5, <2>3 DEF ClickPage
    <3>2. Filters(ui') = Filters(ui) /\ ui'.query = ui.query /\ ui'.debounced = ui.debounced
      BY <2>1 DEF TypeOK
    <3> QED  BY <3>1, <3>2
  <2> QED  BY <2>2, <2>3
<1>6. CASE UNCHANGED <<ui, clicked>>  BY <1>6
<1> QED
  BY <1>1, <1>2, <1>3, <1>4, <1>5, <1>6
  DEF Next, vars, listVars, dialogVars, ServerReads, AnswerArrives, FetchFails, Reconnect,
      Edit, AskDelete, Add, OpenForm, CloseForm, Submit, SubmitCommits, SubmitSucceeds,
      SubmitFails, CancelDelete, ConfirmDelete, DeleteCommits, DeleteSucceeds, DeleteFails

LEMMA InitOneRowOnly == Init => OneRowOnly
BY DEF Init, OneRowOnly, Started, NoData

\* A move of the controls keeps to one row, if it keeps the parent and the page.
LEMMA ObserveOneRow ==
  ASSUME TypeOK, OneRowOnly, NEW u, Observe(u),
         table = "customers" /\ u.parent # None => ui.parent # None /\ u.page = 1
  PROVE OneRowOnly'
<1>1. table' = table /\ ui' = u  BY DEF Observe
<1>2. CASE UNCHANGED listVars
  BY <1>1, <1>2 DEF OneRowOnly, listVars
<1>3. CASE ~UNCHANGED listVars
  <2>1. /\ entry' = NoData \/ entry'.pages \in PagesOf(u)
        /\ fetch' \in {Idle, Started}
    BY <1>3 DEF Observe
  <2> QED  BY <1>1, <2>1 DEF OneRowOnly, PagesOf, Idle, Started, NoData
<1> QED  BY <1>2, <1>3

LEMMA NextOneRowOnly == TypeOK /\ OneRowOnly /\ [Next]_vars => OneRowOnly'
<1> SUFFICES ASSUME TypeOK, OneRowOnly, [Next]_vars PROVE OneRowOnly'  OBVIOUS
<1>1. ASSUME NEW term \in Terms, TypeSearch(term) PROVE OneRowOnly'
  BY <1>1, ObserveOneRow DEF TypeSearch, TypeOK
<1>2. CASE Debounce
  BY <1>2, ObserveOneRow DEF Debounce, OneRowOnly, TypeOK
<1>3. ASSUME NEW status \in Statuses, ChangeStatus(status) PROVE OneRowOnly'
  BY <1>3, ObserveOneRow DEF ChangeStatus, TypeOK
<1>4. CASE ClearParent
  BY <1>4, ObserveOneRow DEF ClearParent, TypeOK
<1>5. ASSUME NEW page \in 1..MaxPages, ClickPage(page) PROVE OneRowOnly'
  <2>1. ~(table = "customers" /\ ui.parent # None)
    BY <1>5 DEF ClickPage, OneRowOnly
  <2>2. Observe([ui EXCEPT !.page = page])  BY <1>5 DEF ClickPage
  <2> QED  BY <2>1, <2>2, ObserveOneRow DEF TypeOK
<1>6. CASE ServerReads
  <2>1. PICK n \in PagesOf(ui) :
          fetch' = [fetch EXCEPT !.read = [has |-> TRUE, version |-> version,
                                           pages |-> n, failed |-> FALSE]]
    BY <1>6 DEF ServerReads
  <2>2. fetch'.read.pages = n  BY <2>1 DEF TypeOK
  <2> QED  BY <1>6, <2>2 DEF ServerReads, OneRowOnly, PagesOf
<1>7. CASE AnswerArrives
  BY <1>7 DEF AnswerArrives, OneRowOnly, Idle, NoData
<1>8. CASE FetchFails
  <2>1. [entry EXCEPT !.failed = TRUE].pages = entry.pages
    BY DEF TypeOK, Answers, NoData
  <2>2. fetch'.read.pages = 0  BY <1>8 DEF FetchFails, Started, Idle, NoData
  <2>3. entry'.pages = entry.pages  BY <1>8, <2>1 DEF FetchFails
  <2> QED  BY <1>8, <2>2, <2>3 DEF FetchFails, OneRowOnly
<1>9. CASE Reconnect
  BY <1>9 DEF Reconnect, OneRowOnly, Started, NoData
<1>10. CASE UNCHANGED <<table, ui>> /\ Refetch
  BY <1>10 DEF Refetch, OneRowOnly, Started, NoData
<1>11. CASE UNCHANGED <<table, ui, listVars>>
  BY <1>11 DEF listVars, OneRowOnly
<1> QED
  BY <1>1, <1>2, <1>3, <1>4, <1>5, <1>6, <1>7, <1>8, <1>9, <1>10, <1>11
  DEF Next, vars, listVars, Edit, AskDelete, Add, OpenForm, CloseForm, Submit,
      SubmitCommits, SubmitSucceeds, SubmitFails, CancelDelete, ConfirmDelete,
      DeleteCommits, DeleteSucceeds, DeleteFails

-----------------------------------------------------------------------------
(* The list. *)

LEMMA InitReadsAreRecent == Init => ReadsAreRecent
BY DEF Init, ReadsAreRecent, OwnWritesShown, Started, NoData

\* A move of the controls shows another list, not refetched yet, or the same.
LEMMA ObserveReads ==
  ASSUME TypeOK, ReadsAreRecent, NEW u, Observe(u) PROVE ReadsAreRecent'
<1>1. CASE UNCHANGED listVars
  BY <1>1 DEF ReadsAreRecent, OwnWritesShown, listVars
<1>2. CASE ~UNCHANGED listVars
  <2>1. entry' \in Answers(version) \cup {NoData} /\ refetched' = 0 /\ fetch' \in {Idle, Started}
    BY <1>2 DEF Observe
  <2> QED
    <3>1. entry'.version \in Nat
      <4>1. CASE entry' \in Answers(version)  BY <4>1, TableAssumption DEF Answers
      <4>2. CASE entry' = NoData  BY <4>2 DEF NoData
      <4> QED  BY <2>1, <4>1, <4>2
    <3>2. fetch'.read.has = FALSE  BY <2>1 DEF Idle, Started, NoData
    <3> QED  BY <2>1, <3>1, <3>2 DEF ReadsAreRecent, OwnWritesShown
<1> QED  BY <1>1, <1>2

LEMMA RefetchReads ==
  ASSUME TypeOK, ReadsAreRecent, Refetch PROVE ReadsAreRecent'
BY DEF Refetch, ReadsAreRecent, OwnWritesShown, Loading, Started, NoData

LEMMA NextReadsAreRecent == TypeOK /\ ReadsAreRecent /\ [Next]_vars => ReadsAreRecent'
<1> SUFFICES ASSUME TypeOK, ReadsAreRecent, [Next]_vars PROVE ReadsAreRecent'  OBVIOUS
<1>1. ASSUME NEW u, Observe(u) PROVE ReadsAreRecent'  BY <1>1, ObserveReads
<1>2. CASE Refetch  BY <1>2, RefetchReads
<1>3. CASE ServerReads
  BY <1>3 DEF ServerReads, ReadsAreRecent, OwnWritesShown, TypeOK
<1>4. CASE AnswerArrives
  BY <1>4 DEF AnswerArrives, ReadsAreRecent, OwnWritesShown, Idle, NoData
<1>5. CASE FetchFails
  <2>1. CASE fetch' = [Started EXCEPT !.attempt = 1]
    BY <2>1 DEF ReadsAreRecent, OwnWritesShown, Started, NoData
  <2>2. CASE fetch' = Idle /\ entry' = [entry EXCEPT !.failed = TRUE]
    <3>1. entry'.failed  BY <2>2 DEF TypeOK, Answers, NoData
    <3> QED  BY <2>2, <3>1 DEF ReadsAreRecent, OwnWritesShown, Idle, NoData
  <2> QED  BY <1>5, <2>1, <2>2 DEF FetchFails
<1>6. CASE Reconnect
  BY <1>6 DEF Reconnect, ReadsAreRecent, OwnWritesShown, Started, NoData
<1>7. CASE UNCHANGED listVars
  BY <1>7 DEF listVars, ReadsAreRecent, OwnWritesShown
<1> QED
  BY <1>1, <1>2, <1>3, <1>4, <1>5, <1>6, <1>7
  DEF Next, vars, listVars, TypeSearch, Debounce, ChangeStatus, ClearParent, ClickPage,
      Edit, AskDelete, Add, OpenForm, CloseForm, Submit, SubmitCommits, SubmitSucceeds,
      SubmitFails, CancelDelete, ConfirmDelete, DeleteCommits, DeleteSucceeds, DeleteFails

-----------------------------------------------------------------------------
(* The dialogs. *)

LEMMA InitWritesHaveDialogs == Init => WritesHaveDialogs
BY DEF Init, WritesHaveDialogs, ErrorIsItsOwn, Closed, NotDeleting, NoWrite

LEMMA NextWritesHaveDialogs ==
  TypeOK /\ WritesHaveDialogs /\ [Next]_vars => WritesHaveDialogs'
<1> SUFFICES ASSUME TypeOK, WritesHaveDialogs, [Next]_vars PROVE WritesHaveDialogs'
  OBVIOUS
<1> USE DEF WritesHaveDialogs, ErrorIsItsOwn
<1>1. ASSUME NEW row, OpenForm(row) PROVE WritesHaveDialogs'
  BY <1>1 DEF OpenForm, Orphan, NoError, TypeOK, Write
<1>2. CASE CloseForm  BY <1>2 DEF CloseForm, Orphan, Closed, TypeOK, Write
<1>3. CASE Submit  BY <1>3 DEF Submit, NoError, TypeOK
<1>4. CASE SubmitCommits  BY <1>4 DEF SubmitCommits, TypeOK, Write
<1>5. CASE SubmitSucceeds  BY <1>5 DEF SubmitSucceeds, Closed, NoWrite
<1>6. CASE SubmitFails  BY <1>6 DEF SubmitFails, Error, NoWrite, TypeOK
<1>7. ASSUME NEW id \in Ids, AskDelete(id) PROVE WritesHaveDialogs'
  BY <1>7 DEF AskDelete, Orphan, NoError, TypeOK, Write
<1>8. CASE CancelDelete  BY <1>8 DEF CancelDelete, Orphan, TypeOK, Write
<1>9. CASE ConfirmDelete  BY <1>9 DEF ConfirmDelete, NoWrite, NoError, TypeOK
<1>10. CASE DeleteCommits  BY <1>10 DEF DeleteCommits, TypeOK, Write
<1>11. CASE DeleteSucceeds  BY <1>11 DEF DeleteSucceeds, NoWrite, TypeOK
<1>12. CASE DeleteFails  BY <1>12 DEF DeleteFails, Error, NoWrite, TypeOK
<1>13. CASE UNCHANGED <<form, deleting, formWrite, deleteWrite>>  BY <1>13
<1> QED
  BY <1>1, <1>2, <1>3, <1>4, <1>5, <1>6, <1>7, <1>8, <1>9, <1>10, <1>11, <1>12, <1>13
  DEF Next, vars, listVars, dialogVars, TypeSearch, Debounce, ChangeStatus, ClearParent,
      ClickPage, Observe, ServerReads, AnswerArrives, FetchFails, Reconnect, Edit, Add

-----------------------------------------------------------------------------
(* The types. *)

Pending(write) == IF write.stage = "sent" THEN 1 ELSE 0

\* A commit is of a write that was sent, so the bound on those bounds the versions.
CommitsWereSent == version + Pending(formWrite) + Pending(deleteWrite) <= sent

\* The variables of the controls and the list, and those of the dialogs.
ListTypes ==
  /\ ui \in [page : 1..MaxPages \cup {1}, query : Terms, debounced : Terms,
             parent : Parents, status : Statuses]
  /\ entry \in Answers(version) \cup {NoData, [NoData EXCEPT !.failed = TRUE]}
  /\ fetch \in [on : BOOLEAN, attempt : 0..1, read : Answers(version) \cup {NoData}]
  /\ refetched \in 0..version
  /\ clicked = Unclicked \/ clicked \in
       [list : [q : Terms, parent : Parents, status : Statuses], early : BOOLEAN]

DialogTypes ==
  /\ form \in [open : BOOLEAN, row : Rows, error : ErrorType]
  /\ deleting \in [row : Rows, error : ErrorType]
  /\ formWrite \in Write /\ deleteWrite \in Write
  /\ version \in 0..sent /\ sent \in 0..MaxWrites[table]
  /\ CommitsWereSent

TInv == table \in Tables /\ ListTypes /\ DialogTypes

LEMMA TypesSplit == TInv => TypeOK
BY DEF TInv, TypeOK, ListTypes, DialogTypes

LEMMA Literals ==
  /\ NoData \in [has : BOOLEAN, version : {0}, pages : {0}, failed : BOOLEAN]
  /\ Idle \in [on : BOOLEAN, attempt : 0..1, read : {NoData}]
  /\ Started \in [on : BOOLEAN, attempt : 0..1, read : {NoData}]
  /\ NoError \in ErrorType
  /\ NoWrite \in Write
  /\ Closed \in [open : BOOLEAN, row : Rows, error : ErrorType]
  /\ NotDeleting \in [row : Rows, error : ErrorType]
  /\ "sent" \in {"none", "sent", "committed"} /\ "committed" \in {"none", "sent", "committed"}
  /\ None \in Rows
BY DEF NoData, Idle, Started, NoError, NoWrite, Closed, NotDeleting, ErrorType, Write, Rows

LEMMA InitTypes == Init => TInv
<1> SUFFICES ASSUME Init PROVE TInv  OBVIOUS
<1> USE TableAssumption DEF Init
<1>1. ListTypes
  <2>1. ui \in [page : {1}, query : {None}, debounced : {None}, parent : Parents, status : {None}]
    OBVIOUS
  <2>2. fetch \in [on : BOOLEAN, attempt : 0..1, read : Answers(version) \cup {NoData}]
    BY Literals
  <2> QED  BY <2>1, <2>2 DEF ListTypes
<1>2. DialogTypes
  BY Literals DEF DialogTypes, CommitsWereSent, Pending, Closed, NotDeleting, NoWrite
<1> QED  BY <1>1, <1>2 DEF TInv

LEMMA ObserveTypes ==
  ASSUME TInv, NEW u, Observe(u),
         u \in [page : 1..MaxPages \cup {1}, query : Terms, debounced : Terms,
                parent : Parents, status : Statuses],
         clicked' = Unclicked \/ clicked' = clicked \/ clicked' \in
           [list : [q : Terms, parent : Parents, status : Statuses], early : BOOLEAN]
  PROVE TInv'
<1>1. DialogTypes'
  BY DEF TInv, Observe, dialogVars, DialogTypes, CommitsWereSent, Pending
<1>2. version' = version /\ version \in Nat
  BY TableAssumption DEF TInv, Observe, dialogVars, DialogTypes
<1>3. CASE UNCHANGED listVars
  BY <1>1, <1>2, <1>3 DEF TInv, Observe, listVars, ListTypes
<1>4. CASE ~UNCHANGED listVars
  <2>1. entry' \in Answers(version) \cup {NoData} /\ refetched' = 0 /\ fetch' \in {Idle, Started}
    BY <1>4 DEF Observe
  <2>2. fetch' \in [on : BOOLEAN, attempt : 0..1, read : Answers(version) \cup {NoData}]
    BY <2>1, Literals
  <2> QED  BY <1>1, <1>2, <2>1, <2>2 DEF TInv, Observe, ListTypes
<1> QED  BY <1>3, <1>4

LEMMA ControlsTypes ==
  ASSUME TInv,
         \/ \E term \in Terms : TypeSearch(term)
         \/ Debounce
         \/ \E status \in Statuses : ChangeStatus(status)
         \/ ClearParent
         \/ \E page \in 1..MaxPages : ClickPage(page)
  PROVE TInv'
<1> USE TableAssumption DEF TInv, ListTypes
<1>1. ASSUME NEW term \in Terms, TypeSearch(term) PROVE TInv'
  BY <1>1, ObserveTypes DEF TypeSearch
<1>2. CASE Debounce  BY <1>2, ObserveTypes DEF Debounce
<1>3. ASSUME NEW status \in Statuses, ChangeStatus(status) PROVE TInv'
  BY <1>3, ObserveTypes DEF ChangeStatus
<1>4. CASE ClearParent  BY <1>4, ObserveTypes DEF ClearParent
<1>5. ASSUME NEW page \in 1..MaxPages, ClickPage(page) PROVE TInv'
  <2>1. [list |-> Filters(ui), early |-> ui.query # ui.debounced] \in
          [list : [q : Terms, parent : Parents, status : Statuses], early : BOOLEAN]
    BY DEF Filters
  <2> QED  BY <1>5, <2>1, ObserveTypes DEF ClickPage
<1> QED  BY <1>1, <1>2, <1>3, <1>4, <1>5

LEMMA FetchTypes ==
  ASSUME TInv, ServerReads \/ AnswerArrives \/ FetchFails \/ Reconnect PROVE TInv'
<1>1. DialogTypes' /\ UNCHANGED <<table, ui, version, refetched, clicked>>
  BY DEF TInv, ServerReads, AnswerArrives, FetchFails, Reconnect, dialogVars, DialogTypes,
      CommitsWereSent, Pending
<1> USE DEF TInv, ListTypes
<1>2. version \in 0..MaxWrites[table]  BY TableAssumption DEF DialogTypes
<1>3. CASE ServerReads
  <2>1. PICK n \in PagesOf(ui) :
          fetch' = [fetch EXCEPT !.read = [has |-> TRUE, version |-> version,
                                           pages |-> n, failed |-> FALSE]]
    BY <1>3 DEF ServerReads
  <2>2. n \in 0..MaxPages  BY TableAssumption DEF PagesOf
  <2>3. [has |-> TRUE, version |-> version, pages |-> n, failed |-> FALSE] \in Answers(version)
    BY <1>2, <2>2 DEF Answers
  <2> QED  BY <1>1, <1>3, <2>1, <2>3 DEF ServerReads
<1>4. CASE AnswerArrives
  BY <1>1, <1>4, Literals DEF AnswerArrives
<1>5. CASE FetchFails
  <2>1. [Started EXCEPT !.attempt = 1] \in [on : BOOLEAN, attempt : 0..1, read : {NoData}]
    BY Literals
  <2>2. [entry EXCEPT !.failed = TRUE] \in Answers(version) \cup {[NoData EXCEPT !.failed = TRUE]}
    BY DEF Answers, NoData
  <2> QED  BY <1>1, <1>5, <2>1, <2>2, Literals DEF FetchFails
<1>6. CASE Reconnect
  BY <1>1, <1>6, Literals DEF Reconnect
<1> QED  BY <1>3, <1>4, <1>5, <1>6

LEMMA WriteTypes ==
  ASSUME NEW write \in Write
  PROVE /\ Orphan(write) \in Write
        /\ Pending(Orphan(write)) = Pending(write)
        /\ Error(write) \in ErrorType
        /\ Pending(write) \in 0..1
<1>1. Orphan(write) \in Write /\ Orphan(write).stage = write.stage
  BY DEF Orphan, Write
<1>2. Error(write) \in ErrorType  BY DEF Error, ErrorType, Write
<1>3. Pending(write) \in 0..1  BY DEF Pending
<1> QED  BY <1>1, <1>2, <1>3 DEF Pending

\* A commit leaves what has been read older than the server, as it was.
LEMMA CommitKeepsList ==
  ASSUME ListTypes, UNCHANGED <<listVars, ui, clicked>>, version \in Nat,
         version' \in Nat, version <= version'
  PROVE ListTypes'
<1>1. Answers(version) \subseteq Answers(version')
  <2>1. 0..version \subseteq 0..version'  OBVIOUS
  <2> QED  BY <2>1 DEF Answers
<1>2. UNCHANGED <<entry, fetch, refetched>>  BY DEF listVars
<1>3. fetch' \in [on : BOOLEAN, attempt : 0..1, read : Answers(version') \cup {NoData}]
  BY <1>1, <1>2 DEF ListTypes
<1>4. entry' \in Answers(version') \cup {NoData, [NoData EXCEPT !.failed = TRUE]}
  BY <1>1, <1>2 DEF ListTypes
<1>5. refetched' \in 0..version'  BY <1>2 DEF ListTypes
<1> QED  BY <1>3, <1>4, <1>5 DEF ListTypes

LEMMA FormTypes ==
  ASSUME TInv,
         \/ \E row \in Rows : OpenForm(row)
         \/ CloseForm \/ Submit \/ SubmitCommits \/ SubmitFails
  PROVE TInv'
<1> USE DEF TInv, DialogTypes, CommitsWereSent
<1>1. UNCHANGED <<table, listVars, ui, clicked, deleting, deleteWrite>>
  BY DEF OpenForm, CloseForm, Submit, SubmitCommits, SubmitFails, listVars
<1>2. version' \in Nat /\ version <= version' => ListTypes'
  BY <1>1, CommitKeepsList, TableAssumption
<1> USE TableAssumption, Literals, WriteTypes
<1>3. version \in Nat /\ sent \in Nat /\ Pending(deleteWrite)' = Pending(deleteWrite)
  BY <1>1 DEF Pending
<1>4. ASSUME NEW row \in Rows, OpenForm(row) PROVE TInv'
  <2>1. form' \in [open : BOOLEAN, row : Rows, error : ErrorType]
    BY <1>4 DEF OpenForm
  <2>2. formWrite' = Orphan(formWrite) /\ UNCHANGED <<version, sent>>
    BY <1>4 DEF OpenForm
  <2>3. formWrite' \in Write /\ Pending(formWrite') = Pending(formWrite)  BY <2>2
  <2> QED  BY <1>1, <1>2, <1>3, <2>1, <2>2, <2>3
<1>5. CASE CloseForm
  <2>1. form' \in [open : BOOLEAN, row : Rows, error : ErrorType]
    BY <1>5 DEF CloseForm
  <2> QED  BY <1>1, <1>2, <1>3, <1>5, <2>1 DEF CloseForm
<1>6. CASE Submit
  <2>1. formWrite' \in Write  BY <1>6 DEF Submit, Write
  <2>2. Pending(formWrite) = 0 /\ Pending(formWrite') <= 1  BY <1>6 DEF Submit, Pending
  <2>3. sent' = sent + 1 /\ sent' \in 0..MaxWrites[table] /\ version' = version
    BY <1>3, <1>6 DEF Submit
  <2>4. form' \in [open : BOOLEAN, row : Rows, error : ErrorType]
    BY <1>6 DEF Submit
  <2> QED  BY <1>1, <1>2, <1>3, <2>1, <2>2, <2>3, <2>4
<1>7. CASE SubmitCommits
  <2>1. formWrite' \in Write  BY <1>7 DEF SubmitCommits, Write
  <2>2. Pending(formWrite) = 1 /\ Pending(formWrite') = 0
    BY <1>7 DEF SubmitCommits, Pending, Write
  <2> QED  BY <1>1, <1>2, <1>3, <1>7, <2>1, <2>2 DEF SubmitCommits
<1>8. CASE SubmitFails
  <2>1. form' \in [open : BOOLEAN, row : Rows, error : ErrorType]
    BY <1>8 DEF SubmitFails
  <2>2. Pending(formWrite') = 0  BY <1>8 DEF SubmitFails, Pending, NoWrite
  <2> QED  BY <1>1, <1>2, <1>3, <1>8, <2>1, <2>2 DEF SubmitFails
<1> QED  BY <1>4, <1>5, <1>6, <1>7, <1>8

LEMMA DeleteTypes ==
  ASSUME TInv,
         \/ \E id \in Ids : AskDelete(id)
         \/ CancelDelete \/ ConfirmDelete \/ DeleteCommits \/ DeleteFails
  PROVE TInv'
<1> USE DEF TInv, DialogTypes, CommitsWereSent
<1>1. UNCHANGED <<table, listVars, ui, clicked, form, formWrite>>
  BY DEF AskDelete, CancelDelete, ConfirmDelete, DeleteCommits, DeleteFails, listVars
<1>2. version' \in Nat /\ version <= version' => ListTypes'
  BY <1>1, CommitKeepsList, TableAssumption
<1> USE TableAssumption, Literals, WriteTypes
<1>3. version \in Nat /\ sent \in Nat /\ Pending(formWrite)' = Pending(formWrite)
  BY <1>1 DEF Pending
<1>4. ASSUME \/ \E id \in Ids : AskDelete(id)
             \/ CancelDelete
      PROVE TInv'
  <2>1. deleting' \in [row : Rows, error : ErrorType]
    BY <1>4 DEF AskDelete, CancelDelete, Rows
  <2>2. deleteWrite' = Orphan(deleteWrite) /\ UNCHANGED <<version, sent>>
    BY <1>4 DEF AskDelete, CancelDelete
  <2>3. deleteWrite' \in Write /\ Pending(deleteWrite') = Pending(deleteWrite)  BY <2>2
  <2> QED  BY <1>1, <1>2, <1>3, <2>1, <2>2, <2>3
<1>5. CASE ConfirmDelete
  <2>1. deleteWrite' \in Write  BY <1>5 DEF ConfirmDelete, Write
  <2>2. Pending(deleteWrite) = 0 /\ Pending(deleteWrite') <= 1
    BY <1>5 DEF ConfirmDelete, Pending
  <2>3. sent' = sent + 1 /\ sent' \in 0..MaxWrites[table] /\ version' = version
    BY <1>3, <1>5 DEF ConfirmDelete
  <2>4. deleting' \in [row : Rows, error : ErrorType]  BY <1>5 DEF ConfirmDelete
  <2> QED  BY <1>1, <1>2, <1>3, <2>1, <2>2, <2>3, <2>4
<1>6. CASE DeleteCommits
  <2>1. deleteWrite' \in Write  BY <1>6 DEF DeleteCommits, Write
  <2>2. Pending(deleteWrite) = 1 /\ Pending(deleteWrite') = 0
    BY <1>6 DEF DeleteCommits, Pending, Write
  <2>3. version' = version + 1 /\ UNCHANGED <<deleting, sent>>  BY <1>6 DEF DeleteCommits
  <2>4. ListTypes'  BY <1>2, <1>3, <2>3
  <2> QED  BY <1>1, <1>3, <2>1, <2>2, <2>3, <2>4
<1>7. CASE DeleteFails
  <2>1. deleting' \in [row : Rows, error : ErrorType]  BY <1>7 DEF DeleteFails
  <2>2. Pending(deleteWrite') = 0  BY <1>7 DEF DeleteFails, Pending, NoWrite
  <2> QED  BY <1>1, <1>2, <1>3, <1>7, <2>1, <2>2 DEF DeleteFails
<1> QED  BY <1>4, <1>5, <1>6, <1>7

\* A success closes its dialog and fetches the list again.
LEMMA SuccessTypes == ASSUME TInv, SubmitSucceeds \/ DeleteSucceeds PROVE TInv'
<1> USE TableAssumption, Literals DEF TInv
<1>1. UNCHANGED <<table, ui, clicked, entry, version, sent>>
  BY DEF SubmitSucceeds, DeleteSucceeds, Refetch
<1>2. ListTypes'
  <2>1. fetch' \in {fetch, Started} /\ refetched' \in {refetched, version}
    BY DEF SubmitSucceeds, DeleteSucceeds, Refetch
  <2>2. version \in Nat  BY DEF DialogTypes
  <2>3. fetch' \in [on : BOOLEAN, attempt : 0..1, read : Answers(version) \cup {NoData}]
    BY <2>1 DEF ListTypes
  <2> QED  BY <1>1, <2>1, <2>2, <2>3 DEF ListTypes
<1>3. DialogTypes'
  <2> USE DEF DialogTypes, CommitsWereSent
  <2>1. Pending(NoWrite) = 0 /\ Pending(formWrite) \in 0..1 /\ Pending(deleteWrite) \in 0..1
    BY DEF Pending, NoWrite
  <2>2. CASE SubmitSucceeds
    <3>1. form' \in [open : BOOLEAN, row : Rows, error : ErrorType]
      BY <2>2 DEF SubmitSucceeds
    <3>2. formWrite' = NoWrite /\ UNCHANGED <<deleting, deleteWrite>>
      BY <2>2 DEF SubmitSucceeds
    <3>3. Pending(formWrite') = 0 /\ Pending(deleteWrite') = Pending(deleteWrite)
      BY <2>1, <3>2
    <3> QED  BY <1>1, <2>1, <3>1, <3>2, <3>3
  <2>3. CASE DeleteSucceeds
    <3>1. deleting' \in [row : Rows, error : ErrorType]  BY <2>3 DEF DeleteSucceeds
    <3>2. deleteWrite' = NoWrite /\ UNCHANGED <<form, formWrite>>
      BY <2>3 DEF DeleteSucceeds
    <3>3. Pending(deleteWrite') = 0 /\ Pending(formWrite') = Pending(formWrite)
      BY <2>1, <3>2
    <3> QED  BY <1>1, <2>1, <3>1, <3>2, <3>3
  <2> QED  BY <2>2, <2>3
<1> QED  BY <1>1, <1>2, <1>3

LEMMA NextTypes == TInv /\ [Next]_vars => TInv'
<1> SUFFICES ASSUME TInv, [Next]_vars PROVE TInv'  OBVIOUS
<1>1. CASE UNCHANGED vars
  BY <1>1
  DEF vars, listVars, dialogVars, TInv, ListTypes, DialogTypes, CommitsWereSent, Pending
<1>2. ASSUME (\E id \in Ids : Edit(id)) \/ Add PROVE TInv'
  <2>1. \E row \in Rows : OpenForm(row)  BY <1>2 DEF Edit, Add, Rows
  <2> QED  BY <2>1, FormTypes
<1> QED
  BY <1>1, <1>2, ControlsTypes, FetchTypes, FormTypes, DeleteTypes, SuccessTypes
  DEF Next

-----------------------------------------------------------------------------
(* The theorems. *)

IInv ==
  /\ TInv /\ ClickedHere /\ OneRowOnly /\ ReadsAreRecent
  /\ WritesHaveDialogs

THEOREM Invariance == Spec => []IInv
<1>1. Init => IInv
  BY InitTypes, InitClickedHere, InitOneRowOnly, InitReadsAreRecent, InitWritesHaveDialogs DEF IInv
<1>2. IInv /\ [Next]_vars => IInv'
  BY TypesSplit, NextTypes, NextClickedHere, NextOneRowOnly, NextReadsAreRecent, NextWritesHaveDialogs DEF IInv
<1> QED  BY <1>1, <1>2, PTL DEF Spec

\* The state of a table keeps its types, and no answer is from the future.
THEOREM TypeCorrect == Spec => []TypeOK
<1>1. IInv => TypeOK  BY TypesSplit DEF IInv
<1> QED  BY <1>1, Invariance, PTL

\* A page number is never carried over to another list but by an early click.
THEOREM PageIsAlwaysOfThisList == Spec => []PageIsOfThisList
<1>1. IInv => PageIsOfThisList  BY DEF IInv, ClickedHere, PageIsOfThisList
<1> QED  BY <1>1, Invariance, PTL

\* However the fetches and the writes interleave, no answer that was read before the
\* last refetch of the list on screen replaces a newer one.
THEOREM OwnWritesAlwaysShown == Spec => []OwnWritesShown
<1>1. IInv => OwnWritesShown  BY DEF IInv, ReadsAreRecent
<1> QED  BY <1>1, Invariance, PTL

\* An error is shown by the dialog it is about, unless its dialog was left.
THEOREM ErrorIsAlwaysItsOwn == Spec => []ErrorIsItsOwn
<1>1. IInv => ErrorIsItsOwn  BY DEF IInv, WritesHaveDialogs
<1> QED  BY <1>1, Invariance, PTL

\* No table is left on a page without rows and without a control that leads back.
THEOREM ThereIsAlwaysAWayBack == Spec => []AlwaysAWayBack
<1>1. IInv => AlwaysAWayBack
  <2> SUFFICES ASSUME IInv, ui.page > 1
               PROVE \E control \in {"search", "status", "clear"} : Shows(control)
    BY DEF AlwaysAWayBack
  <2>1. ~(table = "customers" /\ ui.parent # None)
    BY DEF IInv, OneRowOnly
  <2>2. table \in {"customers", "shipments", "packages", "sessions"}
    BY TableAssumption DEF IInv, TInv
  <2> QED
    BY <2>1, <2>2
    DEF Shows, Controls, CustomersControls, ShipmentsControls, PackagesControls,
        SessionsControls
<1> QED  BY <1>1, Invariance, PTL
=============================================================================
