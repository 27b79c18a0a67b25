------------------------------ MODULE Pagination ------------------------------
(***************************************************************************)
(* The page buttons under an admin table (components/Admin/Pagination.tsx, *)
(* shown by DataTable.tsx): which pages they offer and where a click goes. *)
(* The rows may become fewer or more between two clicks, by writes of this *)
(* table or of anybody else, and the page is not corrected when they do.   *)
(***************************************************************************)
EXTENDS Integers

CONSTANTS
  ItemsPerPage,   \* ITEMS_PER_PAGE of the tables
  MaxItems        \* bound: rows the server may have

ASSUME PageAssumption ==
  /\ ItemsPerPage \in Nat \ {0}
  /\ MaxItems \in Nat

VARIABLES
  currentPage,
  totalItems

vars == <<currentPage, totalItems>>

-----------------------------------------------------------------------------
\* Math.ceil(totalItems / itemsPerPage)
Pages(items) == (items + ItemsPerPage - 1) \div ItemsPerPage

\* A window that starts to slide one page late.
FirstButtonLate(page, pages) ==
  IF pages <= 5 \/ page <= 4 THEN 1
  ELSE IF page >= pages - 1 THEN pages - 4
  ELSE page - 3

\* The first of the numbered buttons: all pages, or a window of five around the
\* current page.
FirstButton(page, pages) ==
  IF pages <= 5 \/ page <= 3 THEN 1
  ELSE IF page >= pages - 2 THEN pages - 4
  ELSE page - 2

ButtonCount(pages) == IF pages < 5 THEN pages ELSE 5

Buttons(page, pages) == FirstButton(page, pages) .. FirstButton(page, pages) + ButtonCount(pages) - 1

\* The number of the first row of a page.
StartItem(page) == (page - 1) * ItemsPerPage + 1

\* DataTable shows the buttons under a page with rows, Pagination if there are
\* two pages or more.
Shown == Pages(totalItems) > 1 /\ StartItem(currentPage) <= totalItems

-----------------------------------------------------------------------------
Init == currentPage = 1 /\ totalItems \in 0..MaxItems

\* A Previous that the first page does not disable.
PreviousAlways ==
  /\ Shown
  /\ currentPage' = currentPage - 1
  /\ UNCHANGED totalItems

Previous ==
  /\ Shown
  /\ currentPage # 1
  /\ currentPage' = currentPage - 1
  /\ UNCHANGED totalItems

\* A Next that the last page does not disable.
NextAlways ==
  /\ Shown
  /\ currentPage' = currentPage + 1
  /\ UNCHANGED totalItems

NextPage ==
  /\ Shown
  /\ currentPage # Pages(totalItems)
  /\ currentPage' = currentPage + 1
  /\ UNCHANGED totalItems

GoTo(page) ==
  /\ Shown
  /\ page \in Buttons(currentPage, Pages(totalItems))
  /\ currentPage' = page
  /\ UNCHANGED totalItems

\* A search or a filter starts over at page 1, whatever it finds.
StartOver ==
  /\ currentPage' = 1
  /\ totalItems' \in 0..MaxItems

\* The rows change and the page stays.
RowsChange ==
  /\ totalItems' \in 0..MaxItems
  /\ UNCHANGED currentPage

Next ==
  \/ Previous \/ NextPage \/ StartOver \/ RowsChange
  \/ \E page \in 1..(MaxItems + 5) : GoTo(page)

Spec == Init /\ [][Next]_vars

-----------------------------------------------------------------------------
\* The page is one or more, so no list is asked for with a negative offset.
TypeOK == currentPage \in Nat \ {0} /\ totalItems \in 0..MaxItems

\* The numbered buttons show the page one is on and two to each side of it, unless
\* the window has reached an end, and offer only pages that exist.
WindowIsRight ==
  Shown => LET b == Buttons(currentPage, Pages(totalItems)) IN
    /\ currentPage \in b
    /\ b \subseteq 1..Pages(totalItems)
    /\ 1 \in b \/ currentPage - 2 \in b
    /\ Pages(totalItems) \in b \/ currentPage + 2 \in b

\* A click on a button never leads off the rows there are.
ClicksStayOnRows ==
  [][UNCHANGED totalItems => currentPage' = 1 \/ StartItem(currentPage') <= totalItems']_vars
=============================================================================
