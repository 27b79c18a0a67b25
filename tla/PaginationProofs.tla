--------------------------- MODULE PaginationProofs ---------------------------
(***************************************************************************)
(* Pagination for every page size and every number of rows.                *)
(***************************************************************************)
EXTENDS Pagination, TLAPS

\* Rounding up: a page is among the pages exactly when it has a first row.
LEMMA PagesRoundUp ==
  ASSUME NEW items \in Nat, NEW page \in Nat \ {0}
  PROVE  /\ Pages(items) \in Nat
         /\ StartItem(page) <= items <=> page <= Pages(items)
<1> DEFINE n == ItemsPerPage
           q == Pages(items)
<1>1. n \in Nat /\ n >= 1  BY PageAssumption
<1>2. q \in Int /\ n * q <= items + n - 1 /\ items + n - 1 < n * (q + 1)
  BY <1>1 DEF Pages
<1>3. q >= 0  BY <1>1, <1>2
<1> QED  BY <1>1, <1>2, <1>3 DEF StartItem

\* The window of buttons of a page that exists.
LEMMA WindowOfPage ==
  ASSUME NEW pages \in Nat, NEW page \in 1..pages
  PROVE  /\ page \in Buttons(page, pages)
         /\ Buttons(page, pages) \subseteq 1..pages
         /\ 1 \in Buttons(page, pages) \/ page - 2 \in Buttons(page, pages)
         /\ pages \in Buttons(page, pages) \/ page + 2 \in Buttons(page, pages)
BY DEF Buttons, FirstButton, ButtonCount

\* The page stays at one or above, for every page size and every number of rows
\* (Pagination.tsx 26-70).
THEOREM TypeCorrect == Spec => []TypeOK
<1>1. Init => TypeOK  BY PageAssumption DEF Init, TypeOK
<1>2. TypeOK /\ [Next]_vars => TypeOK'
  <2> SUFFICES ASSUME TypeOK, [Next]_vars PROVE TypeOK'  OBVIOUS
  <2> USE DEF TypeOK
  <2>1. CASE Previous  BY <2>1 DEF Previous
  <2>2. CASE NextPage  BY <2>2 DEF NextPage
  <2>3. CASE StartOver  BY <2>3 DEF StartOver
  <2>4. CASE RowsChange  BY <2>4 DEF RowsChange
  <2>5. ASSUME NEW page \in 1..(MaxItems + 5), GoTo(page) PROVE TypeOK'
    BY <2>5, PageAssumption DEF GoTo
  <2>6. CASE UNCHANGED vars  BY <2>6 DEF vars
  <2> QED  BY <2>1, <2>2, <2>3, <2>4, <2>5, <2>6 DEF Next
<1> QED  BY <1>1, <1>2, PTL DEF Spec

\* Whenever the buttons are shown, their window is the right one.
THEOREM WindowIsAlwaysRight == Spec => []WindowIsRight
<1>1. TypeOK => WindowIsRight
  <2> SUFFICES ASSUME TypeOK, Shown
               PROVE  LET b == Buttons(currentPage, Pages(totalItems)) IN
                        /\ currentPage \in b
                        /\ b \subseteq 1..Pages(totalItems)
                        /\ 1 \in b \/ currentPage - 2 \in b
                        /\ Pages(totalItems) \in b \/ currentPage + 2 \in b
    BY DEF WindowIsRight
  <2>1. totalItems \in Nat /\ currentPage \in Nat \ {0}
    BY PageAssumption DEF TypeOK
  <2>2. Pages(totalItems) \in Nat /\ currentPage \in 1..Pages(totalItems)
    BY <2>1, PagesRoundUp DEF Shown
  <2> QED  BY <2>2, WindowOfPage
<1> QED  BY <1>1, TypeCorrect, PTL

\* No click on a button leads past the rows there are.
THEOREM ClicksAlwaysStayOnRows == Spec => ClicksStayOnRows
<1>1. TypeOK /\ [Next]_vars =>
        [UNCHANGED totalItems =>
           currentPage' = 1 \/ StartItem(currentPage') <= totalItems']_vars
  <2> SUFFICES ASSUME TypeOK, Next, UNCHANGED totalItems, currentPage' # currentPage
               PROVE  currentPage' = 1 \/ StartItem(currentPage') <= totalItems
    BY DEF vars
  <2>1. totalItems \in Nat /\ currentPage \in Nat \ {0}
    BY PageAssumption DEF TypeOK
  <2>2. Pages(totalItems) \in Nat
    BY <2>1, PagesRoundUp
  <2>3. Shown => currentPage \in 1..Pages(totalItems)
    BY <2>1, <2>2, PagesRoundUp DEF Shown
  <2>4. ASSUME currentPage' \in 1..Pages(totalItems)
        PROVE  StartItem(currentPage') <= totalItems
    BY <2>1, <2>2, <2>4, PagesRoundUp
  <2>5. CASE Previous  BY <2>1, <2>2, <2>3, <2>4, <2>5 DEF Previous
  <2>6. CASE NextPage  BY <2>1, <2>2, <2>3, <2>4, <2>6 DEF NextPage
  <2>7. CASE StartOver  BY <2>7 DEF StartOver
  <2>8. CASE RowsChange  BY <2>8 DEF RowsChange
  <2>9. ASSUME NEW page \in 1..(MaxItems + 5), GoTo(page)
        PROVE  StartItem(currentPage') <= totalItems
    BY <2>2, <2>3, <2>4, <2>9, WindowOfPage DEF GoTo
  <2> QED  BY <2>5, <2>6, <2>7, <2>8, <2>9 DEF Next
<1> QED  BY <1>1, TypeCorrect, PTL DEF Spec, ClicksStayOnRows
=============================================================================
