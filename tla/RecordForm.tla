------------------------------ MODULE RecordForm ------------------------------
(***************************************************************************)
(* The form dialogs of the admin tables, from their mounting on            *)
(* (CustomerFormModal, ShipmentFormModal, PackageFormModal).  A new        *)
(* shipment or package is tied to its owner, a customer or a shipment, by  *)
(* searching for it and clicking a result; an edit shows the owner and     *)
(* leaves it.  AdminTable has the rest of a form's life.                   *)
(*                                                                         *)
(* A text is what the search field holds.  The other fields are `required` *)
(* and no property is about them.                                          *)
(***************************************************************************)
EXTENDS Integers

CONSTANTS
  Texts,     \* what the search field may hold
  Trimmed,   \* text -> the text without the blanks around it
  Length,    \* text -> its length
  Owners,    \* the records a search may find
  Label,     \* owner -> the text a click on it leaves in the field
  Empty,     \* the empty text
  None

ASSUME FormAssumption ==
  /\ Trimmed \in [Texts -> Texts]
  /\ Length \in [Texts -> Nat]
  /\ Label \in [Owners -> Texts]
  /\ Empty \in Texts /\ Length[Empty] = 0
  /\ \A o \in Owners : Label[o] # Empty
  /\ None \notin Owners

VARIABLES
  kind,         \* "customer", "shipment" or "package"
  isEdit,       \* Boolean(initialValues)
  owner,        \* values.customer_id or values.tracking_number, None when empty
  text,         \* customerQuery or shipmentQuery
  debounced,    \* debouncedQuery
  results,      \* the answer to the search for it, {} until it is there
  showResults,
  error,        \* the selection error
  isSubmitting,
  sent          \* the create in flight: its owner and the text on display

vars == <<kind, isEdit, owner, text, debounced, results, showResults, error,
          isSubmitting, sent>>
searchVars == <<text, debounced, results, showResults>>

Unsent == [owner |-> None, text |-> Empty]

\* Only a form that creates a shipment or a package has the search field.
SearchField == kind # "customer" /\ ~isEdit

-----------------------------------------------------------------------------
\* A form for a new record, or for a row whose owner is o.
Init ==
  /\ kind \in {"customer", "shipment", "package"}
  /\ isEdit \in BOOLEAN
  /\ owner \in IF isEdit /\ kind # "customer" THEN Owners ELSE {None}
  /\ text = Empty
  /\ debounced = Empty
  /\ results = {}
  /\ showResults = FALSE
  /\ error = FALSE
  /\ isSubmitting = FALSE
  /\ sent = Unsent

\* Typing that keeps the owner selected before.
TypeKeepingOwner(t) ==
  /\ SearchField /\ ~isSubmitting
  /\ text' = t
  /\ showResults' = TRUE
  /\ UNCHANGED <<kind, isEdit, owner, debounced, results, error, isSubmitting, sent>>

\* onChange of the search field: the selection goes.
Type(t) ==
  /\ SearchField /\ ~isSubmitting
  /\ text' = t
  /\ owner' = None
  /\ showResults' = TRUE
  /\ UNCHANGED <<kind, isEdit, debounced, results, error, isSubmitting, sent>>

Focus ==
  /\ SearchField /\ ~isSubmitting
  /\ showResults' = TRUE
  /\ UNCHANGED <<kind, isEdit, owner, text, debounced, results, error, isSubmitting, sent>>

\* The 300 ms are over.  The results are those of another search now, which may
\* have been made before.
Debounce ==
  /\ debounced # Trimmed[text]
  /\ debounced' = Trimmed[text]
  /\ results' \in {{}} \cup IF Length[debounced'] >= 2 THEN SUBSET Owners ELSE {}
  /\ UNCHANGED <<kind, isEdit, owner, text, showResults, error, isSubmitting, sent>>

\* The search is enabled from two characters on; the one for shipments only while
\* creating.
SearchEnabled == Length[debounced] >= 2 /\ (kind = "shipment" \/ SearchField)

ResultsArrive ==
  /\ SearchEnabled
  /\ results' \in SUBSET Owners
  /\ UNCHANGED <<kind, isEdit, owner, text, debounced, showResults, error, isSubmitting, sent>>

\* A click that takes the name for the record.
SelectName(o) ==
  /\ SearchField
  /\ showResults
  /\ o \in results
  /\ owner' = Label[o]
  /\ text' = Label[o]
  /\ showResults' = FALSE
  /\ UNCHANGED <<kind, isEdit, debounced, results, error, isSubmitting, sent>>

\* A click on a result, which a pending write does not disable.
Select(o) ==
  /\ SearchField
  /\ showResults
  /\ o \in results
  /\ owner' = o
  /\ text' = Label[o]
  /\ showResults' = FALSE
  /\ UNCHANGED <<kind, isEdit, debounced, results, error, isSubmitting, sent>>

\* handleSubmit.  The browser wants a text in the search field first, and the
\* customer form has nothing to select.
Submit ==
  /\ ~isSubmitting
  /\ SearchField => text # Empty
  /\ IF SearchField /\ owner = None
     THEN error' = TRUE /\ UNCHANGED <<isSubmitting, sent>>
     ELSE /\ error' = FALSE
          /\ isSubmitting' = TRUE
          /\ sent' = IF SearchField THEN [owner |-> owner, text |-> text] ELSE Unsent
  /\ UNCHANGED <<kind, isEdit, owner, searchVars>>

\* The write was refused and the form stays; a success takes it away.
SubmitFails ==
  /\ isSubmitting
  /\ isSubmitting' = FALSE
  /\ sent' = Unsent
  /\ UNCHANGED <<kind, isEdit, owner, searchVars, error>>

\* The table turns the mounted form to another row, or to a new one
\* (AdminTable!OpenForm): initialValues change, the state of the form does not.
TurnTo(edit) ==
  /\ isEdit' = edit
  /\ UNCHANGED <<kind, owner, searchVars, error, isSubmitting, sent>>

Next ==
  \/ \E t \in Texts : Type(t)
  \/ Focus \/ Debounce \/ ResultsArrive \/ Submit \/ SubmitFails
  \/ \E o \in Owners : Select(o)
  \/ \E edit \in BOOLEAN : TurnTo(edit)

Spec == Init /\ [][Next]_vars

-----------------------------------------------------------------------------
TypeOK ==
  /\ kind \in {"customer", "shipment", "package"}
  /\ isEdit \in BOOLEAN
  /\ owner \in Owners \cup {None}
  /\ text \in Texts /\ debounced \in Texts
  /\ results \subseteq Owners
  /\ showResults \in BOOLEAN /\ error \in BOOLEAN /\ isSubmitting \in BOOLEAN
  /\ sent \in [owner : Owners \cup {None}, text : Texts]

\* A shipment or a package is created for the owner whose name is in the search
\* field: not for one selected before the text was changed, not for one whose
\* results came late, and not for the owner of a row the form was opened for.
CreatedForWhatIsShown ==
  sent # Unsent => sent.owner \in Owners /\ sent.text = Label[sent.owner]
=============================================================================
