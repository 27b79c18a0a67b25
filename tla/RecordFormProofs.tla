--------------------------- MODULE RecordFormProofs ---------------------------
(***************************************************************************)
(* RecordForm for any texts and owners.  A form turned from an edit to a   *)
(* new record keeps the owner of the edit with an empty search field; the  *)
(* browser's `required` and the reset in onChange are what keep that owner *)
(* out of the create.                                                      *)
(***************************************************************************)
EXTENDS RecordForm, TLAPS

\* A text that could be submitted is the label of the owner selected.
TextIsOfTheOwner == owner # None /\ text # Empty => text = Label[owner]

IInv == TypeOK /\ TextIsOfTheOwner /\ CreatedForWhatIsShown

LEMMA InitIInv == Init => IInv
<1> SUFFICES ASSUME Init PROVE IInv  OBVIOUS
<1>1. owner \in Owners \cup {None}  BY DEF Init
<1>2. Unsent \in [owner : Owners \cup {None}, text : Texts]  BY FormAssumption DEF Unsent
<1> QED
  BY <1>1, <1>2, FormAssumption
  DEF Init, IInv, TypeOK, TextIsOfTheOwner, CreatedForWhatIsShown

LEMMA NextKeepsIInv == IInv /\ [Next]_vars => IInv'
<1> SUFFICES ASSUME IInv, [Next]_vars PROVE IInv'  OBVIOUS
<1> USE FormAssumption
    DEF IInv, TypeOK, TextIsOfTheOwner, CreatedForWhatIsShown, searchVars
<1>1. ASSUME NEW t \in Texts, Type(t) PROVE IInv'  BY <1>1 DEF Type
<1>2. CASE Focus  BY <1>2 DEF Focus
<1>3. CASE Debounce
  <2>1. debounced' \in Texts /\ results' \subseteq Owners  BY <1>3 DEF Debounce
  <2> QED  BY <1>3, <2>1 DEF Debounce
<1>4. CASE ResultsArrive  BY <1>4 DEF ResultsArrive
<1>5. CASE Submit
  <2>1. CASE SearchField /\ owner = None  BY <1>5, <2>1 DEF Submit
  <2>2. CASE SearchField /\ owner # None
    <3>1. sent' = [owner |-> owner, text |-> text] /\ text = Label[owner]
      BY <1>5, <2>2 DEF Submit
    <3> QED  BY <1>5, <2>2, <3>1 DEF Submit
  <2>3. CASE ~SearchField
    <3>1. sent' = Unsent  BY <1>5, <2>3 DEF Submit
    <3> QED  BY <1>5, <2>3, <3>1 DEF Submit, Unsent
  <2> QED  BY <2>1, <2>2, <2>3
<1>6. CASE SubmitFails  BY <1>6 DEF SubmitFails, Unsent
<1>7. ASSUME NEW o \in Owners, Select(o) PROVE IInv'  BY <1>7 DEF Select
<1>8. ASSUME NEW edit \in BOOLEAN, TurnTo(edit) PROVE IInv'  BY <1>8 DEF TurnTo
<1>9. CASE UNCHANGED vars  BY <1>9 DEF vars
<1> QED  BY <1>1, <1>2, <1>3, <1>4, <1>5, <1>6, <1>7, <1>8, <1>9 DEF Next

THEOREM Invariance == Spec => []IInv
BY InitIInv, NextKeepsIInv, PTL DEF Spec

\* The state of a form keeps its types.
THEOREM TypeCorrect == Spec => []TypeOK
<1>1. IInv => TypeOK  BY DEF IInv
<1> QED  BY <1>1, Invariance, PTL

\* A record is created for the owner whose name the search field shows.
THEOREM AlwaysCreatedForWhatIsShown == Spec => []CreatedForWhatIsShown
<1>1. IInv => CreatedForWhatIsShown  BY DEF IInv
<1> QED  BY <1>1, Invariance, PTL
=============================================================================
