----------------------------- MODULE OtpChallenge -----------------------------
(***************************************************************************)
(* What the gate promises, without handlers, transactions or LLM calls: a  *)
(* session has one code at a time, for one customer; it is accepted at     *)
(* most once, and only while fewer than three wrong ones were entered; a   *)
(* code that failed is never accepted, but a new one may follow it; and    *)
(* only the customer of an accepted code has shipments read for the        *)
(* session, for ever.  IdentityGating implements it.                       *)
(***************************************************************************)
EXTENDS Integers

CONSTANTS Sessions, Customers, None

VARIABLES
  challenge,   \* per session: the code's fate, its customer, the wrong codes entered
  disclosed    \* <<s, c>>: shipments of c were read for session s

vars == <<challenge, disclosed>>

MaxWrong == 3

NoChallenge == [status |-> "none", customer |-> None, wrong |-> 0]

Init ==
  /\ challenge = [s \in Sessions |-> NoChallenge]
  /\ disclosed = {}

\* The first code of a session, or a new one after a code that failed.
Issue(s, c) ==
  /\ challenge[s].status \in {"none", "failed"}
  /\ challenge' = [challenge EXCEPT ![s] = [status |-> "open", customer |-> c, wrong |-> 0]]
  /\ UNCHANGED disclosed

WrongCode(s) ==
  /\ challenge[s].status = "open" /\ challenge[s].wrong < MaxWrong
  /\ challenge' = [challenge EXCEPT ![s].wrong = @ + 1]
  /\ UNCHANGED disclosed

RightCode(s) ==
  /\ challenge[s].status = "open" /\ challenge[s].wrong < MaxWrong
  /\ challenge' = [challenge EXCEPT ![s].status = "proven"]
  /\ UNCHANGED disclosed

Fail(s) ==
  /\ challenge[s].status = "open"
  /\ challenge' = [challenge EXCEPT ![s].status = "failed"]
  /\ UNCHANGED disclosed

Disclose(s) ==
  /\ challenge[s].status = "proven"
  /\ disclosed' = disclosed \cup {<<s, challenge[s].customer>>}
  /\ UNCHANGED challenge

Next ==
  \E s \in Sessions :
    \/ \E c \in Customers : Issue(s, c)
    \/ WrongCode(s) \/ RightCode(s) \/ Fail(s) \/ Disclose(s)

Spec == Init /\ [][Next]_vars
=============================================================================
