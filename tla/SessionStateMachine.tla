------------------------- MODULE SessionStateMachine -------------------------
(***************************************************************************)
(* The session states of schemas/sessions.py and the transition table of   *)
(* repositories/session_state_machine.py.  Constant-level: it has no state *)
(* of its own and is extended by every module that stores a session.       *)
(***************************************************************************)

CONSTANT None   \* the database NULL: "no customer", "no session"

\* ChatSessionState, with the values the enum gives its members.
ChatSessionState ==
  { "anonymous", "collecting_identity", "code_sent", "awaiting_code",
    "verified", "escalated_to_human", "code_expired" }

ESCALATABLE == ChatSessionState \ {"escalated_to_human"}

\* SessionStateValidator.VALID_TRANSITIONS, grouped by source state.
VALID_TRANSITIONS ==
  {"anonymous"} \X {"code_sent", "collecting_identity"}
    \cup {"collecting_identity"} \X {"code_sent", "anonymous"}
    \cup {"code_sent"} \X {"awaiting_code", "verified", "code_expired"}
    \cup {"awaiting_code"} \X {"awaiting_code", "verified", "code_expired"}
    \cup {"code_expired"} \X {"anonymous", "collecting_identity", "code_sent"}
    \cup ESCALATABLE \X {"escalated_to_human"}

\* _enforce_target_state_invariants: what the customer column must hold when
\* the target state is entered.
TargetStateAllows(to, customer) ==
  /\ to = "verified" => customer # None
  /\ to \in {"code_expired", "anonymous"} => customer = None

\* A validator that looks at the target's invariants only, not at the table.
TargetOnlyAllows(from, to, customer) == TargetStateAllows(to, customer)

\* validate_transition as update_session calls it: a write of the state the
\* session already has is never validated, not even against the target's
\* invariants; every other write must be in the table.
TransitionAllowed(from, to, customer) ==
  \/ from = to
  \/ /\ <<from, to>> \in VALID_TRANSITIONS
     /\ TargetStateAllows(to, customer)
=============================================================================
