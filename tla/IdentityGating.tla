---------------------------- MODULE IdentityGating ----------------------------
(***************************************************************************)
(* The verification gate of the SecureShip backend: chat turns, tool calls *)
(* and the OTP endpoint working on the same chat_session and               *)
(* session_verification rows.                                              *)
(*                                                                         *)
(* One uvicorn worker runs every async handler on one event loop and the   *)
(* database calls block it, so a handler keeps the loop from one await to  *)
(* the next; the only await that suspends is the LLM call.  Each           *)
(* repository call is a transaction of its own.  A step of this module is  *)
(* one such transaction: `loop` names the handler that holds the event     *)
(* loop, and a crash or a database error may fall between any two steps.   *)
(***************************************************************************)
EXTENDS Integers, FiniteSets, SessionStateMachine

CONSTANTS
  Sessions,         \* ids of chat_session rows
  Customers,        \* ids of customer rows
  Handlers,         \* HTTP requests the server works on at a time
  MAX_ITERATIONS,   \* LLM completions per turn
  Faults            \* whether the process or the database may fail

ASSUME ConstantsAssumption ==
  /\ None \notin Sessions \cup Customers \cup Handlers
  /\ MAX_ITERATIONS \in Nat \ {0}
  /\ Faults \in BOOLEAN

VARIABLES
  customers,    \* the customer rows that exist
  created,      \* the chat_session rows that exist
  issued,       \* the session ids some response has put in a cookie
  session,      \* the columns of each chat_session row
  row,          \* the session_verification row of each session
  transcript,   \* the verification notes each stored transcript holds
  task,         \* what each request handler is doing, with its locals
  loop,         \* the handler that holds the event loop
  disclosed     \* history: <<s, c>>, shipments of c were read for session s

store == <<customers, created, issued, session, row, transcript, disclosed>>
vars == <<customers, created, issued, session, row, transcript, task, loop, disclosed>>

-----------------------------------------------------------------------------
\* The rows and the local state of a handler.

MaxAttempts == 3

RowStatus == {"absent", "pending", "verified", "expired", "exhausted"}

GivenUp == {"expired", "exhausted"}

Note == {"succeeded", "exhausted"}

Tool == {"request_identity_info", "start_identity_verification",
         "lookup_shipments", "escalate_to_human", "unknown_tool"}

ChatStage == Tool \cup {"plan_chat_turn", "dispatch", "mark_code_sent",
                        "set_conversation_messages", "reload", "touch_session"}

VerifyStage == {"mark_expired", "mark_exhausted", "expire_session", "note_exhausted",
                "increment_attempt", "await_code", "respond",
                "accept_code", "verify_session", "note_succeeded"}

\* AuthContext: the state and customer a handler read and goes on using.
Context == [state : ChatSessionState, customer : Customers \cup {None}]

SessionRow == [state : ChatSessionState, customer : Customers \cup {None},
               ended : BOOLEAN, stale : BOOLEAN]

VerificationRow == [status : RowStatus, attempts : 0 .. MaxAttempts,
                    customer : Customers \cup {None}, lapsed : BOOLEAN]

Task == [stage : {"idle"} \cup ChatStage \cup VerifyStage, sess : Sessions \cup {None},
         seen : Context, hist : SUBSET Note, iter : 0 .. MAX_ITERATIONS]

AbsentRow == [status |-> "absent", attempts |-> 0, customer |-> None, lapsed |-> FALSE]

IdleTask == [stage |-> "idle", sess |-> None,
             seen |-> [state |-> "anonymous", customer |-> None],
             hist |-> {}, iter |-> 0]

Init ==
  /\ customers = Customers
  /\ created = {}
  /\ issued = {}
  /\ session = [s \in Sessions |-> [state |-> "anonymous", customer |-> None,
                                    ended |-> FALSE, stale |-> FALSE]]
  /\ row = [s \in Sessions |-> AbsentRow]
  /\ transcript = [s \in Sessions |-> {}]
  /\ task = [h \in Handlers |-> IdleTask]
  /\ loop = None
  /\ disclosed = {}

-----------------------------------------------------------------------------
\* Helpers: the session repository and the life of a handler.

\* get_session returns the row; it returns None for an ended or lapsed one.
Live(s) == s \in created /\ ~session[s].ended /\ ~session[s].stale

\* get_session's side effect: a lapsed session is stamped as ended.
AfterGet(s) == [session EXCEPT ![s].ended = @ \/ session[s].stale]

Runs(h, stage) == loop = h /\ task[h].stage = stage

Goto(h, stage) == task' = [task EXCEPT ![h].stage = stage]

Finish(h) ==
  /\ task' = [task EXCEPT ![h] = IdleTask]
  /\ loop' = None

\* An exception nobody catches ends the handler with a 500.
Raise(h) == Finish(h) /\ UNCHANGED store

\* update_session(state, customer_id): reads the row, validates and writes in
\* one transaction, or raises.
UpdateSession(h, to, customer, next) ==
  LET s == task[h].sess IN
  \/ /\ TransitionAllowed(session[s].state, to, customer)
     /\ session' = [session EXCEPT ![s].state = to, ![s].customer = customer]
     /\ Goto(h, next)
     /\ UNCHANGED <<customers, created, issued, row, transcript, loop, disclosed>>
  \/ /\ ~TransitionAllowed(session[s].state, to, customer)
     /\ Raise(h)

SetStatus(h, status, next) ==
  /\ row' = [row EXCEPT ![task[h].sess].status = status]
  /\ Goto(h, next)
  /\ UNCHANGED <<customers, created, issued, session, transcript, loop, disclosed>>

AppendNote(h, note) ==
  /\ transcript' = [transcript EXCEPT ![task[h].sess] = @ \cup {note}]
  /\ Finish(h)
  /\ UNCHANGED <<customers, created, issued, session, row, disclosed>>

-----------------------------------------------------------------------------
\* POST /api/chat: opening a turn, the LLM, and the end of the turn.

\* The AgentSession snapshot: everything the turn will know of the session
\* until its first refresh.
BeginTurn(h, s) ==
  task' = [task EXCEPT ![h] =
             [stage |-> "plan_chat_turn", sess |-> s,
              seen |-> [state |-> session[s].state, customer |-> session[s].customer],
              hist |-> transcript[s], iter |-> 0]]

\* A create_session that forgets to commit the row.
ChatCreateUncommitted(h, s) ==
  /\ loop = None /\ task[h].stage = "idle"
  /\ s \notin created
  /\ BeginTurn(h, s)
  /\ UNCHANGED <<customers, created, issued, session, row, transcript, loop, disclosed>>

\* First message of a browser without a cookie.
ChatCreate(h, s) ==
  /\ loop = None /\ task[h].stage = "idle"
  /\ s \notin created
  /\ created' = created \cup {s}
  /\ BeginTurn(h, s)
  /\ UNCHANGED <<customers, issued, session, row, transcript, loop, disclosed>>

ChatResume(h, s) ==
  /\ loop = None /\ task[h].stage = "idle"
  /\ s \in issued /\ Live(s)
  /\ BeginTurn(h, s)
  /\ UNCHANGED <<customers, created, issued, session, row, transcript, loop, disclosed>>

\* The completion arrives and the handler gets the loop back.  The provider
\* may name any tool, whether or not the turn exposed it.
LLMAnswers(h) ==
  /\ loop = None /\ task[h].stage = "plan_chat_turn"
  /\ loop' = h
  /\ \E next \in Tool \cup {"set_conversation_messages"} : Goto(h, next)
  /\ UNCHANGED store

\* LLMError: 503, nothing of the turn is stored.
LLMFails(h) ==
  /\ loop = None /\ task[h].stage = "plan_chat_turn"
  /\ Raise(h)

NextToolCall(h) ==
  /\ Runs(h, "dispatch")
  /\ \E t \in Tool : Goto(h, t)
  /\ UNCHANGED <<customers, created, issued, session, row, transcript, loop, disclosed>>

\* state_refresher after the last call of a completion: only here does the
\* turn look at the session again.
RefreshUpTo(h, limit) ==
  LET s == task[h].sess
      n == task[h].iter + 1
      more == n < limit
  IN /\ Runs(h, "dispatch")
     /\ Live(s)
     /\ task' = [task EXCEPT
          ![h].seen = [state |-> session[s].state, customer |-> session[s].customer],
          ![h].iter = IF n > MAX_ITERATIONS THEN MAX_ITERATIONS ELSE n,
          ![h].stage = IF more THEN "plan_chat_turn" ELSE "set_conversation_messages"]
     /\ loop' = IF more THEN None ELSE h
     /\ UNCHANGED store

\* A loop without its ceiling.
RefreshUnbounded(h) == RefreshUpTo(h, MAX_ITERATIONS + 2)

Refresh(h) == RefreshUpTo(h, MAX_ITERATIONS)

\* The refresher raises 404 when the session ended meanwhile.
RefreshFindsNone(h) ==
  /\ Runs(h, "dispatch")
  /\ ~Live(task[h].sess)
  /\ session' = AfterGet(task[h].sess)
  /\ Finish(h)
  /\ UNCHANGED <<customers, created, issued, row, transcript, disclosed>>

\* The transcript becomes the turn's own message list, history included.
StoreTranscript(h) ==
  /\ Runs(h, "set_conversation_messages")
  /\ transcript' = [transcript EXCEPT ![task[h].sess] = task[h].hist]
  /\ Goto(h, "reload")
  /\ UNCHANGED <<customers, created, issued, session, row, loop, disclosed>>

\* Reload, falling back on the row in hand.  A blank reply is answered with a
\* 500; the reply of an exhausted loop is never blank.
Reload(h) ==
  /\ Runs(h, "reload")
  /\ session' = AfterGet(task[h].sess)
  /\ \/ Goto(h, "touch_session") /\ UNCHANGED loop
     \/ task[h].iter < MAX_ITERATIONS /\ Finish(h)
  /\ UNCHANGED <<customers, created, issued, row, transcript, disclosed>>

TouchSession(h) ==
  LET s == task[h].sess IN
  /\ Runs(h, "touch_session")
  /\ session' = [session EXCEPT ![s].stale = session[s].ended /\ @]
  /\ issued' = issued \cup {s}
  /\ Finish(h)
  /\ UNCHANGED <<customers, created, row, transcript, disclosed>>

-----------------------------------------------------------------------------
\* dispatch_tool_call and the four tools.  `seen` is the turn's AuthContext.

\* enforce_gate.
GateAllows(context) == context.state = "verified" /\ context.customer # None

UnknownTool(h) ==
  /\ Runs(h, "unknown_tool")
  /\ Goto(h, "dispatch")
  /\ UNCHANGED <<customers, created, issued, session, row, transcript, loop, disclosed>>

\* The denied branch logs context.state.value; the context's state is the
\* plain string of the database column, so it raises AttributeError.
GateDenies(h) ==
  /\ Runs(h, "lookup_shipments")
  /\ ~GateAllows(task[h].seen)
  /\ Raise(h)

\* Arguments that do not fit the tool's signature: TypeError.
MalformedArguments(h) ==
  /\ \E t \in Tool \ {"unknown_tool"} : Runs(h, t)
  /\ task[h].stage = "lookup_shipments" => GateAllows(task[h].seen)
  /\ Raise(h)

\* A lookup not scoped to the context's customer.
LookupUnscoped(h) ==
  /\ Runs(h, "lookup_shipments")
  /\ GateAllows(task[h].seen)
  /\ \E c \in customers : disclosed' = disclosed \cup {<<task[h].sess, c>>}
  /\ Goto(h, "dispatch")
  /\ UNCHANGED <<customers, created, issued, session, row, transcript, loop>>

LookupShipments(h) ==
  /\ Runs(h, "lookup_shipments")
  /\ GateAllows(task[h].seen)
  /\ disclosed' = disclosed \cup {<<task[h].sess, task[h].seen.customer>>}
  /\ Goto(h, "dispatch")
  /\ UNCHANGED <<customers, created, issued, session, row, transcript, loop>>

RequestIdentityInfo(h) ==
  /\ Runs(h, "request_identity_info")
  /\ UpdateSession(h, "collecting_identity", session[task[h].sess].customer, "dispatch")

EscalateToHuman(h) ==
  /\ Runs(h, "escalate_to_human")
  /\ UpdateSession(h, "escalated_to_human", session[task[h].sess].customer, "dispatch")

StartAllowed(context) == context.state \in {"anonymous", "collecting_identity"}

\* Wrong state, or find_by_identity matches nobody: an error result.  (Should
\* several customers match, names compare without case, scalar_one_or_none raises:
\* for the model that is MalformedArguments, an exception before any write.)
StartRefused(h) ==
  /\ Runs(h, "start_identity_verification")
  /\ Goto(h, "dispatch")
  /\ UNCHANGED <<customers, created, issued, session, row, transcript, loop, disclosed>>

\* SessionVerificationRepository.create: a plain INSERT on a unique session_id.
CreateRow(h, c) ==
  LET s == task[h].sess IN
  /\ Runs(h, "start_identity_verification")
  /\ StartAllowed(task[h].seen)
  /\ row[s].status = "absent"
  /\ row' = [row EXCEPT ![s] = [status |-> "pending", attempts |-> 0,
                                customer |-> c, lapsed |-> FALSE]]
  /\ Goto(h, "mark_code_sent")
  /\ UNCHANGED <<customers, created, issued, session, transcript, loop, disclosed>>

\* The row of an earlier code is still there: IntegrityError.
CreateRowRaises(h) ==
  /\ Runs(h, "start_identity_verification")
  /\ StartAllowed(task[h].seen)
  /\ customers # {}
  /\ row[task[h].sess].status # "absent"
  /\ Raise(h)

\* Linking the matched customer as soon as the code is sent.
MarkCodeSentLinked(h) ==
  /\ Runs(h, "mark_code_sent")
  /\ UpdateSession(h, "code_sent", row[task[h].sess].customer, "dispatch")

MarkCodeSent(h) ==
  /\ Runs(h, "mark_code_sent")
  /\ UpdateSession(h, "code_sent", session[task[h].sess].customer, "dispatch")

-----------------------------------------------------------------------------
\* POST /api/auth/verify-code.

\* One attempt too many.
CodeOutcomeOffByOne(s, right) ==
  CASE row[s].lapsed -> "mark_expired"
    [] ~row[s].lapsed /\ row[s].attempts > MaxAttempts -> "mark_exhausted"
    [] ~row[s].lapsed /\ row[s].attempts <= MaxAttempts /\ ~right -> "increment_attempt"
    [] ~row[s].lapsed /\ row[s].attempts <= MaxAttempts /\ right -> "accept_code"

\* The hash compared before anything else.
CodeOutcomeHashFirst(s, right) ==
  IF right THEN "accept_code"
  ELSE IF row[s].attempts < MaxAttempts THEN "increment_attempt" ELSE "mark_exhausted"

\* What the endpoint does with a code, in the order it looks: the row's
\* expiry, the attempts, the hash.
CodeOutcome(s, right) ==
  CASE row[s].lapsed -> "mark_expired"
    [] ~row[s].lapsed /\ row[s].attempts >= MaxAttempts -> "mark_exhausted"
    [] ~row[s].lapsed /\ row[s].attempts < MaxAttempts /\ ~right -> "increment_attempt"
    [] ~row[s].lapsed /\ row[s].attempts < MaxAttempts /\ right -> "accept_code"

\* An endpoint that does not look whether the row is verified already.
VerifyCodeTwice(h, s, right) ==
  /\ loop = None /\ task[h].stage = "idle"
  /\ s \in issued /\ Live(s)
  /\ row[s].status # "absent"
  /\ session[s].state \in {"code_sent", "awaiting_code"}
  /\ loop' = h
  /\ task' = [task EXCEPT ![h] =
       [stage |-> CodeOutcome(s, right), sess |-> s,
        seen |-> [state |-> session[s].state, customer |-> session[s].customer],
        hist |-> {}, iter |-> 0]]
  /\ UNCHANGED store

\* The reads.  A request that finds no live session, no row, a verified row or
\* another state is answered without a write and takes no step here.
VerifyCode(h, s, right) ==
  /\ loop = None /\ task[h].stage = "idle"
  /\ s \in issued /\ Live(s)
  /\ row[s].status \notin {"absent", "verified"}
  /\ session[s].state \in {"code_sent", "awaiting_code"}
  /\ loop' = h
  /\ task' = [task EXCEPT ![h] =
       [stage |-> CodeOutcome(s, right), sess |-> s,
        seen |-> [state |-> session[s].state, customer |-> session[s].customer],
        hist |-> {}, iter |-> 0]]
  /\ UNCHANGED store

\* Giving up the row and forgetting the session.
MarkRowOnly(h) ==
  Runs(h, "mark_expired") /\ SetStatus(h, "expired", "note_exhausted")

MarkRowExpired(h) ==
  Runs(h, "mark_expired") /\ SetStatus(h, "expired", "expire_session")

MarkRowExhausted(h) ==
  Runs(h, "mark_exhausted") /\ SetStatus(h, "exhausted", "expire_session")

ExpireSession(h) ==
  Runs(h, "expire_session") /\ UpdateSession(h, "code_expired", None, "note_exhausted")

\* The two notes mixed up.
NoteSwapped(h) ==
  Runs(h, "note_exhausted") /\ AppendNote(h, "succeeded")

NoteExhausted(h) ==
  Runs(h, "note_exhausted") /\ AppendNote(h, "exhausted")

IncrementAttempt(h) ==
  /\ Runs(h, "increment_attempt")
  /\ row' = [row EXCEPT ![task[h].sess].attempts = @ + 1]
  /\ Goto(h, "await_code")
  /\ UNCHANGED <<customers, created, issued, session, transcript, loop, disclosed>>

\* Writes back the customer read at the start; then the last-attempt check.
AwaitCode(h) ==
  /\ Runs(h, "await_code")
  /\ UpdateSession(h, "awaiting_code", task[h].seen.customer,
       IF row[task[h].sess].attempts >= MaxAttempts THEN "mark_exhausted" ELSE "respond")

Respond(h) ==
  Runs(h, "respond") /\ Finish(h) /\ UNCHANGED store

AcceptCode(h) ==
  Runs(h, "accept_code") /\ SetStatus(h, "verified", "verify_session")

VerifySession(h) ==
  /\ Runs(h, "verify_session")
  /\ UpdateSession(h, "verified", row[task[h].sess].customer, "note_succeeded")

NoteSucceeded(h) ==
  Runs(h, "note_succeeded") /\ AppendNote(h, "succeeded")

-----------------------------------------------------------------------------
\* Everything that happens around the handlers above.

\* get_session on a lapsed session, from any endpoint.  restore_session is a
\* plain def and runs in a worker thread, so the loop need not be free.
MarkSessionExpired(s) ==
  /\ s \in issued
  /\ session[s].stale /\ ~session[s].ended
  /\ session' = AfterGet(s)
  /\ UNCHANGED <<customers, created, issued, row, transcript, task, loop, disclosed>>

\* PATCH /api/sessions/{id}: a date closes, an explicit null reopens.
PatchSession(s, ended) ==
  /\ loop = None
  /\ s \in created
  /\ session' = [session EXCEPT ![s].ended = ended]
  /\ UNCHANGED <<customers, created, issued, row, transcript, task, loop, disclosed>>

\* The delete without the foreign key.
DeleteCustomerUnchecked(c) ==
  /\ loop = None
  /\ c \in customers
  /\ customers' = customers \ {c}
  /\ session' = [s \in Sessions |->
       IF session[s].customer = c THEN [session[s] EXCEPT !.customer = None]
                                  ELSE session[s]]
  /\ UNCHANGED <<created, issued, row, transcript, task, loop, disclosed>>

\* DELETE /api/customers/{id}.  The ORM sets customer_id of the customer's
\* sessions to NULL; the foreign key of a verification row refuses the delete.
DeleteCustomer(c) ==
  /\ loop = None
  /\ c \in customers
  /\ \A s \in Sessions : row[s].customer # c
  /\ customers' = customers \ {c}
  /\ session' = [s \in Sessions |->
       IF session[s].customer = c THEN [session[s] EXCEPT !.customer = None]
                                  ELSE session[s]]
  /\ UNCHANGED <<created, issued, row, transcript, task, loop, disclosed>>

SessionLapses(s) ==
  /\ s \in created /\ ~session[s].stale
  /\ session' = [session EXCEPT ![s].stale = TRUE]
  /\ UNCHANGED <<customers, created, issued, row, transcript, task, loop, disclosed>>

CodeLapses(s) ==
  /\ row[s].status # "absent" /\ ~row[s].lapsed
  /\ row' = [row EXCEPT ![s].lapsed = TRUE]
  /\ UNCHANGED <<customers, created, issued, session, transcript, task, loop, disclosed>>

\* A database error ends the handler that met it; what it committed stays.
DatabaseFails(h) ==
  /\ Faults
  /\ loop = h
  /\ Raise(h)

\* The process dies and restarts: every handler is gone, the rows are not.
Crash ==
  /\ Faults
  /\ task' = [h \in Handlers |-> IdleTask]
  /\ loop' = None
  /\ UNCHANGED store

-----------------------------------------------------------------------------
ChatStep(h) ==
  \/ \E s \in Sessions : ChatCreate(h, s) \/ ChatResume(h, s)
  \/ LLMAnswers(h) \/ LLMFails(h) \/ NextToolCall(h)
  \/ Refresh(h) \/ RefreshFindsNone(h)
  \/ StoreTranscript(h) \/ Reload(h) \/ TouchSession(h)

ToolStep(h) ==
  \/ UnknownTool(h) \/ GateDenies(h) \/ MalformedArguments(h)
  \/ LookupShipments(h) \/ RequestIdentityInfo(h) \/ EscalateToHuman(h)
  \/ StartRefused(h) \/ CreateRowRaises(h) \/ MarkCodeSent(h)
  \/ \E c \in customers : CreateRow(h, c)

VerifyStep(h) ==
  \/ \E s \in Sessions, right \in BOOLEAN : VerifyCode(h, s, right)
  \/ MarkRowExpired(h) \/ MarkRowExhausted(h) \/ ExpireSession(h) \/ NoteExhausted(h)
  \/ IncrementAttempt(h) \/ AwaitCode(h) \/ Respond(h)
  \/ AcceptCode(h) \/ VerifySession(h) \/ NoteSucceeded(h)

OutsideStep ==
  \/ \E s \in Sessions : \/ MarkSessionExpired(s) \/ SessionLapses(s) \/ CodeLapses(s)
                         \/ \E ended \in BOOLEAN : PatchSession(s, ended)
  \/ \E c \in Customers : DeleteCustomer(c)
  \/ \E h \in Handlers : DatabaseFails(h)
  \/ Crash

Next ==
  \/ \E h \in Handlers : ChatStep(h) \/ ToolStep(h) \/ VerifyStep(h)
  \/ OutsideStep

Spec == Init /\ [][Next]_vars

\* A handler that holds the loop runs on; the LLM answers or times out, and the
\* loop serves its ready handlers in turn, so that a handler whose completion is
\* there is not passed over forever; a completion holds finitely many tool calls,
\* so that its turn comes to the refresh.
Fairness ==
  \A h \in Handlers :
    /\ WF_vars(loop = h /\ (ChatStep(h) \/ ToolStep(h) \/ VerifyStep(h)))
    /\ SF_vars(\/ LLMAnswers(h) \/ LLMFails(h)
               \/ Refresh(h) \/ RefreshFindsNone(h))

FairSpec == Spec /\ Fairness

-----------------------------------------------------------------------------
\* Properties.

TypeOK ==
  /\ customers \subseteq Customers
  /\ created \subseteq Sessions
  /\ issued \subseteq created
  /\ session \in [Sessions -> SessionRow]
  /\ row \in [Sessions -> VerificationRow]
  /\ transcript \in [Sessions -> SUBSET Note]
  /\ task \in [Handlers -> Task]
  /\ loop \in Handlers \cup {None}
  /\ disclosed \subseteq Sessions \X Customers

\* A session carries a customer only when its own code was accepted, and then
\* it carries the customer the code was sent to; no other state than verified
\* and escalated_to_human ever has one.  Across update_session's "don't
\* change" default, the write-back of a customer read earlier, stale contexts
\* and handlers that stop half way.
CustomerIsProven ==
  \A s \in Sessions : session[s].customer # None =>
    /\ session[s].state \in {"verified", "escalated_to_human"}
    /\ row[s].status = "verified"
    /\ row[s].customer = session[s].customer

\* A verified session always has a customer, and that customer's record still
\* exists: the ORM would null the column on a delete, and only the foreign key
\* of the verification row, which nothing deletes, stands in the way.
VerifiedHasCustomer ==
  \A s \in Sessions : session[s].state = "verified" => session[s].customer \in customers

\* The three-attempt limit: no row counts a fourth attempt, and a row that
\* counted three was never accepted, whichever handler failed in between.
AttemptLimit ==
  \A s \in Sessions : /\ row[s].attempts <= MaxAttempts
                      /\ row[s].status = "verified" => row[s].attempts < MaxAttempts

\* Shipments read during a session are always those of the customer that
\* session's code was sent to, after it was accepted, although a turn checks
\* the gate on a context it may have read before an LLM call.
DisclosedToOwnerOnly ==
  \A d \in disclosed : row[d[1]].status = "verified" /\ row[d[1]].customer = d[2]

\* A row that was given up (expired or exhausted) is never pending or verified
\* again, even when the handler died before the session followed it.
VerdictIsFinal ==
  [][\A s \in Sessions : row[s].status \in GivenUp => row'[s].status \in GivenUp]_vars

\* A verified session only ever becomes escalated, and an escalated session
\* stays so, whatever a turn with an older context asks for.  This is the
\* VALID_TRANSITIONS table and the gating diagram ("Terminal state"); the diagram
\* of the escalation has an escalated session return to the rules it came from.
NoWayBack ==
  [][\A s \in Sessions :
       /\ session[s].state = "verified" =>
            session'[s].state \in {"verified", "escalated_to_human"}
       /\ session[s].state = "escalated_to_human" =>
            session'[s].state = "escalated_to_human"]_vars

\* The note that tells the model it may use the verified-only tools stands only
\* in the transcript of a session whose code was accepted, also after turns that
\* write back a history they read before.
NotesTruthful ==
  \A s \in Sessions :
    /\ "succeeded" \in transcript[s] => row[s].status = "verified"
    /\ "exhausted" \in transcript[s] => row[s].status \in GivenUp

\* Whenever no handler is in the middle of its writes, the two tables tell the
\* same story.  Only without faults: the tables are written in separate
\* transactions.
TablesAgree ==
  loop = None => \A s \in Sessions :
    session[s].state \in
      CASE row[s].status = "absent" ->
             {"anonymous", "collecting_identity", "escalated_to_human"}
        [] row[s].status = "pending" ->
             {"code_sent", "awaiting_code", "escalated_to_human"}
        [] row[s].status = "verified" -> {"verified", "escalated_to_human"}
        [] row[s].status \in GivenUp ->
             {"code_expired", "collecting_identity", "escalated_to_human"}

\* Every request ends, with an answer or with an exception: however often the LLM
\* asks for another tool, the iteration ceiling stops its turn.
RequestsEnd ==
  \A h \in Handlers : task[h].stage # "idle" ~> task[h].stage = "idle"

-----------------------------------------------------------------------------
\* The inductive invariant: what must hold between the steps of the handlers
\* for the properties above to be kept by every step.

\* The row remembers why it was given up, so the checks of a later request
\* come to the same verdict; its customer cannot be deleted.
RowInv ==
  \A s \in Sessions :
    /\ row[s].status = "absent" => row[s] = AbsentRow
    /\ row[s].status # "absent" => row[s].customer \in customers
    /\ row[s].status = "verified" => row[s].attempts < MaxAttempts
    /\ row[s].status = "exhausted" => row[s].attempts = MaxAttempts
    /\ row[s].status = "expired" => row[s].lapsed

\* What a handler found when it chose its next write still holds of the row,
\* because it has kept the loop since.
StageNeeds(r, stage) ==
  /\ stage = "mark_expired" => r.lapsed /\ r.status \in {"pending"} \cup GivenUp
  /\ stage = "mark_exhausted" =>
       r.attempts = MaxAttempts /\ r.status \in {"pending"} \cup GivenUp
  /\ stage \in {"expire_session", "note_exhausted"} => r.status \in GivenUp
  /\ stage \in {"increment_attempt", "accept_code"} =>
       r.status = "pending" /\ r.attempts < MaxAttempts
  /\ stage = "await_code" => r.status = "pending"
  /\ stage \in {"verify_session", "note_succeeded"} => r.status = "verified"

StageFits(h) ==
  LET t == task[h] IN
  /\ t.stage = "idle" => t = IdleTask
  /\ t.stage # "idle" => t.sess \in created
  /\ t.stage \notin {"idle", "plan_chat_turn"} => loop = h
  /\ t.stage \in VerifyStage => t.seen.customer = None
  /\ t.stage # "idle" => StageNeeds(row[t.sess], t.stage)

StageInv == \A h \in Handlers : StageFits(h)

\* What a turn still remembers of an older read may be out of date, but a
\* customer or a note in it is never wrong.
ContextFits(h) ==
  LET t == task[h] IN
  /\ t.seen.customer # None =>
       row[t.sess].status = "verified" /\ row[t.sess].customer = t.seen.customer
  /\ "succeeded" \in t.hist => row[t.sess].status = "verified"
  /\ "exhausted" \in t.hist => row[t.sess].status \in GivenUp

ContextInv == \A h \in Handlers : ContextFits(h)

\* The parts above together.  Every step of every handler, every failure and
\* every write from outside preserves them.
GateInv ==
  /\ TypeOK
  /\ RowInv
  /\ CustomerIsProven
  /\ VerifiedHasCustomer
  /\ StageInv
  /\ ContextInv
  /\ NotesTruthful
  /\ DisclosedToOwnerOnly

-----------------------------------------------------------------------------
\* The gate implements the challenge.

\* What a verification row says of the session's challenge.
ChallengeOf(r) ==
  [status |-> CASE r.status = "absent" -> "none"
                [] r.status = "pending" -> "open"
                [] r.status = "verified" -> "proven"
                [] r.status \in GivenUp -> "failed",
   customer |-> r.customer,
   wrong |-> r.attempts]

Challenge == [s \in Sessions |-> ChallengeOf(row[s])]

Abstract == INSTANCE OtpChallenge WITH challenge <- Challenge

\* Every step on the rows is a step of the challenge or none: a code is accepted
\* at most once, while it is open and before its third wrong entry, no new code
\* replaces one that is open or accepted, and only the owner of an accepted code
\* has shipments read.  That a failed code may be followed by a new one is part of
\* the challenge; this code never takes that step (RetrySendsCode).
ImplementsChallenge == Abstract!Spec

-----------------------------------------------------------------------------
\* What the repository says of the program and the code does not do.

\* chat.py: system messages injected by auth.py are part of the history and
\* must be preserved.
NotesPreserved ==
  [][\A s \in Sessions : transcript[s] \subseteq transcript'[s]]_vars

\* conversation-identity-gating-state-machine.md: from CodeExpired the user retries
\* with new info, and a full match sends a code.  So when the tool is called after
\* a code that failed, by a turn that may start a verification, an existing
\* customer can be sent a new one.
RetrySendsCode ==
  \A h \in Handlers, c \in customers :
    ( /\ Runs(h, "start_identity_verification")
      /\ row[task[h].sess].status \in GivenUp
      /\ StartAllowed(task[h].seen) ) => ENABLED CreateRow(h, c)
=============================================================================
