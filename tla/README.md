# SecureShip: verification of the identity gate and of its clients

SecureShip is a shipment support chat. A customer talks to an LLM agent; before the
agent may read shipments, the customer proves who they are with a one-time code sent to
the phone number on record. Administrators manage customers, shipments, packages and
chat sessions. The backend is FastAPI over PostgreSQL, the frontend is React.

This directory holds TLA+ models of the program, the TLC configurations that check
them and proofs checked by TLAPS. `PROJECT.json` maps every definition to the lines
it models. Paths below are relative to `src/`; `app/` stands for `backend/app/`.

## 1. The system

| Component | State | Operations | Source |
|---|---|---|---|
| Session states | none | transition table, target invariants, same-state shortcut | `app/schemas/sessions.py`, `app/repositories/session_state_machine.py` |
| Session store | `chat_session` rows: state, customer, `ended_at`, `expires_at`, transcript | create, get (stamps a lapsed session as ended), touch, update, transcript write and append | `app/repositories/chat_sessions.py` |
| OTP endpoint | `session_verification` rows: status, attempts, expiry, customer | `POST /api/auth/verify-code` | `app/routers/auth.py`, `app/repositories/session_verification.py` |
| Chat turn and agent loop | snapshot of the session, message list, iteration | `POST /api/chat`, `execute_turn`, `_refresh_state` | `app/routers/chat.py`, `app/agent/agent.py` |
| Tool dispatch and tools | `AuthContext` of the turn | gate, `request_identity_info`, `start_identity_verification`, `lookup_shipments`, `escalate_to_human` | `app/services`, `app/tools` |
| LLM adapter | none | one completion, or `LLMError` | `app/llm` |
| Session administration | `chat_session` rows | list, close, reopen | `app/routers/sessions.py` |
| Customer, shipment, package administration | their tables, foreign keys, unique constraints | create, read, update, delete, search | `app/routers`, `app/repositories` |
| Chat client | session id, local state, restore cache, OTP dialog, messages | send, stop, verify, dismiss, close, restore | `frontend/src/pages/ChatPage.tsx`, `frontend/src/hooks/useSessionPersistence.ts`, `frontend/src/components/Chat` |
| Request layer | in-flight requests by URL | fetch, cancel, the calls of the generated client | `frontend/src/api/generated` |
| Dashboard | tab in the URL, browser history, three filters | sidebar, row buttons, Back and Forward | `frontend/src/pages/AdminPage.tsx` |
| Admin tables | page, search, filter, list cache, dialogs, pending writes | list, create, edit, delete, paginate | `frontend/src/components/Admin` |
| Route guards and admin login | route, Auth0 state, permission, token getter | redirect, log in and out | `frontend/src/App.tsx`, `frontend/src/components/Auth`, `frontend/src/auth`, `app/dependencies.py` |

**How they interact.** A browser is known by a cookie that holds the session id. A chat
request takes a snapshot of its session, hands it to the agent loop and awaits the LLM.
The LLM answers with text or with tool calls; each call passes `dispatch_tool_call`,
which checks the gate on an `AuthContext` the turn built from an earlier read. Tools
write `chat_session` and `session_verification` through the repositories. The code
itself does not pass through the chat: the client posts it to `verify-code`, which
writes the same two rows and appends a system note to the transcript, so that the next
turn's model knows. At its end the turn replaces the whole transcript. Administrators
close, reopen and delete rows at any time.

In the browser every page talks to the backend through the generated client and
`customFetcher`; React Query keeps the answers of queries and aborts them when nobody
looks. The chat page puts together what it restored, what it sent in this visit and what
the server answered. A table of the dashboard lists a page of rows under its controls and
refetches after its own writes. The guards decide from the Auth0 SDK's answers which page
a route shows, and whether requests carry a token.

**Where it is hard.**

* *Interleaving.* One worker (`fastapi run`) runs the async handlers on one event loop.
  Database calls block the loop, so a handler keeps it from one await to the next; the
  only await that suspends is the LLM call, and during it any other request for the same
  session may run. `restore_session` is a plain `def` and runs in a thread at any time.
* *Stale state.* A turn decides on the state it read before the LLM call, or after the
  previous batch of tool calls, and writes back a transcript it read at its start.
* *Partial failure.* Every repository call is a transaction of its own. `verify-code`
  writes up to three times and sending a code twice; a failure falls between them.
* *Time.* A session lapses and a code expires at any moment, also inside a handler.
* *Termination.* The model may call tools for ever.
* *Answers out of order.* In the browser any answer may meet a page that has been left,
  reloaded, turned to another row or filter, or told meanwhile that its session is over.
  Requests outlive their page, and still set and delete cookies.
* *Two copies.* Restored and local messages, a list and the writes made on it, a form's
  fields and the row it was opened for, a tab in the URL and filters in the page, React's
  state and the effects that follow it: each pair is updated at different times.

**What makes each component correct.**

* Session states: a verified session never returns to an unverified state; a customer
  is set only where the state allows one.
* OTP endpoint: three attempts at most; a code that was given up stays so; only the
  customer the code was sent to is linked, and only after the right code.
* Tools and gate: shipments are read only for the customer who proved the session's
  code.
* Chat turn: every turn ends; the notes in a transcript are true.
* Session store: the rows of the two tables agree when nothing failed in between; a closed
  session takes no new prompt.
* Administration: a delete never leaves a verified session without its customer.
* Chat client: the badge "Verified" is earned; what a 410 took away does not come back; a
  closed session takes no more prompts; no spinner stays.
* Request layer: a call settles once; an abort asked for once the request is out is never
  followed by a late answer, and no other call ends in AbortError; Stop aborts a chat
  request or nothing.
* Dashboard and tables: the table on screen has the filter that was asked for; no late
  answer undoes the refetch after a write; a create goes to the owner on display; there is
  always a way on.
* Route guards: the admin page follows an admin's token; no screen loads or redirects for
  ever.

Where the code falls short of what its documents say, section 3 says so.

`PROJECT.json` lists the hazards at their lines, with the properties that cover them or the
reason why none does.

## 2. The modules

| Module | What it is |
|---|---|
| `SessionStateMachine` | the session states and `validate_transition`, constant-level |
| `IdentityGating` | the core: chat turns, tools, `verify-code`, session and customer writes on shared rows |
| `OtpChallenge` | the abstract promise of the gate, which `IdentityGating` implements |
| `ChatClient` | the chat page against the server as it sees it; extends `SessionStateMachine` |
| `ApiClient` | the calls of the generated client, constant-level |
| `RequestLayer` | `customFetcher` and `cancelRequest` under those calls |
| `CancellableRequests` | the abstract promise of the request layer, which `RequestLayer` implements |
| `AdminPage` | the dashboard: tab, history and filters |
| `AdminTables` | what each of the four tables asks for, offers and submits, constant-level |
| `AdminTable` | one mounted table: controls, list, form, delete dialog and their writes |
| `RecordForm` | the search for an owner inside a form |
| `Pagination` | the page buttons |
| `RouteGuards` | one browser tab: routes, guards, Auth0 wiring, token getter |
| `MC...` | each of them on small sets for TLC, with its symmetry sets |
| `...Proofs` | theorems about `IdentityGating`, `ChatClient`, `RequestLayer`, `AdminPage`, `AdminTable`, `RecordForm`, `Pagination` and `RouteGuards`, for all values of their constants |

### IdentityGating

**One step is one database transaction.** `loop` names the handler that holds the event
loop, or `None`. A handler that waits for the LLM (`stage = "plan_chat_turn"`) has
released it; one that is between two transactions has not, so no other handler moves.
A handler's `stage` is the repository call or tool it makes next; `seen` is the
`AuthContext` (and, in `verify-code`, the customer read at the start that
`update_session` writes back); `hist` is the transcript its snapshot holds; `iter`
counts completions with tool calls.

| Variable | Code |
|---|---|
| `customers` | customer rows |
| `created` | chat_session rows |
| `issued` | session ids some response put in a cookie |
| `session` | `state`, `customer_id`, `ended_at` is set (`ended`), `expires_at` has passed (`stale`) |
| `row` | session_verification: `status` (`"absent"`: no row), `attempts`, `matched_customer_id`, `expires_at` has passed (`lapsed`) |
| `transcript` | which verification notes the stored transcript holds |
| `task`, `loop` | request handlers with their locals; the event loop |
| `disclosed` | history: whose shipments were read for which session |

| Actions | Code |
|---|---|
| `ChatCreate`, `ChatResume`, `LLMAnswers`, `LLMFails`, `StoreTranscript`, `Reload`, `TouchSession` | `chat()` |
| `NextToolCall`, `Refresh`, `RefreshFindsNone` | the loop of `execute_turn`, `_refresh_state` |
| `UnknownTool`, `GateDenies`, `MalformedArguments` | `dispatch_tool_call` |
| `LookupShipments`, `RequestIdentityInfo`, `EscalateToHuman`, `StartRefused`, `CreateRow`, `CreateRowRaises`, `MarkCodeSent` | the four tools |
| `VerifyCode` and the `VerifyStage` actions | `verify_code()`, one action per write |
| `MarkSessionExpired` | `get_session`'s stamp, from any endpoint and from the restore thread |
| `PatchSession`, `DeleteCustomer` | administration |
| `SessionLapses`, `CodeLapses` | time |
| `DatabaseFails`, `Crash` | a transaction raises; the process dies and restarts |

`UpdateSession` is `update_session`: it validates with `TransitionAllowed` inside its
own transaction and raises when the table refuses, which ends the handler with a 500.

**Abstractions.** A code is right or wrong. An identity that the model sends matches
some customer or none (`CreateRow` takes any customer, `StartRefused` none): the names
are the model's and the caller's, and the gate must be correct for all of them.
`find_by_identity` compares names without case, while the unique constraint does not, so it
may also match several and raise, before any write: that is `MalformedArguments` here. The
provider may name any tool, whether or not the turn exposed it, because `dispatch` does
not look at what was exposed. Time is two independent events. The cookie is `issued`: a
request carries any id that was once put in one. `get_session`'s read and its stamp are
one step here, so a touch in between is not overtaken. A customer's
shipments, which also block a delete, are left out, so the model deletes more often than
the program. Sending the SMS is a log line and has no step.

### ChatClient

The browser, the network and the server take separate steps. A turn (`turn`, one request
per prompt) is sent with the cookie of that moment, taken up (`ChatAccepted`: a 410, a new
session, or the agent runs on the transcript read now), served (`ChatServed`) and its answer
handled. While it runs its tools write the state of the session (`ToolWrites`), and what
they wrote stays however the turn ends. `listener` says who still hears it:
the page, nobody on screen because the page was left by in-app navigation (the answer then
sets or deletes the cookie and shows nothing), or nobody at all after Stop or a reload.

| Variable | Code |
|---|---|
| `server`, `proved` | the sessions: state, open or ended, verification row, transcript; which were verified |
| `cookie` | the `session_id` cookie |
| `cache` | React Query's entry of the restore query: data, failed, fresh, the fetch under way |
| `page`, `ui` | the route; the state of `ChatPage` and of `useSessionPersistence` |
| `turn`, `verify`, `close` | the requests in flight |
| `closed` | history: sessions whose close was confirmed to the browser |
| `left` | what is left of the bounds of this behaviour |

`restorationData`, `sessionId`, `sessionState`, `displayMessages` and
`shouldShowOtpModal` are the derived values of the hook and the page. The server is
abstract: `IdentityGating` has it in detail, and `ToolWrites` and `VerifyServed` take
the transitions that module allows. `verify` and `close` hold a slot for each of
`Calls`: the page has one code and one close under way at most, but those of an earlier
visit may still be out, and a page mounted anew does not know of them. A message is a
prompt, or the reply or the apology to it. Toasts, drafts and errors inside a dialog are
left out.

A tool does not ask whether its session is still open: `update_session` looks only at the
transition. A turn that outlives its session therefore writes and stores on, and answers
the state it read when it began, because the reload at its end finds nothing. (In the code
the refresh after such a write ends the turn with a failure; the model allows that and a
reply.) That an administrator reopens an ended session is in `IdentityGating` only.

### RequestLayer

A step is what JavaScript runs between two awaits: the call up to the token, the
registration of its controller and the fetch, the headers, the body. `pendingRequests` is
the map of `fetcher.ts`; `req` holds the locals of every call; `newest` is history. React
Query is external and fires a query's signal at any time; an abort that comes before the
listener is attached is lost, as in the code. `ApiClient` gives each of the 19 calls the
pages make its method, its URL and whether it runs under a signal.

`CancellableRequests` has a call prepare its request, send it and settle. Its abort is
*asked for* when its signal fires or Stop aborts its controller, and it is *heard* when the
request is out by then; an abort asked for during the preparation is lost, and that is part
of the promise, because the pages have to live with it. The refinement maps the token await
to `"preparing"` and every later stage to `"out"`; `asked` is read from the signal, and only
`heard` from the controller.

### AdminPage, AdminTable, RecordForm, Pagination

`AdminPage` keeps the tab in the browser's history and the filters in the page, and
renders a new URL as a step of its own (React Router does it in a transition), so filters
may be rendered before the tab. `mounted` is the filter the table on screen works with:
shipments and packages copy theirs when they mount, customers use the one they are given.

`AdminTable` is one mounted table of any of the four kinds; what differs between them
comes from `AdminTables`. Its list goes through React Query: the entry found when the
controls change is any answer an earlier visit may have left, fresh or not, also one from
before a write; a fetch is retried once; `refetch()` starts over but joins a first load.
`version` counts the writes of this page the server has committed, and an answer carries
the version it was read at, so "the list as it was after the write" can be said without
rows; `refetched` is the version of the last `refetch()` made for the list on screen. A
write is sent, committed and answered in separate steps, or fails, also after it was
committed. Edit or Add can be pressed behind an open form, because the dialog is not modal;
`orphan` records that a write's own dialog was turned or closed. The fields of the form are
left out. The server's part is mapped to the handlers and queries of the customers; those
of the other tables are built alike.

`RecordForm` has the part of a form `AdminTable` leaves out: typing, the debounced search,
results that come late, the click on one, and `TurnTo`, the moment the table turns the
mounted form. `Pagination` has the buttons over any number of rows, which may change
between two clicks.

### RouteGuards

One tab from page load to page load. A load starts the scripts over; the SDK's answers,
React's effects (`Effects`: the token getter, and `ProtectedRoute`'s request for a token)
and the user's clicks are steps. The session at Auth0 may end or change hands at any time.
After a login that failed its parameters stay in the URL until the route changes, so that a
`Reload` fails again.

## 3. What is checked

States are distinct states.

| Run | Bounds | Shows | States |
|---|---|---|---|
| `gating_safety` | 1 session, 2 customers, 2 handlers, 2 completions, faults | `CustomerIsProven`, `VerifiedHasCustomer`, `AttemptLimit`, `DisclosedToOwnerOnly`, `NotesTruthful`, `VerdictIsFinal`, `NoWayBack`, the inductive invariant `GateInv`, `ImplementsChallenge` | 760 thousand |
| `gating_no_faults` | 1 session, 1 customer, 2 handlers, 2 completions, fairness | `TablesAgree`, `RequestsEnd` | 443 thousand |
| `gating_lost_note` | 1 session, 1 customer, 2 handlers, 2 completions | `NotesPreserved` is violated | |
| `gating_retry` | 1 session, 1 customer, 1 handler, 2 completions | `RetrySendsCode` is violated | |
| `requests` | 3 calls of the chat, the restore and a list | `EntriesAreInFlight`, `NewestIsCancellable`, `ImplementsPromise`, `StopAbortsOnlyChat` | 150 thousand |
| `chat` | 2 sessions, 2 code and 2 close requests at once, and one of five budgets (below) | `VerifiedBadgeEarned`, `ForgottenStaysForgotten`, `ReplyFollowsItsPrompt`, `ClosedTakesNoMore` | 1.9 million |
| `chat_settles` | 2 sessions, 2 prompts, 1 visit, 1 fault, closing or codes, fairness | `SubmittedIsAnswered`, `ClosingEnds` | 213 thousand |
| `admin_page` | 2 customers, 2 shipments, history of 4 | `TypeOK`, `ShowsWhatWasAsked`, `SidebarEndsFilters` | 82 thousand |
| `tables` | all 4 tables, 2 pages, with and without parent, search and status, 1 row, 1 write in customers and in packages, fairness | `PageIsOfThisList`, `OwnWritesShown`, `ErrorIsItsOwn`, `AlwaysAWayBack`, `LoadingEnds` | 366 thousand |
| `record_form` | 2 owners, 7 texts with blanks | `CreatedForWhatIsShown` | 2084 |
| `pagination` | 30 rows, 3 to a page | `WindowIsRight`, `ClicksStayOnRows` | 310 |
| `routes` | an admin and another account, fairness | `AdminPageIsGranted`, `NoLoginLoop`, `EveryScreenSettles` | 390 |

**Why the bounds are enough.** *Gate.* All conflicts are between handlers on one
session, so one session with two handlers has every pair of them: turn against turn,
turn against code, code against code. Two customers are needed to link the wrong one;
two completions make a turn refresh its context, go back to the LLM and meet the
ceiling. *Requests.* Three calls to one URL are the fewest in which a replaced entry, a
newer one and the end of the oldest meet; which URLs clash is settled for every call of
the client by `ClientCallsFit` (section 4). *Chat.* A session that expires under a
request needs two prompts, and a third to go on after it; a request that outlives its
page needs a second visit; one-time codes, Stop, closing and the writes of the tools
multiply each other, so each behaviour starts with one of five budgets: codes and tools
(2 prompts, 2 visits, 1 fault), all of them (2 prompts, 1 visit), Stop (3 prompts, 2
visits, 1 fault), closing (the same), closing and tools (2 prompts, 2 visits). A visit
sends one code and one close at a time, so two slots for two visits exclude nothing, nor
does one slot for the one visit of `chat_settles`. *Tables.* A row and the form for a
new one are two dialogs to mix up, one write is enough for an answer to be read before
it and arrive after it, and two pages to be on the wrong one. The dialogs are the same
in every table that writes; they run in customers, which has no way to clear its filter,
and in packages, which has one. *Form.* Texts below, at and above the two characters
from which a search starts, equal only after trimming. *Pagination.* Ten pages: both
ends, the middle, and windows of fewer than five. Model values of one set are
interchangeable where a run uses symmetry; no run with fairness does. The theorems
remove the bounds for every safety property.

`MAX_ITERATIONS` is 6 in `agent.py`; it is a constant here. `MaxAttempts` is the 3 that
`auth.py` writes out. Every run checks for deadlock except those of `ChatClient`, where the
customer may have nothing left of the budget.

**Fairness.** Nothing is assumed of users, administrators, time or other tabs.

* `IdentityGating`: weak fairness of a handler that holds the loop (Python between two
  awaits runs on); strong fairness of a turn getting from the LLM to its tool calls and
  back: of `LLMAnswers`/`LLMFails` (the client answers or times out, any exception becomes
  `LLMError`, and the event loop serves its ready handlers in order, though another may hold
  it in between) and `Refresh` (a completion holds finitely many tool calls; each leaves and
  re-enters `dispatch`), as one condition. Nothing is assumed of how often the LLM asks for
  another tool.
* `ChatClient`: a request that was sent is taken up, served and answered, or fails, because
  the server and the browser answer or give up.
* `AdminTable`: a fetch gets on, for the same reason. `LoadingEnds` excepts a user who moves
  the controls for ever.
* `RouteGuards`: React runs effects and renders redirects; the SDK's promises settle.
  `EveryScreenSettles` excepts a user who reloads for ever.

### Where the code and its documents disagree

* `gating_lost_note`: a turn that slept in the LLM call overwrites the note that
  `verify-code` appended meanwhile (`chat.py:91`), against the comment at `chat.py:77-79`.
* `gating_retry`: after a code that expired or was entered wrong three times no second one
  can be sent to the session: the old row stays and `session_id` is unique, so the insert
  raises (`CreateRowRaises`). The gating diagram
  (`docs/diagrams/conversation-identity-gating-state-machine.md:25` and `:12`), the
  "Recovery flows" of the transition table (`session_state_machine.py:34-37`) and the page ("Please request a new one.",
  `ChatPage.tsx:103`) all say that it can. `OtpChallenge` allows a new code after one that
  failed, so that the promise is the documented one and the gate, which never takes that
  step, still implements it.
* `NoWayBack` (in `gating_safety`): an escalated session stays escalated, as the gating
  diagram says (line 32, "Terminal state"). `docs/diagrams/human-escalation-sequence.md:20-21`
  says that it "returns to Anonymous gating rules" or "to Verified gating rules".
* A denied tool call ends its request with an exception (`GateDenies`), because
  `dispatch.py:60` reads `.value` of a string, while `dispatch.py:37` promises a result that
  is "always ToolResult.to_dict() shape". `RequestsEnd` therefore says that a request ends,
  not that it is answered well. It is one line of sequential code and no run is spent on it.

### What the models show of the code besides

These are behaviours of the models, each faithful to the code, that a reader of the
properties should know; the properties are stated so that they hold beside them.

* A lookup may run for a session that was escalated, closed or has lapsed since the turn
  read it; the data still belongs to the customer who proved the code.
* A page loaded while its session is `awaiting_code` does not show the code dialog
  (`verificationRequired` looks at `code_sent` only).
* A page entered within 30 s of its last restore shows the cached conversation, also of a
  session that is over; a refetch that fails takes the restored session id away.
* A refetch after a turn of this visit shows the turn twice.
* A session whose code was created but which never became `code_sent`, because of a crash
  or a refused transition in between, can get no other code either.
* The badge "Verified" may stand over another session of the browser than the one that was
  verified (`VerifiedBadgeEarned` says that one was).
* Of two chat calls to one URL only the one registered last can be cancelled, and an abort
  during the token await is lost.
* A list cached before a write (another page, search or filter) is shown again without the
  write for up to 30 s: `refetch()` reaches the list on screen only. A refetch that joins a
  first load may show the list as it was before the write, too. `OwnWritesShown` is about
  the list that was refetched.
* After Edit was pressed behind an open form, its Save sends the first row's values to the
  second row, because the form keeps its fields and the table changes the row; the model
  has the turned form, not the fields. A page clicked inside the debounce is kept for the
  new list (`early` in `PageIsOfThisList`); the error of a write whose dialog was left is
  shown in the next one (`orphan` in `ErrorIsItsOwn`).
* A chat page entered when the user is lost has the token getter until the effect has run.
* After Back and Forward a table is shown under the filter set last for its view, not
  under the one it had in that entry.

## 4. What is proved

Each module of proofs uses only the named assumptions of the module it is about.

| Module | Theorems | Runs' properties proved for all constants |
|---|---|---|
| `IdentityGatingProofs` | `GateInvariant`, `TypeCorrect`, `CustomerProven`, `VerifiedCustomerExists`, `ThreeAttempts`, `OwnerOnly`, `NotesAreTrue`, `VerdictsStand`, `StatesNeverGoBack`, `GateImplementsChallenge`; assuming `~Faults`: `TablesAlwaysAgree` | all of `gating_safety`, and all of `gating_no_faults` except `RequestsEnd` |
| `ChatClientProofs` | `InvariantHolds`, `TypeCorrect`, `BadgeIsAlwaysEarned`, `ForgottenAlwaysStays`, `RepliesAlwaysFollow`, `ClosedNeverTakesMore` | all of `chat` |
| `RequestLayerProofs` | `TypeCorrect`, `EntriesAlwaysInFlight`, `NewestAlwaysCancellable`, `StopAbortsNothingElse`, `LayerImplementsPromise` | all of `requests` |
| `AdminTableProofs` | `TypeCorrect`, `PageIsAlwaysOfThisList`, `OwnWritesAlwaysShown`, `ErrorIsAlwaysItsOwn`, `ThereIsAlwaysAWayBack` | all of `tables` except `LoadingEnds` |
| `AdminPageProofs` | `TypeCorrect`, `AlwaysShowsWhatWasAsked`, `SidebarAlwaysEndsFilters` | all of `admin_page` |
| `RecordFormProofs` | `TypeCorrect`, `AlwaysCreatedForWhatIsShown` | all of `record_form` |
| `PaginationProofs` | `TypeCorrect`, `WindowIsAlwaysRight`, `ClicksAlwaysStayOnRows` | all of `pagination` |
| `RouteGuardsProofs` | `TypeCorrect`, `AdminPageIsAlwaysGranted`, `LoginNeverLoops` | all of `routes` except `EveryScreenSettles` |

The type invariants of `ChatClient`, `RequestLayer`, `AdminTable`, `RecordForm`,
`Pagination` and `RouteGuards` are proved and not checked by a run; that of
`IdentityGating` is part of `GateInv`.

**Why a strengthening is needed.** None of the invariants is inductive by itself.

*IdentityGating.* A session is linked to a customer by a handler that checked the row two
transactions earlier, and a turn lets shipments be read on the word of a context it took
before an LLM call. `GateInv` adds what connects them.

* `RowInv`: a row remembers why it was given up (an exhausted row counts three, an
  expired one has lapsed), so a later request comes to the same verdict, even when the
  handler died before the session followed. Its customer exists, because the foreign
  key refuses the delete.
* `StageInv`: what a handler found when it chose its next write still holds of the
  row. A handler in the middle of its writes holds the loop (`loop = h`), and what may
  still move, the passing of time, only makes a row lapse.
* `ContextInv`: what a turn remembers may be out of date, but a customer or a note in
  it is never wrong. This rests on `KeepsVerdicts`: an accepted row stays accepted for
  the same customer, and a given-up one stays given up.

The proof goes by tables. `RowWriters`, `SessionWriters`, `TranscriptWriters` and
`Disclosers` name the few steps that write each table; `RowsPreserved`,
`SessionsPreserved`, `NotesArePreserved` and `DisclosurePreserved` treat those.
`OneMoves` reduces the handlers to the one that moves, by `KeepsVerdicts` and because
the others are idle or wait for the LLM; `FinishKeeps`, `GotoKeeps`, `UpdateKeeps` and
`BeginKeeps` then cover each way a handler can move. For the refinement, each row write
is shown to be one step of `OtpChallenge` or none (`RowStepsImplement`).

*The two tables.* A session and its row are written in separate transactions, so between
the two they disagree, and a crash there leaves them so: the theorem assumes `~Faults`, as
the run does. `AgreementInv` says what `Fits` each stage of the handler that holds the loop
(a code accepted but not yet linked, a row created but not yet announced) and that every
other session agrees. Each step of a handler then touches one session (`StepKeeps`); an
`update_session` either writes what fits the next stage, or is refused by the validator
where the tables agree already (`UpdateAgrees`). The only refusal in the middle of two
writes is that of `mark_code_sent` for an escalated session, a state that fits every row.

*ChatClient.* The page believes what four sources tell it (a cache, a reply, the answer to
a code, its own memory), each of which may be older than any other.

* `VerifiedIsProved`: while nothing was proved, none of these sources says "verified", nor
  does anything in flight or on the server that could become one.
* `PendingIsShown`: only the pending prompt still has the page as its listener, and it
  stands among the messages of this visit. So a reply follows its prompt, and when a 410
  empties the page there is no other answer left that could reach it.
* `UnsentIsUnknown` and `ForgottenIsGone`: a prompt not sent yet is mentioned nowhere, not
  even in a history some turn works on, so a new message is none of those forgotten; and
  what was restored is shut out from the moment something was forgotten (`invalidated`).
* `ClosedIsOver`: a session whose close was confirmed has ended for good, so a turn sent
  afterwards runs on another; and what was sent afterwards stands in no transcript of the
  closed one, nor in the history of a turn still running there, which it will write back.
* `RequestsFit`: what the stages of a request say of its other fields.

The proof first shows for each variable which actions write it (`ServerWriters`,
`TurnWriters`, `CacheWriters`, `UiWriters` and others), then what a step makes of one part
of the state (`TranscriptSteps`, `RequestSteps`, `CacheSteps`, `LocalSteps`,
`ForgottenSteps`, `ColumnSteps`); the invariants are each proved from those.

*RequestLayer.* `IInv` adds that a call not yet registered was not aborted
(`FreshIsUntouched`: an abort before the listener is lost), that the newest call of a URL
was registered there (`NewestWasRegistered`), and that a call to the chat is no query
(`ChatIsNoQuery`). The last rests on `CallsAssumption`, which `ClientCallsFit` proves of
every call the pages make with any parameters. The refinement goes call by call: every
step changes one call, or none, as the promise allows. `FreshIsUntouched` is what makes an
abort during the token await a lost one there, and one after it a heard one.

*AdminTable.* Four invariants beside the types, each about its own part of the state:
`ClickedHere` (the page was clicked on this list, with no search about to replace it, or
early), `ReadsAreRecent` (what the server has read for the list on screen is no older than
the last refetch made for it: that starts over, and a list that has just come to the screen
has none), `WritesHaveDialogs` (a pending write is that of the dialog on screen, or its
dialog is gone), and `OneRowOnly` (the customers filtered by an id, the one table whose
filter has no "Clear", never have a second page).

*AdminPage.* `FiltersAreRecent`, `MountedIsTheFilter` (a table works with the filter of its
view or without one) and `AskedIsFiltered` (until the URL of the last button is rendered
its filter waits in the state of the page) say where a filter is between click and render.

*RecordForm.* `TextIsOfTheOwner`: a form turned from an edit to a new record keeps the
owner of the edit, but with an empty field; what can be submitted names its owner.

*Pagination.* `PagesRoundUp` and `WindowOfPage` are facts about the arithmetic, for every
page size; type correctness is all else that is needed.

*RouteGuards.* Within one page load the user is never set a second time
(`UnknownUntilReady`), the getter is there from the moment a token is asked for
(`AskedWithGetter`), a permission has a token behind it (`PermittedByToken`), and the
parameters of Auth0 are never on another route than the home page (`CallbackAtHome`).

**Model-checked only.** Liveness, which the prover does not treat: `RequestsEnd`,
`SubmittedIsAnswered`, `ClosingEnds`, `LoadingEnds`,
`EveryScreenSettles`. Every safety property, action property and refinement that a passing
run checks is also a theorem.

## 5. What is not modelled

* *Message lists of the agent loop* (the pairing of tool calls and results, which tools a
  turn exposes, `tool_choice`): they are built inside one step from local data. The
  transcript is abstracted to its verification notes in `IdentityGating` and to prompts
  and replies in `ChatClient`.
* *A clock and the restore thread's read and commit*: time is "has lapsed".
* *Customers, shipments and packages on the server*: each operation is one transaction on
  one row, and the database keeps its constraints. Identity matching is "some customer or
  none".
* *Auth0, React, React Query and React Router*: external, modelled from how the code uses
  them; their definitions are marked so in `PROJECT.json`.
* *`url.ts` and `apiError.ts`*: they join and word strings and keep no state.
* Prompts and the translation of messages for the provider, random digits and hashing,
  markup, migrations and seed data.

Open for later: the reopening of a session by an administrator in `ChatClient`, and a
refinement that ties its server to `IdentityGating`.
