------------------------------ MODULE ChatClient ------------------------------
(***************************************************************************)
(* The customer's chat page (pages/ChatPage.tsx with its panel and         *)
(* dialogs, hooks/useSessionPersistence.ts) against the three endpoints it *)
(* calls: chat, verify-code and close, and the restore query behind them.  *)
(* IdentityGating has the server in detail; here it is what the page can   *)
(* see of it: the state, the transcript and whether a session is open.     *)
(*                                                                         *)
(* The browser, the network and the server take separate steps: a request  *)
(* is sent with the cookie of that moment, taken up by the server, served, *)
(* and its answer handled, and anything may happen in between.  A request  *)
(* that lost its page (left by in-app navigation) still sets cookies; one  *)
(* that was aborted, by Stop or by a reload, is heard by nobody.           *)
(* Left out: wording, errors shown inside a dialog, the toast, the draft.  *)
(***************************************************************************)
EXTENDS SessionStateMachine, Naturals, Sequences, SequencesExt

CONSTANTS
  Prompts,      \* 1..n: the prompts the customer sends, in order
  Sessions,     \* chat sessions the server may create
  Calls,        \* bound: code requests, and close requests, in flight at once
  Budgets       \* bounds of a behaviour: the prompts sent, the times the page is
                \* entered or reloaded, the faults (lost requests, reconnects, sessions
                \* that end), and what the customer does besides, with
                \* "tools" if the agent's tools write the session

ASSUME ChatAssumption ==
  /\ None \notin Sessions \cup Prompts
  /\ Budgets \subseteq [prompts : Nat, visits : Nat, faults : Nat,
                        does : SUBSET {"code", "stop", "close", "tools"}]

VARIABLES
  server,    \* session -> its state, whether it is open, its transcript
  proved,    \* sessions whose verification row says verified
  cookie,    \* the session_id cookie of the browser
  cache,     \* React Query's entry for the restore query
  page,      \* "home" or "chat"
  ui,        \* the state of ChatPage and of useSessionPersistence
  turn,      \* prompt -> the request that carries it
  verify,    \* the verify-code requests in flight, of this visit and of earlier ones
  close,     \* the close requests in flight
  closed,    \* history: sessions whose close was confirmed to the browser
  left       \* what is left of the budget

vars == <<server, proved, cookie, cache, page, ui, turn, verify, close, closed, left>>

-----------------------------------------------------------------------------
Message == {"user", "reply", "error"} \X Prompts

\* A session that was never created, and one that create_session returns.
Unused == [state |-> "anonymous", phase |-> "unused", row |-> FALSE, transcript |-> <<>>]
Created == [Unused EXCEPT !.phase = "open"]

\* Who still waits for an answer: the page that asked, nobody on screen because
\* the page was left, or nobody at all.
Listener == {"page", "left", "none"}

NoData == [session |-> None, state |-> "anonymous", messages |-> <<>>]

NoCache == [data |-> NoData, failed |-> FALSE, fresh |-> FALSE,
            fetch |-> "no", cookie |-> None, answer |-> NoData]

FreshUi == [pending |-> None, local |-> <<>>, sessionId |-> None, localState |-> "anonymous",
            localInit |-> FALSE, invalidated |-> FALSE, otpOpen |-> FALSE, otpDismissed |-> FALSE,
            closeOpen |-> FALSE, closing |-> FALSE, forgotten |-> {}]

Unsent == [stage |-> "unsent", cookie |-> None, session |-> None, history |-> <<>>,
           answer |-> "none", state |-> "anonymous", listener |-> "none", closed |-> {}]

NoVerify == [stage |-> "no", cookie |-> None, code |-> "none", answer |-> "none", listener |-> "none"]

NoClose == [stage |-> "no", session |-> None, listener |-> "none"]

TypeOK ==
  /\ server \in [Sessions -> [state : ChatSessionState, phase : {"unused", "open", "ended"},
                              row : BOOLEAN, transcript : Seq(Message)]]
  /\ proved \subseteq Sessions
  /\ cookie \in Sessions \cup {None}
  /\ LET data == [session : Sessions \cup {None}, state : ChatSessionState, messages : Seq(Message)]
     IN  cache \in [data : data, failed : BOOLEAN, fresh : BOOLEAN, fetch : {"no", "sent", "data", "error", "gone"},
                    cookie : Sessions \cup {None}, answer : data]
  /\ page \in {"home", "chat"}
  /\ ui \in [pending : Prompts \cup {None}, local : Seq(Message), sessionId : Sessions \cup {None},
             localState : ChatSessionState, localInit : BOOLEAN, invalidated : BOOLEAN,
             otpOpen : BOOLEAN, otpDismissed : BOOLEAN, closeOpen : BOOLEAN, closing : BOOLEAN,
             forgotten : SUBSET Message]
  /\ turn \in [Prompts -> [stage : {"unsent", "sent", "running", "served"},
                           cookie : Sessions \cup {None}, session : Sessions \cup {None},
                           history : Seq(Message), answer : {"none", "reply", "failed", "gone"},
                           state : ChatSessionState, listener : Listener, closed : SUBSET Sessions]]
  /\ verify \in [Calls -> [stage : {"no", "sent", "served"}, cookie : Sessions \cup {None},
                            code : {"none", "right", "wrong"},
                            answer : {"none", "verified", "incorrect", "expired", "refused"},
                            listener : Listener]]
  /\ close \in [Calls -> [stage : {"no", "sent", "served"}, session : Sessions \cup {None},
                           listener : Listener]]
  /\ closed \subseteq Sessions
  /\ left \in [prompts : Nat, visits : Nat, faults : Nat, does : SUBSET {"code", "stop", "close", "tools"}]

Init ==
  /\ server = [s \in Sessions |-> Unused]
  /\ proved = {}
  /\ cookie = None
  /\ cache = NoCache
  /\ page = "home"
  /\ ui = FreshUi
  /\ turn = [n \in Prompts |-> Unsent]
  /\ verify = [c \in Calls |-> NoVerify]
  /\ close = [c \in Calls |-> NoClose]
  /\ closed = {}
  /\ left \in Budgets

-----------------------------------------------------------------------------
(* What useSessionPersistence returns and ChatPage shows. *)

\* A restore that ignores that the session was given up.
restorationDataAlways == IF cache.failed THEN NoData ELSE cache.data

restorationData ==
  IF ui.invalidated \/ cache.failed THEN NoData ELSE cache.data

Restored == restorationData # NoData

sessionId == IF ui.sessionId # None THEN ui.sessionId ELSE restorationData.session

sessionState == IF Restored /\ ~ui.localInit THEN restorationData.state ELSE ui.localState

displayMessages == restorationData.messages \o ui.local

\* The server computes verification_required, the client does so for a local state.
verificationRequired(state) == state = "code_sent"

shouldShowOtpModal ==
  ui.otpOpen \/ (verificationRequired(sessionState) /\ ~ui.otpDismissed)

\* onSessionExpired; onSessionClosed is followed by leaving the page.
Forget(u) == [u EXCEPT !.invalidated = TRUE, !.sessionId = None, !.local = <<>>,
                       !.localInit = FALSE, !.localState = "anonymous",
                       !.forgotten = @ \cup ToSet(displayMessages)]

\* onChatResponse and the opening of the OTP dialog.
HandleReply(u, n, s, state) ==
  [u EXCEPT !.local = Append(@, <<"reply", n>>), !.sessionId = s,
            !.localInit = TRUE, !.localState = state,
            !.otpOpen = @ \/ verificationRequired(state),
            !.otpDismissed = @ /\ ~verificationRequired(state)]

\* A step that counts against the budget.
Visit == left.visits > 0 /\ left' = [left EXCEPT !.visits = @ - 1]
Fault == left.faults > 0 /\ left' = [left EXCEPT !.faults = @ - 1]

-----------------------------------------------------------------------------
(* Coming and going. *)

\* React Query (external) fetches on mount when there is no data or it is stale.
Fetching(c) == [c EXCEPT !.fetch = "sent", !.cookie = cookie]
FetchOnMount(c) == IF c.data = NoData \/ ~c.fresh THEN Fetching(c) ELSE c

\* The fetch of a query without observers is aborted and its state reverted.
AbortFetch(c) == [c EXCEPT !.fetch = "no", !.cookie = None, !.answer = NoData]

\* What an unmount does to a listener: it hears the answer, but shows nothing.
Lost == [listener \in Listener |-> IF listener = "page" THEN "left" ELSE listener]

\* What a reload does to one.
Dropped == [listener \in Listener |-> "none"]

\* Every request, heard as `hears` says from now on.
Rehear(hears) ==
  /\ turn' = [n \in Prompts |-> [turn[n] EXCEPT !.listener = hears[@]]]
  /\ verify' = [c \in Calls |-> [verify[c] EXCEPT !.listener = hears[@]]]

RehearClose(hears) == [c \in Calls |-> [close[c] EXCEPT !.listener = hears[@]]]

EnterChat ==
  /\ page = "home"
  /\ page' = "chat"
  /\ ui' = FreshUi
  /\ cache' = FetchOnMount(cache)
  /\ Visit
  /\ UNCHANGED <<server, proved, cookie, turn, verify, close, closed>>

\* The page is left by in-app navigation: its requests run on.
Unmount ==
  /\ page' = "home"
  /\ ui' = FreshUi
  /\ Rehear(Lost)

LeaveChat ==
  /\ page = "chat"
  /\ Unmount
  /\ close' = RehearClose(Lost)
  /\ cache' = AbortFetch(cache)
  /\ UNCHANGED <<server, proved, cookie, closed, left>>

\* A reload of the page: the script starts again and nothing is heard any more.
Reload ==
  /\ page = "chat"
  /\ ui' = FreshUi
  /\ Rehear(Dropped)
  /\ close' = RehearClose(Dropped)
  /\ cache' = Fetching(NoCache)
  /\ Visit
  /\ UNCHANGED <<server, proved, cookie, page, closed>>

\* staleTime passes, or gcTime while nobody observes the query.
CacheAges ==
  /\ cache.fresh
  /\ cache' = [cache EXCEPT !.fresh = FALSE]
  /\ UNCHANGED <<server, proved, cookie, page, ui, turn, verify, close, closed, left>>

CacheCollected ==
  /\ page = "home"
  /\ cache # NoCache
  /\ cache' = NoCache
  /\ UNCHANGED <<server, proved, cookie, page, ui, turn, verify, close, closed, left>>

\* The browser comes back online: a stale query is fetched again.
Reconnect ==
  /\ page = "chat"
  /\ cache.fetch = "no"
  /\ cache.data = NoData \/ ~cache.fresh
  /\ cache' = Fetching(cache)
  /\ Fault
  /\ UNCHANGED <<server, proved, cookie, page, ui, turn, verify, close, closed>>

\* restore_session: the session of the cookie, 404 without one, 410 when it is over.
RestoreServed ==
  /\ cache.fetch = "sent"
  /\ LET s == cache.cookie IN
     cache' = IF s = None THEN [cache EXCEPT !.fetch = "error"]
              ELSE IF server[s].phase # "open" THEN [cache EXCEPT !.fetch = "gone"]
              ELSE [cache EXCEPT !.fetch = "data",
                                 !.answer = [session |-> s, state |-> server[s].state,
                                             messages |-> server[s].transcript]]
  /\ UNCHANGED <<server, proved, cookie, page, ui, turn, verify, close, closed, left>>

\* The answer reaches the hook; a 410 deletes the cookie.
RestoreArrives ==
  /\ cache.fetch \in {"data", "error", "gone"}
  /\ cache' = IF cache.fetch = "data"
              THEN AbortFetch([cache EXCEPT !.data = cache.answer, !.failed = FALSE, !.fresh = TRUE])
              ELSE AbortFetch([cache EXCEPT !.failed = TRUE])
  /\ cookie' = IF cache.fetch = "gone" THEN None ELSE cookie
  /\ UNCHANGED <<server, proved, page, ui, turn, verify, close, closed, left>>

\* The network fails; retry is off for this query.
RestoreFails ==
  /\ cache.fetch # "no"
  /\ cache' = AbortFetch([cache EXCEPT !.failed = TRUE])
  /\ Fault
  /\ UNCHANGED <<server, proved, cookie, page, ui, turn, verify, close, closed>>

-----------------------------------------------------------------------------
(* A turn. *)

Sendable(n) ==
  /\ n <= left.prompts
  /\ turn[n].stage = "unsent"
  /\ \A m \in Prompts : m < n => turn[m].stage # "unsent"

\* A handleSubmit that does not look at isPending.
handleSubmitAlways(n) ==
  /\ page = "chat"
  /\ Sendable(n)
  /\ ui' = [ui EXCEPT !.pending = n, !.local = Append(@, <<"user", n>>)]
  /\ turn' = [turn EXCEPT ![n].stage = "sent", ![n].cookie = cookie,
                          ![n].listener = "page", ![n].closed = closed]
  /\ UNCHANGED <<server, proved, cookie, cache, page, verify, close, closed, left>>

\* handleSubmit, from the input or a starter prompt, up to its await.
handleSubmit(n) ==
  /\ page = "chat"
  /\ ui.pending = None
  /\ Sendable(n)
  /\ ui' = [ui EXCEPT !.pending = n, !.local = Append(@, <<"user", n>>)]
  /\ turn' = [turn EXCEPT ![n].stage = "sent", ![n].cookie = cookie,
                          ![n].listener = "page", ![n].closed = closed]
  /\ UNCHANGED <<server, proved, cookie, cache, page, verify, close, closed, left>>

\* A chat endpoint that takes any session it finds.
ChatAcceptedAny(n) ==
  /\ turn[n].stage = "sent"
  /\ \E s \in Sessions :
       /\ IF turn[n].cookie = None THEN server[s].phase = "unused" ELSE s = turn[n].cookie
       /\ server' = [server EXCEPT ![s] = IF @.phase = "unused" THEN Created ELSE @]
       /\ turn' = [turn EXCEPT ![n].stage = "running", ![n].session = s,
                               ![n].state = server[s].state, ![n].history = server[s].transcript]
  /\ UNCHANGED <<proved, cookie, cache, page, ui, verify, close, closed, left>>

\* One that does not answer for a session that is over.
ChatAcceptedOpen(n) ==
  /\ IF turn[n].cookie = None THEN TRUE ELSE server[turn[n].cookie].phase = "open"
  /\ ChatAcceptedAny(n)

\* The chat endpoint takes the request up: 410 for a session that is over, a new
\* session without a cookie, else the agent runs on the transcript read now.
ChatAccepted(n) ==
  /\ turn[n].stage = "sent"
  /\ \/ /\ turn[n].cookie # None
        /\ server[turn[n].cookie].phase # "open"
        /\ turn' = [turn EXCEPT ![n].stage = "served", ![n].answer = "gone", ![n].session = turn[n].cookie]
        /\ UNCHANGED server
     \/ \E s \in Sessions :
          /\ IF turn[n].cookie = None THEN server[s].phase = "unused"
                                      ELSE s = turn[n].cookie /\ server[s].phase = "open"
          /\ server' = [server EXCEPT ![s] = IF @.phase = "unused" THEN Created ELSE @]
          /\ turn' = [turn EXCEPT ![n].stage = "running", ![n].session = s,
                                  ![n].state = server[s].state, ![n].history = server[s].transcript]
  /\ UNCHANGED <<proved, cookie, cache, page, ui, verify, close, closed, left>>

\* The states the tools write.
ToolStates == {"collecting_identity", "code_sent", "escalated_to_human"}

\* A tool of the turn writes (see IdentityGating): update_session validates the
\* transition, not that the session is still open, and a code is sent once, for its
\* verification row is never removed.  What was written stays however the turn ends.
\* (In a session that is over, the next refresh ends the turn with a failure; here it
\* may also still reply.)
ToolWrites(n, state) ==
  LET s == turn[n].session IN
  /\ "tools" \in left.does
  /\ turn[n].stage = "running"
  /\ <<server[s].state, state>> \in VALID_TRANSITIONS
  /\ state = "code_sent" => ~server[s].row
  /\ server' = [server EXCEPT ![s].state = state, ![s].row = @ \/ state = "code_sent"]
  /\ UNCHANGED <<proved, cookie, cache, page, ui, turn, verify, close, closed, left>>

\* The agent is done: a reply, an empty one (stored, answered 500), or an error.  A
\* reply is stored even in a session that ended meanwhile, whose state is then
\* answered as it was when the turn began.
ChatServed(n, answer, stored) ==
  LET s == turn[n].session IN
  /\ turn[n].stage = "running"
  /\ server' = [server EXCEPT ![s].transcript = CASE answer = "reply" ->
                                                       turn[n].history \o <<<<"user", n>>, <<"reply", n>>>>
                                                  [] answer # "reply" /\ stored -> Append(turn[n].history, <<"user", n>>)
                                                  [] OTHER -> @]
  /\ turn' = [turn EXCEPT ![n].stage = "served", ![n].answer = answer, ![n].history = <<>>,
                          ![n].state = IF server[s].phase = "open" THEN server[s].state ELSE @]
  /\ UNCHANGED <<proved, cookie, cache, page, ui, verify, close, closed, left>>

Heard(n) == turn[n].listener # "none"

\* The rest of handleSubmit, when its page is still there.
HandleChatAnswer(n, answer) ==
  LET u == [ui EXCEPT !.pending = None] IN
  ui' = IF turn[n].listener # "page" THEN ui
        ELSE CASE answer = "reply" -> HandleReply(u, n, turn[n].session, turn[n].state)
               [] answer = "gone" -> Forget(u)
               [] answer = "failed" -> [u EXCEPT !.local = Append(@, <<"error", n>>)]

\* A reply sets the cookie, a 410 deletes it, whether or not the page is there.
ChatAnswered(n) ==
  LET answer == turn[n].answer IN
  /\ turn[n].stage = "served"
  /\ Heard(n)
  /\ HandleChatAnswer(n, answer)
  /\ cookie' = CASE answer = "reply" -> turn[n].session
                 [] answer = "gone" -> None
                 [] OTHER -> cookie
  /\ turn' = [turn EXCEPT ![n] = [Unsent EXCEPT !.stage = "served", !.closed = turn[n].closed]]
  /\ UNCHANGED <<server, proved, cache, page, verify, close, closed, left>>

\* The connection fails; the server may or may not have the request.
ChatFails(n) ==
  /\ Heard(n)
  /\ HandleChatAnswer(n, "failed")
  /\ turn' = [turn EXCEPT ![n].listener = "none"]
  /\ Fault
  /\ UNCHANGED <<server, proved, cookie, cache, page, verify, close, closed>>

\* Stop: the request is aborted, handleSubmit returns silently, the server goes on.
handleStopRequest ==
  /\ "stop" \in left.does
  /\ ui.pending # None
  /\ ui' = [ui EXCEPT !.pending = None]
  /\ turn' = [turn EXCEPT ![ui.pending].listener = "none"]
  /\ UNCHANGED <<server, proved, cookie, cache, page, verify, close, closed, left>>

-----------------------------------------------------------------------------
(* The one-time code. *)

\* The dialog is not modal: the chat behind it stays usable.  Without a session id
\* the submission is dropped; while a code of this visit is out it is not possible.
handleVerifyCode(c, code) ==
  /\ "code" \in left.does
  /\ page = "chat"
  /\ shouldShowOtpModal
  /\ sessionId # None
  /\ \A d \in Calls : verify[d].listener # "page"
  /\ verify[c].stage = "no"
  /\ verify' = [verify EXCEPT ![c] = [stage |-> "sent", cookie |-> cookie, code |-> code,
                                     answer |-> "none", listener |-> "page"]]
  /\ UNCHANGED <<server, proved, cookie, cache, page, ui, turn, close, closed, left>>

\* verify_code: refused without an open session that expects a code; a wrong code
\* leaves attempts or uses up the last, and the code may have timed out.
VerifyServed(c, answer) ==
  LET s == verify[c].cookie
      open == s # None /\ server[s].phase = "open"
      expects == open /\ server[s].state \in {"code_sent", "awaiting_code"}
  IN
  /\ verify[c].stage = "sent"
  /\ CASE answer = "verified"  -> open /\ (s \in proved \/ (expects /\ verify[c].code = "right"))
       [] answer = "incorrect" -> expects /\ s \notin proved /\ verify[c].code = "wrong"
       [] answer = "expired"   -> expects /\ s \notin proved
       [] answer = "refused"   -> ~open \/ (s \notin proved /\ ~expects)
  /\ server' = IF answer = "refused" \/ s \in proved THEN server
               ELSE [server EXCEPT ![s].state = CASE answer = "verified" -> "verified"
                                                  [] answer = "incorrect" -> "awaiting_code"
                                                  [] answer = "expired" -> "code_expired"]
  /\ proved' = IF answer = "verified" THEN proved \cup {s} ELSE proved
  /\ verify' = [verify EXCEPT ![c].stage = "served", ![c].answer = answer]
  /\ UNCHANGED <<cookie, cache, page, ui, turn, close, closed, left>>

\* A page that takes every answer for a success.
HandleVerifyAnyAnswer(c, answer) ==
  ui' = IF verify[c].listener # "page" THEN ui
        ELSE [ui EXCEPT !.otpOpen = FALSE, !.otpDismissed = FALSE,
                        !.localInit = TRUE, !.localState = "verified"]

HandleVerifyAnswer(c, answer) ==
  ui' = IF verify[c].listener # "page" \/ answer # "verified" THEN ui
        ELSE [ui EXCEPT !.otpOpen = FALSE, !.otpDismissed = FALSE,
                        !.localInit = TRUE, !.localState = "verified"]

VerifyAnswered(c) ==
  /\ verify[c].stage = "served"
  /\ HandleVerifyAnswer(c, verify[c].answer)
  /\ verify' = [verify EXCEPT ![c] = NoVerify]
  /\ UNCHANGED <<server, proved, cookie, cache, page, turn, close, closed, left>>

\* The connection fails, or a reload dropped the request before the server had it.
VerifyFails(c) ==
  /\ verify[c].stage # "no"
  /\ verify' = [verify EXCEPT ![c] = NoVerify]
  /\ Fault
  /\ UNCHANGED <<server, proved, cookie, cache, page, ui, turn, close, closed>>

handleCloseOtpModal ==
  /\ page = "chat"
  /\ shouldShowOtpModal
  /\ ui' = [ui EXCEPT !.otpOpen = FALSE, !.otpDismissed = TRUE]
  /\ UNCHANGED <<server, proved, cookie, cache, page, turn, verify, close, closed, left>>

-----------------------------------------------------------------------------
(* Closing the chat. *)

\* The cross of the header, and Cancel or the backdrop of the dialog.
ShowCloseModal(open) ==
  /\ "close" \in left.does
  /\ page = "chat"
  /\ ui.closeOpen # open
  /\ ui' = [ui EXCEPT !.closeOpen = open]
  /\ UNCHANGED <<server, proved, cookie, cache, page, turn, verify, close, closed, left>>

\* handleCloseSession up to its await; without a session id it just goes home.  A
\* close of an earlier visit may still be out.
handleCloseSession ==
  /\ page = "chat"
  /\ ui.closeOpen
  /\ ~ui.closing
  /\ \/ /\ sessionId = None
        /\ Unmount
        /\ cache' = AbortFetch(cache)
        /\ close' = RehearClose(Lost)
     \/ /\ sessionId # None
        /\ \E c \in Calls :
             /\ close[c].stage = "no"
             /\ close' = [close EXCEPT ![c] = [stage |-> "sent", session |-> sessionId,
                                              listener |-> "page"]]
        /\ ui' = [ui EXCEPT !.closing = TRUE]
        /\ UNCHANGED <<cache, page, turn, verify>>
  /\ UNCHANGED <<server, proved, cookie, closed, left>>

\* update_session with ended_at: anyone may close, and close again.
CloseServed(c) ==
  /\ close[c].stage = "sent"
  /\ server' = [server EXCEPT ![close[c].session].phase = "ended"]
  /\ close' = [close EXCEPT ![c].stage = "served"]
  /\ UNCHANGED <<proved, cookie, cache, page, ui, turn, verify, closed, left>>

\* The answer deletes the cookie; the rest of handleCloseSession forgets the
\* session and its query and goes home, also from a page entered meanwhile.
CloseAnswered(c) ==
  /\ close[c].stage = "served"
  /\ IF close[c].listener = "none"
     THEN /\ close' = [close EXCEPT ![c] = NoClose]
          /\ UNCHANGED <<cookie, cache, page, ui, turn, verify, closed>>
     ELSE /\ close' = [RehearClose(Lost) EXCEPT ![c] = NoClose]
          /\ cookie' = None
          /\ closed' = closed \cup {close[c].session}
          /\ cache' = NoCache
          /\ Unmount
  /\ UNCHANGED <<server, proved, left>>

\* A failed close whose `finally` is missing.
CloseFailsStuck(c) ==
  /\ close[c].stage # "no"
  /\ close' = [close EXCEPT ![c] = NoClose]
  /\ Fault
  /\ UNCHANGED <<server, proved, cookie, cache, page, ui, turn, verify, closed>>

\* It fails, or a reload dropped it: the dialog shows the error.
CloseFails(c) ==
  /\ close[c].stage # "no"
  /\ ui' = IF close[c].listener = "page" THEN [ui EXCEPT !.closing = FALSE] ELSE ui
  /\ close' = [close EXCEPT ![c] = NoClose]
  /\ Fault
  /\ UNCHANGED <<server, proved, cookie, cache, page, turn, verify, closed>>

\* A session lapses or an administrator closes it.
SessionEnds(s) ==
  /\ server[s].phase = "open"
  /\ server' = [server EXCEPT ![s].phase = "ended"]
  /\ Fault
  /\ UNCHANGED <<proved, cookie, cache, page, ui, turn, verify, close, closed>>

-----------------------------------------------------------------------------
Next ==
  \/ EnterChat \/ LeaveChat \/ Reload
  \/ CacheAges \/ CacheCollected \/ Reconnect
  \/ RestoreServed \/ RestoreArrives \/ RestoreFails
  \/ \E n \in Prompts :
       \/ handleSubmit(n) \/ ChatAccepted(n) \/ ChatAnswered(n) \/ ChatFails(n)
       \/ \E state \in ToolStates : ToolWrites(n, state)
       \/ ChatServed(n, "reply", TRUE)
       \/ \E stored \in BOOLEAN : ChatServed(n, "failed", stored)
  \/ handleStopRequest
  \/ \E c \in Calls :
       \/ \E code \in {"right", "wrong"} : handleVerifyCode(c, code)
       \/ \E answer \in {"verified", "incorrect", "expired", "refused"} : VerifyServed(c, answer)
       \/ VerifyAnswered(c) \/ VerifyFails(c)
       \/ CloseServed(c) \/ CloseAnswered(c) \/ CloseFails(c)
  \/ handleCloseOtpModal
  \/ \E open \in BOOLEAN : ShowCloseModal(open)
  \/ handleCloseSession
  \/ \E s \in Sessions : SessionEnds(s)

Spec == Init /\ [][Next]_vars

\* A request that was sent is answered or fails: browsers and servers time out.
TurnProgress(n) ==
  \/ ChatAccepted(n) \/ ChatAnswered(n) \/ ChatFails(n)
  \/ \E stored \in BOOLEAN : ChatServed(n, "failed", stored)

FairSpec ==
  /\ Spec
  /\ \A n \in Prompts : WF_vars(TurnProgress(n))
  /\ \A c \in Calls : WF_vars(CloseServed(c) \/ CloseAnswered(c) \/ CloseFails(c))

-----------------------------------------------------------------------------
\* The badge says "Verified" only in a browser one of whose sessions was verified by
\* a right code: neither a wrong or late code, nor a state restored, nor a reply
\* to another prompt puts it there (ChatHeader, useSessionPersistence).
VerifiedBadgeEarned == page = "chat" /\ sessionState = "verified" => proved # {}

\* What the page forgot when a turn was answered 410 does not come back while the
\* page stays: neither from the restore query nor from its refetch.
ForgottenStaysForgotten ==
  page = "chat" => ui.forgotten \cap ToSet(displayMessages) = {}

\* A reply or an apology among the messages of this visit stands after the prompt
\* it answers, though a session may expire while a request is out.
ReplyFollowsItsPrompt ==
  \A i \in DOMAIN ui.local : ui.local[i][1] # "user" =>
    \E j \in 1..(i - 1) : ui.local[j] = <<"user", ui.local[i][2]>>

\* After the browser was told that its close succeeded, no prompt it sends reaches
\* the closed session, although a turn answered later issues its cookie again.
ClosedTakesNoMore ==
  \A n \in Prompts, s \in Sessions :
    s \in turn[n].closed => <<"user", n>> \notin ToSet(server[s].transcript)

\* The typing indicator does not stay for ever: the request is answered, fails, is
\* stopped, or its page goes.
SubmittedIsAnswered == \A n \in Prompts : ui.pending = n ~> ui.pending # n

\* "Closing..." does not stay for ever.
ClosingEnds == ui.closing ~> ~ui.closing
=============================================================================
