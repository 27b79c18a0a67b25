--------------------------- MODULE ChatClientProofs ---------------------------
(***************************************************************************)
(* ChatClient for any prompts, sessions and budgets: however often the     *)
(* page is left, entered and reloaded, and however many requests are lost. *)
(***************************************************************************)
EXTENDS ChatClient, TLAPS

\* What the fields of a request say together.
RequestsFit ==
  /\ \A n \in Prompts :
       /\ turn[n].stage = "unsent" =>
            turn[n].listener = "none" /\ turn[n].history = <<>> /\ turn[n].closed = {}
       /\ turn[n].stage = "running" => turn[n].session \in Sessions
       /\ turn[n].stage = "served" /\ Heard(n) => turn[n].answer # "none"
  /\ \A c \in Calls : close[c].stage # "no" => close[c].session \in Sessions

\* Nothing says "verified" before some session was.
VerifiedIsProved ==
  proved = {} =>
    /\ \A s \in Sessions : server[s].state # "verified"
    /\ \A n \in Prompts : turn[n].state # "verified"
    /\ cache.data.state # "verified" /\ cache.answer.state # "verified"
    /\ ui.localState # "verified"
    /\ \A c \in Calls : verify[c].answer # "verified"

\* The only request whose answer the page shows is that of the pending prompt, which
\* stands among the messages of the visit.
PendingIsShown ==
  \A n \in Prompts : turn[n].listener = "page" =>
    page = "chat" /\ ui.pending = n /\ <<"user", n>> \in ToSet(ui.local)

Mentions(messages, n) == \E kind \in {"user", "reply", "error"} : <<kind, n>> \in messages

\* A prompt that was not sent stands nowhere.
UnsentIsUnknown ==
  \A n \in Prompts : turn[n].stage = "unsent" =>
    /\ ~Mentions(ToSet(ui.local), n) /\ ~Mentions(ui.forgotten, n)
    /\ ~Mentions(ToSet(cache.data.messages), n)
    /\ ~Mentions(ToSet(cache.answer.messages), n)
    /\ \A s \in Sessions : ~Mentions(ToSet(server[s].transcript), n)
    /\ \A m \in Prompts : ~Mentions(ToSet(turn[m].history), n)

\* What was forgotten is no message of this visit, nor will an answer make it one, and
\* what was restored is not shown any more.
ForgottenIsGone ==
  /\ ui.forgotten # {} => ui.invalidated
  /\ ui.forgotten \cap ToSet(ui.local) = {}
  /\ \A n \in Prompts : turn[n].listener = "page" => ~Mentions(ui.forgotten, n)

\* A session whose close was confirmed is over, so a turn that was sent afterwards runs
\* on another one, and is in no history read from it.
ClosedIsOver ==
  /\ \A c \in Calls : close[c].stage = "served" => server[close[c].session].phase = "ended"
  /\ \A s \in closed : server[s].phase = "ended"
  /\ \A n \in Prompts :
       /\ turn[n].closed \subseteq closed
       /\ turn[n].stage = "running" => turn[n].session \notin turn[n].closed
       /\ \A s \in turn[n].closed :
            /\ <<"user", n>> \notin ToSet(server[s].transcript)
            /\ \A m \in Prompts : turn[m].stage = "running" /\ turn[m].session = s =>
                 <<"user", n>> \notin ToSet(turn[m].history)

IInv ==
  /\ TypeOK /\ RequestsFit /\ VerifiedIsProved /\ PendingIsShown /\ ReplyFollowsItsPrompt
  /\ UnsentIsUnknown /\ ForgottenIsGone /\ ClosedIsOver

-----------------------------------------------------------------------------
(* Sequences of messages. *)

LEMMA NothingIn == ToSet(<<>>) = {}
BY DEF ToSet

LEMMA AppendedIn ==
  ASSUME NEW S, NEW messages \in Seq(S), NEW m \in S
  PROVE  ToSet(Append(messages, m)) = ToSet(messages) \cup {m}
<1> DEFINE longer == Append(messages, m)
<1>1. /\ DOMAIN longer = 1..(Len(messages) + 1) /\ DOMAIN messages = 1..Len(messages)
      /\ Len(messages) \in Nat
      /\ \A i \in 1..Len(messages) : longer[i] = messages[i]
      /\ longer[Len(messages) + 1] = m
  OBVIOUS
<1> HIDE DEF longer
<1> QED  BY <1>1 DEF ToSet

LEMMA ConcatenatedIn ==
  ASSUME NEW S, NEW s \in Seq(S), NEW t \in Seq(S)
  PROVE  ToSet(s \o t) = ToSet(s) \cup ToSet(t)
<1> DEFINE both == s \o t
<1>1. /\ DOMAIN both = 1..(Len(s) + Len(t))
      /\ DOMAIN s = 1..Len(s) /\ DOMAIN t = 1..Len(t)
      /\ Len(s) \in Nat /\ Len(t) \in Nat
      /\ \A i \in 1..(Len(s) + Len(t)) :
           both[i] = IF i <= Len(s) THEN s[i] ELSE t[i - Len(s)]
  OBVIOUS
<1> HIDE DEF both
<1>2. ASSUME NEW i \in 1..Len(t) PROVE i + Len(s) \in DOMAIN both /\ both[i + Len(s)] = t[i]
  <2>1. /\ i \in Nat /\ i > 0 /\ i + Len(s) \in 1..(Len(s) + Len(t))
        /\ ~(i + Len(s) <= Len(s)) /\ (i + Len(s)) - Len(s) = i
    BY <1>1
  <2> QED  BY <1>1, <2>1
<1>3. ToSet(both) \subseteq ToSet(s) \cup ToSet(t)
  BY <1>1 DEF ToSet
<1>4. ToSet(s) \subseteq ToSet(both)
  BY <1>1 DEF ToSet
<1>5. ToSet(t) \subseteq ToSet(both)
  BY <1>1, <1>2 DEF ToSet
<1> QED  BY <1>3, <1>4, <1>5 DEF both

-----------------------------------------------------------------------------
(* The types. *)

SessionRows == [state : ChatSessionState, phase : {"unused", "open", "ended"},
                row : BOOLEAN, transcript : Seq(Message)]

Restorations ==
  [session : Sessions \cup {None}, state : ChatSessionState, messages : Seq(Message)]

CacheEntries == [data : Restorations, failed : BOOLEAN, fresh : BOOLEAN,
                 fetch : {"no", "sent", "data", "error", "gone"},
                 cookie : Sessions \cup {None}, answer : Restorations]

PageStates ==
  [pending : Prompts \cup {None}, local : Seq(Message), sessionId : Sessions \cup {None},
   localState : ChatSessionState, localInit : BOOLEAN, invalidated : BOOLEAN,
   otpOpen : BOOLEAN, otpDismissed : BOOLEAN, closeOpen : BOOLEAN, closing : BOOLEAN,
   forgotten : SUBSET Message]

Turns == [stage : {"unsent", "sent", "running", "served"},
          cookie : Sessions \cup {None}, session : Sessions \cup {None},
          history : Seq(Message), answer : {"none", "reply", "failed", "gone"},
          state : ChatSessionState, listener : Listener, closed : SUBSET Sessions]

Answers == {"verified", "incorrect", "expired", "refused"}

ServerTypes == server \in [Sessions -> SessionRows]
CacheTypes == cache \in CacheEntries
UiTypes == ui \in PageStates
TurnTypes == turn \in [Prompts -> Turns]

Verifies == [stage : {"no", "sent", "served"}, cookie : Sessions \cup {None},
             code : {"none", "right", "wrong"}, answer : {"none"} \cup Answers,
             listener : Listener]

Closes == [stage : {"no", "sent", "served"}, session : Sessions \cup {None},
           listener : Listener]

VerifyTypes == verify \in [Calls -> Verifies]
CloseTypes == close \in [Calls -> Closes]

BrowserTypes ==
  /\ proved \subseteq Sessions /\ cookie \in Sessions \cup {None}
  /\ page \in {"home", "chat"} /\ closed \subseteq Sessions
  /\ left \in [prompts : Nat, visits : Nat, faults : Nat,
               does : SUBSET {"code", "stop", "close", "tools"}]

Types ==
  /\ ServerTypes /\ CacheTypes /\ UiTypes /\ TurnTypes /\ VerifyTypes /\ CloseTypes
  /\ BrowserTypes

LEMMA TypesAreTypeOK == Types <=> TypeOK
BY DEF Types, TypeOK, ServerTypes, SessionRows, CacheTypes, CacheEntries, Restorations, UiTypes,
   PageStates, TurnTypes, Turns, VerifyTypes, Verifies, Answers, CloseTypes, Closes, BrowserTypes

LEMMA Literals ==
  /\ NoData \in Restorations
  /\ NoCache \in [data : {NoData}, failed : {FALSE}, fresh : {FALSE}, fetch : {"no"},
                  cookie : {None}, answer : {NoData}]
  /\ FreshUi \in [pending : {None}, local : {<<>>}, sessionId : {None},
                  localState : {"anonymous"}, localInit : {FALSE}, invalidated : {FALSE},
                  otpOpen : {FALSE}, otpDismissed : {FALSE}, closeOpen : {FALSE},
                  closing : {FALSE}, forgotten : {{}}]
  /\ \A kind \in {"user", "reply", "error"}, n \in Prompts : <<kind, n>> \in Message
  /\ <<>> \in Seq(Message)
  /\ "anonymous" \in ChatSessionState /\ "verified" \in ChatSessionState
  /\ None \notin Sessions \cup Prompts
BY ChatAssumption
DEF NoData, NoCache, FreshUi, Restorations, Message, ChatSessionState

LEMMA NoRequests == NoVerify \in Verifies /\ NoClose \in Closes
BY DEF NoVerify, Verifies, NoClose, Closes, Listener

\* The cache entry whichever way React Query takes it.
LEMMA CacheMoves ==
  ASSUME Types, NEW c \in CacheEntries
  PROVE  /\ AbortFetch(c) \in [data : {c.data}, failed : {c.failed}, fresh : {c.fresh},
                               fetch : {"no"}, cookie : {None}, answer : {NoData}]
         /\ Fetching(c) \in [data : {c.data}, failed : {c.failed}, fresh : {c.fresh},
                             fetch : {"sent"}, cookie : {cookie}, answer : {c.answer}]
         /\ FetchOnMount(c) \in {c, Fetching(c)}
BY Literals DEF AbortFetch, Fetching, FetchOnMount, CacheEntries

LEMMA InitTypes == Init => Types
<1> SUFFICES ASSUME Init PROVE Types  OBVIOUS
<1> USE Literals, ChatAssumption DEF Init
<1>1. ServerTypes  BY DEF ServerTypes, SessionRows, Unused
<1>2. CacheTypes  BY DEF CacheTypes, CacheEntries
<1>3. UiTypes  BY DEF UiTypes, PageStates
<1>4. TurnTypes  BY DEF TurnTypes, Turns, Unsent, Listener
<1>5. VerifyTypes /\ CloseTypes  BY NoRequests DEF VerifyTypes, CloseTypes
<1>6. BrowserTypes  BY DEF BrowserTypes
<1> QED  BY <1>1, <1>2, <1>3, <1>4, <1>5, <1>6 DEF Types

\* A turn is served, whatever comes of it.
Served(n) ==
  ChatServed(n, "reply", TRUE) \/ \E stored \in BOOLEAN : ChatServed(n, "failed", stored)

Writes(n) == \E state \in ToolStates : ToolWrites(n, state)

\* Some code is submitted, and some is served.
CodeSent == \E c \in Calls, code \in {"right", "wrong"} : handleVerifyCode(c, code)
CodeServed == \E c \in Calls, answer \in Answers : VerifyServed(c, answer)

\* The steps that write the server, and those that write its requests' records.
LEMMA ServerWriters ==
  [Next]_vars =>
    \/ \E n \in Prompts : ChatAccepted(n) \/ Writes(n) \/ Served(n)
    \/ CodeServed
    \/ \E c \in Calls : CloseServed(c)
    \/ \E s \in Sessions : SessionEnds(s)
    \/ UNCHANGED server
BY DEF Next, vars, Served, Writes, CodeServed, Answers, EnterChat, LeaveChat, Reload, CacheAges, CacheCollected,
   Reconnect, RestoreServed, RestoreArrives, RestoreFails, handleSubmit, ChatAnswered, ChatFails,
   handleStopRequest, handleVerifyCode, VerifyAnswered, VerifyFails, handleCloseOtpModal,
   ShowCloseModal, handleCloseSession, CloseAnswered, CloseFails

LEMMA TurnWriters ==
  [Next]_vars =>
    \/ \E n \in Prompts : \/ handleSubmit(n) \/ ChatAccepted(n) \/ Served(n)
                          \/ ChatAnswered(n) \/ ChatFails(n)
    \/ handleStopRequest
    \/ Reload
    \/ Unmount
    \/ UNCHANGED turn
BY DEF Next, vars, Served, Writes, ToolWrites, EnterChat, LeaveChat, CacheAges, CacheCollected, Reconnect,
   RestoreServed, RestoreArrives, RestoreFails, handleVerifyCode, VerifyServed, VerifyAnswered,
   VerifyFails, handleCloseOtpModal, ShowCloseModal, handleCloseSession, CloseServed,
   CloseAnswered, CloseFails, SessionEnds

LEMMA CacheWriters ==
  [Next]_vars =>
    \/ EnterChat \/ Reload \/ CacheAges \/ Reconnect
    \/ RestoreServed \/ RestoreArrives \/ RestoreFails
    \/ cache' = AbortFetch(cache)
    \/ cache' = NoCache
    \/ UNCHANGED cache
<1>1. ASSUME NEW n \in Prompts,
             \/ handleSubmit(n) \/ ChatAccepted(n) \/ ChatAnswered(n) \/ ChatFails(n)
             \/ Writes(n) \/ Served(n)
      PROVE  UNCHANGED cache
  BY <1>1 DEF handleSubmit, ChatAccepted, ChatServed, ChatAnswered, ChatFails, Served,
     Writes, ToolWrites
<1>2. CASE \/ handleStopRequest \/ handleCloseOtpModal \/ CodeSent \/ CodeServed
           \/ \E c \in Calls : VerifyAnswered(c) \/ VerifyFails(c) \/ CloseServed(c) \/ CloseFails(c)
           \/ \E open \in BOOLEAN : ShowCloseModal(open)
           \/ \E s \in Sessions : SessionEnds(s)
  BY <1>2 DEF handleStopRequest, VerifyAnswered, VerifyFails, handleCloseOtpModal, CloseServed,
     CloseFails, CodeSent, CodeServed, handleVerifyCode, VerifyServed, ShowCloseModal, SessionEnds
<1>3. CASE LeaveChat \/ CacheCollected
  BY <1>3 DEF LeaveChat, CacheCollected
<1>4. CASE handleCloseSession
  BY <1>4 DEF handleCloseSession
<1>5. CASE \E c \in Calls : CloseAnswered(c)
  BY <1>5 DEF CloseAnswered
<1> QED  BY <1>1, <1>2, <1>3, <1>4, <1>5 DEF Next, vars, Served, Writes, CodeSent, CodeServed, Answers

LEMMA UiWriters ==
  [Next]_vars =>
    \/ EnterChat \/ Reload \/ Unmount
    \/ \E n \in Prompts : handleSubmit(n) \/ ChatAnswered(n) \/ ChatFails(n)
    \/ handleStopRequest
    \/ handleCloseOtpModal
    \/ \E open \in BOOLEAN : ShowCloseModal(open)
    \/ ui' = [ui EXCEPT !.closing = TRUE] /\ UNCHANGED <<turn, page>>
    \/ \E c \in Calls : VerifyAnswered(c) \/ CloseFails(c)
    \/ UNCHANGED <<ui, page>>
<1>1. ASSUME NEW n \in Prompts, ChatAccepted(n) \/ Writes(n) \/ Served(n)
      PROVE  UNCHANGED <<ui, page>>
  BY <1>1 DEF ChatAccepted, ChatServed, Served, Writes, ToolWrites
<1>2. CASE \/ CacheAges \/ CacheCollected \/ Reconnect
           \/ RestoreServed \/ RestoreArrives \/ RestoreFails
           \/ CodeSent \/ CodeServed
           \/ \E c \in Calls : VerifyFails(c) \/ CloseServed(c)
           \/ \E s \in Sessions : SessionEnds(s)
  BY <1>2 DEF CacheAges, CacheCollected, Reconnect, RestoreServed, RestoreArrives,
     RestoreFails, CodeSent, CodeServed, VerifyFails, CloseServed, handleVerifyCode, VerifyServed,
     SessionEnds
<1>3. CASE LeaveChat  BY <1>3 DEF LeaveChat
<1>4. CASE handleCloseSession  BY <1>4 DEF handleCloseSession
<1>5. CASE \E c \in Calls : CloseAnswered(c)  BY <1>5 DEF CloseAnswered
<1> QED  BY <1>1, <1>2, <1>3, <1>4, <1>5 DEF Next, vars, Served, Writes, CodeSent, CodeServed, Answers

\* What a served turn leaves in its session.
LEMMA ServedWrites ==
  ASSUME Types, RequestsFit, NEW n \in Prompts, Served(n)
  PROVE  /\ turn[n].session \in Sessions
         /\ server' = [server EXCEPT ![turn[n].session] = server'[turn[n].session]]
         /\ server'[turn[n].session] \in
              [state : {server[turn[n].session].state}, phase : {server[turn[n].session].phase},
               row : {server[turn[n].session].row}, transcript : Seq(Message)]
         /\ \/ server'[turn[n].session].transcript = server[turn[n].session].transcript
            \/ ToSet(server'[turn[n].session].transcript) \subseteq
                 ToSet(turn[n].history) \cup {<<"user", n>>, <<"reply", n>>}
<1> DEFINE s == turn[n].session
           exchange == <<<<"user", n>>, <<"reply", n>>>>
           asked == Append(turn[n].history, <<"user", n>>)
           answered == turn[n].history \o exchange
<1>1. s \in Sessions  BY DEF Served, ChatServed, RequestsFit
<1>2. /\ turn[n].history \in Seq(Message)
      /\ <<"user", n>> \in Message /\ <<"reply", n>> \in Message
  BY Literals DEF Types, TurnTypes, Turns
<1>3. asked \in Seq(Message) /\ ToSet(asked) = ToSet(turn[n].history) \cup {<<"user", n>>}
  BY <1>2, AppendedIn
<1>4. exchange \in Seq(Message) /\ ToSet(exchange) = {<<"user", n>>, <<"reply", n>>}
  BY <1>2 DEF ToSet
<1>5. /\ answered \in Seq(Message)
      /\ ToSet(answered) = ToSet(turn[n].history) \cup {<<"user", n>>, <<"reply", n>>}
  <2> HIDE DEF exchange
  <2>1. answered \in Seq(Message)  BY <1>2, <1>4
  <2>2. ToSet(answered) = ToSet(turn[n].history) \cup ToSet(exchange)
    BY <1>2, <1>4, ConcatenatedIn
  <2> HIDE DEF answered
  <2> QED  BY <1>4, <2>1, <2>2
<1>6. server[s] \in SessionRows
  BY <1>1 DEF Types, ServerTypes
<1> HIDE DEF asked, exchange, answered
<1>7. PICK transcript \in {answered, asked, server[s].transcript} :
        server' = [server EXCEPT ![s].transcript = transcript]
  BY <1>1, <1>6 DEF Served, ChatServed, asked, answered, exchange, SessionRows
<1>8. /\ transcript \in Seq(Message)
      /\ \/ transcript = server[s].transcript
         \/ ToSet(transcript) \subseteq
              ToSet(turn[n].history) \cup {<<"user", n>>, <<"reply", n>>}
  BY <1>3, <1>5, <1>6, <1>7 DEF SessionRows
<1>9. server' = [server EXCEPT ![s] = server'[s]]
  BY <1>1, <1>7 DEF Types, ServerTypes
<1>10. /\ server'[s] \in [state : {server[s].state}, phase : {server[s].phase},
                          row : {server[s].row}, transcript : Seq(Message)]
       /\ server'[s].transcript = transcript
  BY <1>1, <1>6, <1>7, <1>8 DEF Types, ServerTypes, SessionRows
<1> QED  BY <1>1, <1>8, <1>9, <1>10

\* What a tool leaves in its session.
LEMMA ToolLeaves ==
  ASSUME Types, RequestsFit, NEW n \in Prompts, Writes(n)
  PROVE  \E s \in Sessions, state \in ToolStates, row \in BOOLEAN :
           server' = [server EXCEPT ![s].state = state, ![s].row = row]
<1>1. turn[n].session \in Sessions  BY DEF Writes, ToolWrites, RequestsFit
<1>2. server[turn[n].session].row \in BOOLEAN  BY <1>1 DEF Types, ServerTypes, SessionRows
<1> QED  BY <1>1, <1>2 DEF Writes, ToolWrites

LEMMA NextServerTypes ==
  ASSUME Types, RequestsFit, [Next]_vars PROVE ServerTypes'
<1>1. ASSUME NEW s \in Sessions,
             NEW new \in SessionRows,
             server' = [server EXCEPT ![s] = new]
      PROVE  ServerTypes'
  BY <1>1 DEF Types, ServerTypes
<1>2. ASSUME NEW s \in Sessions
      PROVE  server[s] \in SessionRows
  BY DEF Types, ServerTypes
<1>3. CASE UNCHANGED server  BY <1>3 DEF Types, ServerTypes
<1>4. ASSUME NEW n \in Prompts, ChatAccepted(n) PROVE ServerTypes'
  <2>1. ASSUME NEW s \in Sessions,
               server' = [server EXCEPT ![s] = IF @.phase = "unused" THEN Created ELSE @]
        PROVE  ServerTypes'
    <3>1. Created \in SessionRows
      BY Literals DEF Created, Unused, SessionRows
    <3> QED  BY <1>1, <1>2, <2>1, <3>1
  <2> QED  BY <1>3, <1>4, <2>1 DEF ChatAccepted
<1>5. ASSUME NEW n \in Prompts, Served(n) PROVE ServerTypes'
  <2> DEFINE s == turn[n].session
  <2>2. s \in Sessions /\ server' = [server EXCEPT ![s] = server'[s]]
    BY <1>5, ServedWrites
  <2>3. server'[s] \in [state : {server[s].state}, phase : {server[s].phase},
                        row : {server[s].row}, transcript : Seq(Message)]
    BY <1>5, ServedWrites
  <2> HIDE DEF s
  <2> QED  BY <1>1, <1>2, <2>2, <2>3 DEF SessionRows
<1>6. ASSUME NEW c \in Calls, NEW answer \in Answers,
             VerifyServed(c, answer)
      PROVE  ServerTypes'
  <2>1. CASE ~UNCHANGED server
    <3>1. verify[c].cookie \in Sessions /\ answer # "refused"
      BY <1>6, <2>1 DEF VerifyServed, Types, VerifyTypes, Verifies, Answers
    <3>2. PICK state \in {"verified", "awaiting_code", "code_expired"} :
            server' = [server EXCEPT ![verify[c].cookie].state = state]
      BY <1>6, <2>1, <3>1 DEF VerifyServed, Answers
    <3>3. [server[verify[c].cookie] EXCEPT !.state = state] \in SessionRows
      BY <1>2, <3>1 DEF ChatSessionState, SessionRows
    <3> QED  BY <1>1, <3>1, <3>2, <3>3
  <2> QED  BY <1>3, <2>1
<1>7. ASSUME NEW s \in Sessions, server' = [server EXCEPT ![s].phase = "ended"]
      PROVE  ServerTypes'
  <2>1. [server[s] EXCEPT !.phase = "ended"] \in SessionRows
    BY <1>2 DEF SessionRows
  <2> QED  BY <1>1, <1>7, <2>1
<1>8. CASE \E c \in Calls : CloseServed(c)
  BY <1>7, <1>8 DEF CloseServed, RequestsFit
<1>9. ASSUME NEW s \in Sessions, SessionEnds(s) PROVE ServerTypes'
  BY <1>7, <1>9 DEF SessionEnds
<1>10. ASSUME NEW n \in Prompts, Writes(n) PROVE ServerTypes'
  <2>1. PICK s \in Sessions, state \in ToolStates, row \in BOOLEAN :
          server' = [server EXCEPT ![s].state = state, ![s].row = row]
    BY <1>10, ToolLeaves
  <2>2. [server[s] EXCEPT !.state = state, !.row = row] \in SessionRows
    BY <1>2 DEF ToolStates, ChatSessionState, SessionRows
  <2> QED  BY <1>1, <2>1, <2>2
<1> QED  BY <1>3, <1>4, <1>5, <1>6, <1>8, <1>9, <1>10, ServerWriters DEF CodeServed

\* What the page puts together is made of messages and states.
LEMMA ShownTypes ==
  ASSUME Types
  PROVE  /\ restorationData \in Restorations
         /\ displayMessages \in Seq(Message)
         /\ sessionId \in Sessions \cup {None}
         /\ sessionState \in ChatSessionState
<1>1. restorationData \in Restorations
  BY Literals DEF Types, CacheTypes, CacheEntries, restorationData
<1>2. ui \in PageStates  BY DEF Types, UiTypes
<1> HIDE DEF restorationData
<1>3. displayMessages \in Seq(Message)
  BY <1>1, <1>2 DEF displayMessages, Restorations, PageStates
<1> QED  BY <1>1, <1>2, <1>3 DEF sessionId, sessionState, Restorations, PageStates

LEMMA NextCacheTypes ==
  ASSUME Types, [Next]_vars PROVE CacheTypes'
<1>1. cache \in CacheEntries /\ NoCache \in CacheEntries /\ cookie \in Sessions \cup {None}
  BY Literals DEF Types, CacheTypes, CacheEntries, BrowserTypes
<1>2. ASSUME NEW c \in CacheEntries
      PROVE  AbortFetch(c) \in CacheEntries /\ Fetching(c) \in CacheEntries
             /\ FetchOnMount(c) \in CacheEntries
  BY <1>1, Literals DEF AbortFetch, Fetching, FetchOnMount, CacheEntries
<1>3. CASE EnterChat \/ Reload \/ Reconnect
  BY <1>1, <1>2, <1>3 DEF EnterChat, Reload, Reconnect, CacheTypes
<1>4. CASE CacheAges
  BY <1>1, <1>4 DEF CacheAges, CacheTypes, CacheEntries
<1>5. CASE RestoreServed
  <2>1. CASE cache.cookie \in Sessions /\ server[cache.cookie].phase = "open"
    <3>1. server[cache.cookie] \in SessionRows  BY <2>1 DEF Types, ServerTypes
    <3>2. [session |-> cache.cookie, state |-> server[cache.cookie].state,
           messages |-> server[cache.cookie].transcript] \in Restorations
      BY <2>1, <3>1 DEF SessionRows, Restorations
    <3>3. cache' = [cache EXCEPT !.fetch = "data",
                                 !.answer = [session |-> cache.cookie,
                                             state |-> server[cache.cookie].state,
                                             messages |-> server[cache.cookie].transcript]]
      BY <1>5, <2>1, Literals DEF RestoreServed
    <3> QED  BY <1>1, <3>2, <3>3 DEF CacheTypes, CacheEntries
  <2>2. CASE ~(cache.cookie \in Sessions /\ server[cache.cookie].phase = "open")
    <3>1. PICK fetch \in {"error", "gone"} : cache' = [cache EXCEPT !.fetch = fetch]
      BY <1>1, <1>5, <2>2 DEF RestoreServed, CacheEntries
    <3> QED  BY <1>1, <3>1 DEF CacheTypes, CacheEntries
  <2> QED  BY <2>1, <2>2
<1>6. CASE RestoreArrives \/ RestoreFails
  <2>1. /\ [cache EXCEPT !.failed = TRUE] \in CacheEntries
        /\ [cache EXCEPT !.data = cache.answer, !.failed = FALSE, !.fresh = TRUE] \in CacheEntries
    BY <1>1 DEF CacheEntries
  <2> QED  BY <1>2, <1>6, <2>1 DEF RestoreArrives, RestoreFails, CacheTypes
<1>7. CASE cache' = AbortFetch(cache) \/ cache' = NoCache \/ UNCHANGED cache
  BY <1>1, <1>2, <1>7 DEF CacheTypes
<1> QED  BY <1>3, <1>4, <1>5, <1>6, <1>7, CacheWriters

LEMMA NextUiTypes ==
  ASSUME Types, RequestsFit, [Next]_vars PROVE UiTypes'
<1>1. ui \in PageStates /\ FreshUi \in PageStates
  BY Literals DEF Types, UiTypes, PageStates
<1>2. ASSUME NEW n \in Prompts, NEW kind \in {"user", "reply", "error"}
      PROVE  Append(ui.local, <<kind, n>>) \in Seq(Message)
  BY <1>1, <1>2, Literals DEF PageStates
<1>3. ASSUME NEW n \in Prompts, handleSubmit(n) PROVE UiTypes'
  BY <1>1, <1>2, <1>3 DEF handleSubmit, UiTypes, PageStates
<1>4. ASSUME NEW n \in Prompts, NEW answer \in {"reply", "gone", "failed"},
             HandleChatAnswer(n, answer)
      PROVE  UiTypes'
  <2> DEFINE u == [ui EXCEPT !.pending = None]
  <2>1. u \in PageStates /\ u.local = ui.local  BY <1>1 DEF PageStates
  <2>2. turn[n] \in Turns  BY DEF Types, TurnTypes
  <2>3. [u EXCEPT !.local = Append(@, <<"error", n>>)] \in PageStates
    BY <1>2, <2>1 DEF PageStates
  <2>4. Forget(u) \in PageStates
    <3>1. ToSet(displayMessages) \subseteq Message
      BY ShownTypes DEF ToSet
    <3> QED  BY <2>1, <3>1, Literals DEF Forget, PageStates
  <2>5. HandleReply(u, n, turn[n].session, turn[n].state) \in PageStates
    <3>1. Append(u.local, <<"reply", n>>) \in Seq(Message)  BY <1>2, <2>1
    <3> QED  BY <2>1, <2>2, <3>1 DEF HandleReply, PageStates, Turns, verificationRequired
  <2> HIDE DEF u
  <2> QED  BY <1>1, <1>4, <2>3, <2>4, <2>5 DEF HandleChatAnswer, UiTypes, u
<1>5. ASSUME NEW n \in Prompts, ChatAnswered(n) PROVE UiTypes'
  <2>1. turn[n].answer \in {"reply", "gone", "failed"}
    BY <1>5 DEF ChatAnswered, RequestsFit, Types, TurnTypes, Turns
  <2> QED  BY <1>4, <1>5, <2>1 DEF ChatAnswered
<1>6. ASSUME NEW n \in Prompts, ChatFails(n) PROVE UiTypes'
  BY <1>4, <1>6 DEF ChatFails
<1>7. CASE EnterChat \/ Reload \/ Unmount
  BY <1>1, <1>7 DEF EnterChat, Reload, Unmount, UiTypes
<1>8. CASE handleStopRequest \/ handleCloseOtpModal
  BY <1>1, <1>8 DEF handleStopRequest, handleCloseOtpModal, UiTypes, PageStates
<1>9. ASSUME NEW c \in Calls, VerifyAnswered(c) PROVE UiTypes'
  <2>1. "verified" \in ChatSessionState  BY Literals
  <2>2. ui' = ui \/ ui' = [ui EXCEPT !.otpOpen = FALSE, !.otpDismissed = FALSE,
                                    !.localInit = TRUE, !.localState = "verified"]
    BY <1>9 DEF VerifyAnswered, HandleVerifyAnswer
  <2> QED  BY <1>1, <2>1, <2>2 DEF UiTypes, PageStates
<1>10. CASE \/ \E open \in BOOLEAN : ShowCloseModal(open)
            \/ ui' = [ui EXCEPT !.closing = TRUE]
            \/ \E c \in Calls : CloseFails(c)
            \/ UNCHANGED ui
  BY <1>1, <1>10 DEF ShowCloseModal, CloseFails, UiTypes, PageStates
<1> QED  BY <1>3, <1>5, <1>6, <1>7, <1>8, <1>9, <1>10, UiWriters

\* One request changes, and what its record may be after each kind of step.
OnlyTurn(n) == turn' = [turn EXCEPT ![n] = turn'[n]]

AfterSubmit(n) ==
  [stage : {"sent"}, cookie : {cookie}, session : {turn[n].session},
   history : {turn[n].history}, answer : {turn[n].answer}, state : {turn[n].state},
   listener : {"page"}, closed : {closed}]

AfterRefusal(n) ==
  [stage : {"served"}, cookie : {turn[n].cookie}, session : {turn[n].cookie},
   history : {turn[n].history}, answer : {"gone"}, state : {turn[n].state},
   listener : {turn[n].listener}, closed : {turn[n].closed}]

AfterStart(n, s) ==
  [stage : {"running"}, cookie : {turn[n].cookie}, session : {s},
   history : {server[s].transcript}, answer : {turn[n].answer}, state : {server[s].state},
   listener : {turn[n].listener}, closed : {turn[n].closed}]

AfterServed(n) ==
  [stage : {"served"}, cookie : {turn[n].cookie}, session : {turn[n].session},
   history : {<<>>}, answer : {"reply", "failed"},
   state : ChatSessionState \cap {turn[n].state, server[turn[n].session].state},
   listener : {turn[n].listener}, closed : {turn[n].closed}]

AfterAnswer(n) ==
  [stage : {"served"}, cookie : {None}, session : {None}, history : {<<>>},
   answer : {"none"}, state : {"anonymous"}, listener : {"none"}, closed : {turn[n].closed}]

Unheard(n) ==
  [stage : {turn[n].stage}, cookie : {turn[n].cookie}, session : {turn[n].session},
   history : {turn[n].history}, answer : {turn[n].answer}, state : {turn[n].state},
   listener : {"none"}, closed : {turn[n].closed}]

LEMMA SubmitMoves ==
  ASSUME Types, NEW n \in Prompts, handleSubmit(n)
  PROVE  OnlyTurn(n) /\ turn'[n] \in AfterSubmit(n)
<1>1. turn \in [Prompts -> Turns] /\ turn[n] \in Turns  BY DEF Types, TurnTypes
<1>2. OnlyTurn(n)  BY <1>1 DEF handleSubmit, OnlyTurn
<1>3. turn'[n] = [turn[n] EXCEPT !.stage = "sent", !.cookie = cookie,
                                 !.listener = "page", !.closed = closed]
  BY <1>1 DEF handleSubmit
<1> QED  BY <1>1, <1>2, <1>3 DEF Turns, AfterSubmit

LEMMA AcceptMoves ==
  ASSUME Types, NEW n \in Prompts, ChatAccepted(n)
  PROVE  /\ OnlyTurn(n)
         /\ \/ /\ turn'[n] \in AfterRefusal(n) /\ turn[n].cookie # None
               /\ server[turn[n].cookie].phase # "open"
               /\ UNCHANGED server
            \/ \E s \in Sessions :
                 /\ turn'[n] \in AfterStart(n, s)
                 /\ server[s].phase # "ended"
                 /\ server' = [server EXCEPT ![s] = IF @.phase = "unused" THEN Created ELSE @]
<1>1. turn \in [Prompts -> Turns] /\ turn[n] \in Turns  BY DEF Types, TurnTypes
<1>2. CASE /\ turn[n].cookie # None
           /\ server[turn[n].cookie].phase # "open"
           /\ turn' = [turn EXCEPT ![n].stage = "served", ![n].answer = "gone",
                                   ![n].session = turn[n].cookie]
           /\ UNCHANGED server
  BY <1>1, <1>2 DEF Turns, OnlyTurn, AfterRefusal
<1>3. ASSUME NEW s \in Sessions,
             turn' = [turn EXCEPT ![n].stage = "running", ![n].session = s,
                                  ![n].state = server[s].state,
                                  ![n].history = server[s].transcript]
      PROVE  OnlyTurn(n) /\ turn'[n] \in AfterStart(n, s)
  BY <1>1, <1>3 DEF Turns, OnlyTurn, AfterStart
<1> QED  BY <1>2, <1>3 DEF ChatAccepted

LEMMA ServedMoves ==
  ASSUME Types, RequestsFit, NEW n \in Prompts, Served(n)
  PROVE  OnlyTurn(n) /\ turn'[n] \in AfterServed(n)
<1>1. turn \in [Prompts -> Turns] /\ turn[n] \in Turns  BY DEF Types, TurnTypes
<1>2. server[turn[n].session].state \in ChatSessionState
  BY DEF Served, ChatServed, RequestsFit, Types, ServerTypes, SessionRows
<1> QED  BY <1>1, <1>2 DEF Served, ChatServed, Turns, OnlyTurn, AfterServed

LEMMA AnswerMoves ==
  ASSUME Types, NEW n \in Prompts, ChatAnswered(n)
  PROVE  OnlyTurn(n) /\ turn'[n] \in AfterAnswer(n)
<1>1. turn \in [Prompts -> Turns] /\ turn[n] \in Turns  BY DEF Types, TurnTypes
<1>2. turn'[n] = [Unsent EXCEPT !.stage = "served", !.closed = turn[n].closed]
  BY <1>1 DEF ChatAnswered
<1> QED  BY <1>1, <1>2 DEF ChatAnswered, Unsent, OnlyTurn, AfterAnswer

LEMMA DeafMoves ==
  ASSUME Types, NEW n \in Prompts, turn' = [turn EXCEPT ![n].listener = "none"]
  PROVE  OnlyTurn(n) /\ turn'[n] \in Unheard(n)
<1>1. turn \in [Prompts -> Turns] /\ turn[n] \in Turns  BY DEF Types, TurnTypes
<1>2. turn'[n] = [turn[n] EXCEPT !.listener = "none"]  BY <1>1
<1> QED  BY <1>1, <1>2 DEF Turns, OnlyTurn, Unheard

\* Stop makes the pending prompt's request unheard.
LEMMA StopMoves ==
  ASSUME Types, handleStopRequest
  PROVE  \E n \in Prompts : ui.pending = n /\ OnlyTurn(n) /\ turn'[n] \in Unheard(n)
<1>1. ui.pending \in Prompts
  BY DEF Types, UiTypes, PageStates, handleStopRequest
<1>2. PICK n \in Prompts : n = ui.pending  BY <1>1
<1>3. turn' = [turn EXCEPT ![n].listener = "none"]  BY <1>2 DEF handleStopRequest
<1> QED  BY <1>2, <1>3, DeafMoves

\* Leaving the page and reloading it change who hears every request, and nothing else.
LEMMA RehearMoves ==
  ASSUME Types, Reload \/ Unmount
  PROVE  /\ turn' \in [Prompts -> Turns]
         /\ \A n \in Prompts :
              turn'[n] \in [stage : {turn[n].stage}, cookie : {turn[n].cookie},
                            session : {turn[n].session}, history : {turn[n].history},
                            answer : {turn[n].answer}, state : {turn[n].state},
                            listener : {"none", Lost[turn[n].listener]} \ {"page"},
                            closed : {turn[n].closed}]
         /\ verify' \in [Calls -> Verifies]
         /\ \A c \in Calls : verify'[c].answer = verify[c].answer
<1>1. PICK hears \in {Lost, Dropped} : Rehear(hears)
  BY DEF Reload, Unmount
<1>2. \A listener \in Listener : hears[listener] \in {"none", Lost[listener]} \ {"page"}
  BY <1>1 DEF Lost, Dropped, Listener
<1>3. \A listener \in Listener : hears[listener] \in {"left", "none"}
  BY <1>1 DEF Lost, Dropped, Listener
<1>4. /\ turn \in [Prompts -> Turns] /\ \A n \in Prompts : turn[n].listener \in Listener
      /\ verify \in [Calls -> Verifies] /\ \A c \in Calls : verify[c].listener \in Listener
  BY DEF Types, TurnTypes, Turns, VerifyTypes, Verifies
<1>5. ASSUME NEW n \in Prompts
      PROVE  /\ turn'[n] \in [stage : {turn[n].stage}, cookie : {turn[n].cookie},
                              session : {turn[n].session}, history : {turn[n].history},
                              answer : {turn[n].answer}, state : {turn[n].state},
                              listener : {"none", Lost[turn[n].listener]} \ {"page"},
                              closed : {turn[n].closed}]
             /\ turn'[n] \in Turns
  <2>1. turn'[n] = [turn[n] EXCEPT !.listener = hears[@]]
    BY <1>1, <1>4 DEF Rehear
  <2>2. turn[n] \in Turns  BY <1>4
  <2> QED  BY <1>2, <1>3, <1>4, <2>1, <2>2 DEF Turns, Listener
<1>6. turn' \in [Prompts -> Turns]
  BY <1>1, <1>5 DEF Rehear
<1>7. ASSUME NEW c \in Calls PROVE verify'[c] \in Verifies /\ verify'[c].answer = verify[c].answer
  <2>1. verify'[c] = [verify[c] EXCEPT !.listener = hears[@]]
    BY <1>1, <1>4 DEF Rehear
  <2> QED  BY <1>3, <1>4, <2>1 DEF Verifies, Listener
<1>8. verify' \in [Calls -> Verifies]
  BY <1>1, <1>7 DEF Rehear
<1> QED  BY <1>5, <1>6, <1>7, <1>8

LEMMA NextTurnTypes ==
  ASSUME Types, RequestsFit, [Next]_vars PROVE TurnTypes'
<1>1. /\ turn \in [Prompts -> Turns] /\ cookie \in Sessions \cup {None} /\ closed \subseteq Sessions
  BY DEF Types, TurnTypes, BrowserTypes
<1>2. ASSUME NEW n \in Prompts, OnlyTurn(n), turn'[n] \in Turns PROVE TurnTypes'
  BY <1>1, <1>2 DEF OnlyTurn, TurnTypes
<1>3. CASE Reload \/ Unmount
  BY <1>3, RehearMoves DEF TurnTypes
<1>4. ASSUME NEW n \in Prompts, handleSubmit(n) PROVE TurnTypes'
  <2>1. AfterSubmit(n) \subseteq Turns
    BY <1>1 DEF AfterSubmit, Turns, Listener
  <2> QED  BY <1>2, <1>4, <2>1, SubmitMoves
<1>5. ASSUME NEW n \in Prompts, ChatAccepted(n) PROVE TurnTypes'
  <2>1. AfterRefusal(n) \subseteq Turns
    BY <1>1 DEF AfterRefusal, Turns
  <2>2. ASSUME NEW s \in Sessions PROVE AfterStart(n, s) \subseteq Turns
    <3>1. server[s].transcript \in Seq(Message) /\ server[s].state \in ChatSessionState
      BY <2>2 DEF Types, ServerTypes, SessionRows
    <3> QED  BY <1>1, <3>1 DEF AfterStart, Turns
  <2> QED  BY <1>2, <1>5, <2>1, <2>2, AcceptMoves
<1>6. ASSUME NEW n \in Prompts, Served(n) PROVE TurnTypes'
  <2>1. AfterServed(n) \subseteq Turns
    <3>1. <<>> \in Seq(Message)  OBVIOUS
    <3> QED  BY <1>1, <3>1 DEF AfterServed, Turns
  <2> QED  BY <1>2, <1>6, <2>1, ServedMoves
<1>7. ASSUME NEW n \in Prompts, ChatAnswered(n) PROVE TurnTypes'
  <2>1. AfterAnswer(n) \subseteq Turns
    BY <1>1, Literals DEF AfterAnswer, Turns, Listener
  <2> QED  BY <1>2, <1>7, <2>1, AnswerMoves
<1>8. ASSUME NEW n \in Prompts PROVE Unheard(n) \subseteq Turns
  BY <1>1 DEF Unheard, Turns, Listener
<1>9. ASSUME NEW n \in Prompts, ChatFails(n) PROVE TurnTypes'
  BY <1>2, <1>8, <1>9, DeafMoves DEF ChatFails
<1>10. CASE handleStopRequest
  BY <1>2, <1>8, <1>10, StopMoves
<1>11. CASE UNCHANGED turn
  BY <1>1, <1>11 DEF TurnTypes
<1> QED  BY <1>3, <1>4, <1>5, <1>6, <1>7, <1>9, <1>10, <1>11, TurnWriters

LEMMA VerifyWriters ==
  [Next]_vars =>
    \/ CodeSent
    \/ CodeServed
    \/ \E c \in Calls : verify' = [verify EXCEPT ![c] = NoVerify]
    \/ Reload \/ Unmount
    \/ UNCHANGED verify
<1>1. ASSUME NEW n \in Prompts,
             \/ handleSubmit(n) \/ ChatAccepted(n) \/ ChatAnswered(n) \/ ChatFails(n)
             \/ Writes(n) \/ Served(n)
      PROVE  UNCHANGED verify
  BY <1>1 DEF handleSubmit, ChatAccepted, ChatServed, ChatAnswered, ChatFails, Served,
     Writes, ToolWrites
<1>2. CASE \/ EnterChat \/ CacheAges \/ CacheCollected \/ Reconnect
           \/ RestoreServed \/ RestoreArrives \/ RestoreFails
           \/ handleStopRequest \/ handleCloseOtpModal
           \/ \E c \in Calls : VerifyAnswered(c) \/ VerifyFails(c) \/ CloseServed(c) \/ CloseFails(c)
           \/ \E open \in BOOLEAN : ShowCloseModal(open)
           \/ \E s \in Sessions : SessionEnds(s)
  BY <1>2 DEF EnterChat, CacheAges, CacheCollected, Reconnect, RestoreServed, RestoreArrives,
     RestoreFails, handleStopRequest, VerifyAnswered, VerifyFails, handleCloseOtpModal,
     CloseServed, CloseFails, ShowCloseModal, SessionEnds
<1>3. CASE LeaveChat  BY <1>3 DEF LeaveChat
<1>4. CASE handleCloseSession  BY <1>4 DEF handleCloseSession
<1>5. CASE \E c \in Calls : CloseAnswered(c)  BY <1>5 DEF CloseAnswered
<1> QED  BY <1>1, <1>2, <1>3, <1>4, <1>5 DEF Next, vars, Served, Writes, CodeSent, CodeServed, Answers

\* Leaving the page and reloading it change who hears of the closes, and an answer or a
\* failure ends one.
ClosesKeep ==
  close' \in [Calls -> Closes] /\
    \A c \in Calls : \/ close'[c].stage = close[c].stage /\ close'[c].session = close[c].session
                     \/ close'[c].stage = "no"

ClosesOne ==
  /\ sessionId # None
  /\ \E c \in Calls : close' = [close EXCEPT ![c] = [stage |-> "sent", session |-> sessionId,
                                                     listener |-> "page"]]

LEMMA RehearCloses ==
  ASSUME Types, NEW hears \in {Lost, Dropped}
  PROVE  /\ RehearClose(hears) \in [Calls -> Closes]
         /\ \A c \in Calls : /\ RehearClose(hears)[c].stage = close[c].stage
                            /\ RehearClose(hears)[c].session = close[c].session
<1>1. close \in [Calls -> Closes] /\ \A c \in Calls : close[c].listener \in Listener
  BY DEF Types, CloseTypes, Closes
<1>2. \A listener \in Listener : hears[listener] \in Listener
  BY DEF Lost, Dropped, Listener
<1>3. ASSUME NEW c \in Calls
      PROVE  LET heard == [close[c] EXCEPT !.listener = hears[@]]
             IN  heard \in Closes /\ heard.stage = close[c].stage /\ heard.session = close[c].session
  BY <1>1, <1>2 DEF Closes
<1> QED  BY <1>3 DEF RehearClose

LEMMA CloseWriters ==
  ASSUME Types, [Next]_vars
  PROVE  ClosesKeep \/ ClosesOne \/ \E c \in Calls : CloseServed(c)
<1>1. ASSUME NEW n \in Prompts,
             \/ handleSubmit(n) \/ ChatAccepted(n) \/ ChatAnswered(n) \/ ChatFails(n)
             \/ Writes(n) \/ Served(n)
      PROVE  UNCHANGED close
  BY <1>1 DEF handleSubmit, ChatAccepted, ChatServed, ChatAnswered, ChatFails, Served,
     Writes, ToolWrites
<1>2. ASSUME \/ EnterChat \/ CacheAges \/ CacheCollected \/ Reconnect
             \/ RestoreServed \/ RestoreArrives \/ RestoreFails
             \/ handleStopRequest \/ handleCloseOtpModal \/ CodeSent \/ CodeServed
             \/ \E c \in Calls : VerifyAnswered(c) \/ VerifyFails(c)
             \/ \E open \in BOOLEAN : ShowCloseModal(open)
             \/ \E s \in Sessions : SessionEnds(s)
      PROVE  UNCHANGED close
  BY <1>2 DEF EnterChat, CacheAges, CacheCollected, Reconnect, RestoreServed, RestoreArrives,
     RestoreFails, handleStopRequest, VerifyAnswered, VerifyFails, handleCloseOtpModal, CodeSent,
     CodeServed, handleVerifyCode, VerifyServed, ShowCloseModal, SessionEnds
<1>3. close \in [Calls -> Closes] /\ NoClose \in Closes /\ NoClose.stage = "no"
  BY NoRequests DEF Types, CloseTypes, NoClose
<1>4. UNCHANGED close => ClosesKeep
  BY <1>3 DEF ClosesKeep
<1>5. ASSUME NEW c \in Calls, NEW hears \in {Lost, Dropped},
             close' \in {[close EXCEPT ![c] = NoClose], RehearClose(hears),
                        [RehearClose(hears) EXCEPT ![c] = NoClose]}
      PROVE  ClosesKeep
  BY <1>3, <1>5, RehearCloses DEF ClosesKeep
<1>6. ASSUME NEW hears \in {Lost, Dropped}, close' = RehearClose(hears) PROVE ClosesKeep
  BY <1>6, RehearCloses DEF ClosesKeep
<1>7. CASE \E c \in Calls : CloseAnswered(c) \/ CloseFails(c)
  BY <1>5, <1>7 DEF CloseAnswered, CloseFails
<1>8. CASE Reload \/ LeaveChat
  BY <1>6, <1>8 DEF Reload, LeaveChat
<1>9. CASE handleCloseSession
  BY <1>6, <1>9 DEF handleCloseSession, ClosesOne
<1> QED
  BY <1>1, <1>2, <1>4, <1>7, <1>8, <1>9
  DEF Next, vars, Served, Writes, CodeSent, CodeServed, Answers

\* The steps that write the history, the cookie and the budget.
LEMMA BrowserWriters ==
  [Next]_vars =>
    /\ CodeServed \/ UNCHANGED proved
    /\ \/ RestoreArrives \/ (\E c \in Calls : CloseAnswered(c)) \/ \E n \in Prompts : ChatAnswered(n)
       \/ UNCHANGED cookie
    /\ (\E c \in Calls : CloseAnswered(c)) \/ UNCHANGED closed
    /\ Visit \/ Fault \/ UNCHANGED left
<1>1. ASSUME NEW n \in Prompts,
             handleSubmit(n) \/ ChatAccepted(n) \/ ChatFails(n) \/ Writes(n) \/ Served(n)
      PROVE  UNCHANGED <<proved, cookie, closed>> /\ (Fault \/ UNCHANGED left)
  BY <1>1 DEF handleSubmit, ChatAccepted, ChatServed, ChatFails, Served, Writes, ToolWrites
<1>2. ASSUME NEW n \in Prompts, ChatAnswered(n) PROVE UNCHANGED <<proved, closed, left>>
  BY <1>2 DEF ChatAnswered
<1>3. CASE \/ EnterChat \/ LeaveChat \/ Reload
           \/ CacheAges \/ CacheCollected \/ Reconnect
           \/ RestoreServed \/ RestoreFails
           \/ handleStopRequest \/ handleCloseOtpModal
           \/ \E c \in Calls : VerifyAnswered(c) \/ VerifyFails(c)
  BY <1>3 DEF EnterChat, LeaveChat, Reload, CacheAges, CacheCollected, Reconnect, RestoreServed,
     RestoreFails, handleStopRequest, VerifyAnswered, VerifyFails, handleCloseOtpModal
<1>4. CASE \/ handleCloseSession \/ CodeSent
           \/ \E c \in Calls : CloseServed(c) \/ CloseFails(c)
           \/ \E open \in BOOLEAN : ShowCloseModal(open)
           \/ \E s \in Sessions : SessionEnds(s)
  BY <1>4 DEF handleCloseSession, CloseServed, CloseFails, CodeSent, handleVerifyCode,
     ShowCloseModal, SessionEnds
<1>5. ASSUME CodeServed PROVE UNCHANGED <<cookie, closed, left>>
  BY <1>5 DEF CodeServed, VerifyServed
<1>6. CASE RestoreArrives \/ \E c \in Calls : CloseAnswered(c)
  BY <1>6 DEF RestoreArrives, CloseAnswered
<1> QED  BY <1>1, <1>2, <1>3, <1>4, <1>5, <1>6 DEF Next, vars, Served, Writes, CodeSent, CodeServed, Answers

LEMMA NextOtherTypes ==
  ASSUME Types, RequestsFit, [Next]_vars PROVE VerifyTypes' /\ CloseTypes' /\ BrowserTypes'
<1>1. VerifyTypes'
  <2>1. cookie \in Sessions \cup {None}  BY DEF Types, BrowserTypes
  <2>2. verify \in [Calls -> Verifies]  BY DEF Types, VerifyTypes
  <2>3. ASSUME NEW c \in Calls, NEW new \in Verifies, verify' = [verify EXCEPT ![c] = new]
        PROVE  VerifyTypes'
    BY <2>2, <2>3 DEF VerifyTypes
  <2>4. ASSUME NEW c \in Calls, NEW code \in {"right", "wrong"}, handleVerifyCode(c, code)
        PROVE  VerifyTypes'
    <3>1. [stage |-> "sent", cookie |-> cookie, code |-> code, answer |-> "none",
           listener |-> "page"] \in Verifies
      BY <2>1 DEF Verifies, Listener
    <3> QED  BY <2>3, <2>4, <3>1 DEF handleVerifyCode
  <2>5. ASSUME NEW c \in Calls, NEW answer \in Answers, VerifyServed(c, answer)
        PROVE  VerifyTypes'
    <3>1. [verify[c] EXCEPT !.stage = "served", !.answer = answer] \in Verifies
      BY <2>2 DEF Verifies
    <3>2. verify' = [verify EXCEPT ![c] = [verify[c] EXCEPT !.stage = "served", !.answer = answer]]
      BY <2>2, <2>5 DEF VerifyServed
    <3> QED  BY <2>3, <3>1, <3>2
  <2>6. ASSUME NEW c \in Calls, verify' = [verify EXCEPT ![c] = NoVerify] PROVE VerifyTypes'
    BY <2>3, <2>6, NoRequests
  <2>7. CASE Reload \/ Unmount
    BY <2>7, RehearMoves DEF VerifyTypes
  <2>8. CASE UNCHANGED verify
    BY <2>2, <2>8 DEF VerifyTypes
  <2> QED  BY <2>4, <2>5, <2>6, <2>7, <2>8, VerifyWriters DEF CodeSent, CodeServed
<1>2. CloseTypes'
  <2>1. close \in [Calls -> Closes]  BY DEF Types, CloseTypes
  <2>2. CASE ClosesKeep
    BY <2>2 DEF ClosesKeep, CloseTypes
  <2>3. CASE ClosesOne
    <3>1. [stage |-> "sent", session |-> sessionId, listener |-> "page"] \in Closes
      BY ShownTypes DEF Closes, Listener
    <3> QED  BY <2>1, <2>3, <3>1 DEF ClosesOne, CloseTypes
  <2>4. ASSUME NEW c \in Calls, CloseServed(c) PROVE CloseTypes'
    <3>1. [close[c] EXCEPT !.stage = "served"] \in Closes  BY <2>1 DEF Closes
    <3> QED  BY <2>1, <2>4, <3>1 DEF CloseServed, CloseTypes
  <2> QED  BY <2>2, <2>3, <2>4, CloseWriters
<1>3. proved' \subseteq Sessions /\ cookie' \in Sessions \cup {None} /\ closed' \subseteq Sessions
  <2>1. proved \subseteq Sessions /\ cookie \in Sessions \cup {None} /\ closed \subseteq Sessions
    BY DEF Types, BrowserTypes
  <2>2. ASSUME NEW c \in Calls, NEW answer \in Answers, VerifyServed(c, answer)
        PROVE  proved' \subseteq Sessions
    <3>1. answer = "verified" => verify[c].cookie \in Sessions
      BY <2>2 DEF VerifyServed, Types, VerifyTypes, Verifies
    <3> QED  BY <2>1, <2>2, <3>1 DEF VerifyServed
  <2>3. CodeServed \/ UNCHANGED proved
    BY BrowserWriters
  <2>4. ASSUME NEW n \in Prompts, ChatAnswered(n) PROVE cookie' \in Sessions \cup {None}
    <3>1. turn[n].session \in Sessions \cup {None}  BY DEF Types, TurnTypes, Turns
    <3> QED  BY <2>1, <2>4, <3>1 DEF ChatAnswered
  <2>5. ASSUME NEW c \in Calls, CloseAnswered(c)
        PROVE  cookie' \in Sessions \cup {None} /\ closed' \subseteq Sessions
    BY <2>1, <2>5 DEF CloseAnswered, RequestsFit
  <2>6. \/ RestoreArrives \/ (\E c \in Calls : CloseAnswered(c)) \/ \E n \in Prompts : ChatAnswered(n)
        \/ UNCHANGED cookie
    BY BrowserWriters
  <2>7. (\E c \in Calls : CloseAnswered(c)) \/ UNCHANGED closed
    BY BrowserWriters
  <2>8. RestoreArrives => cookie' \in {cookie, None}
    BY DEF RestoreArrives
  <2> QED  BY <2>1, <2>2, <2>3, <2>4, <2>5, <2>6, <2>7, <2>8 DEF CodeServed
<1>4. page' \in {"home", "chat"}
  BY UiWriters DEF Types, BrowserTypes, EnterChat, Reload, Unmount, handleSubmit, ChatAnswered,
     ChatFails, handleStopRequest, VerifyAnswered, handleCloseOtpModal, ShowCloseModal, CloseFails
<1>5. left' \in [prompts : Nat, visits : Nat, faults : Nat, does : SUBSET {"code", "stop", "close", "tools"}]
  <2>1. left \in [prompts : Nat, visits : Nat, faults : Nat, does : SUBSET {"code", "stop", "close", "tools"}]
    BY DEF Types, BrowserTypes
  <2>2. CASE Visit  BY <2>1, <2>2 DEF Visit
  <2>3. CASE Fault  BY <2>1, <2>3 DEF Fault
  <2>4. CASE UNCHANGED left  BY <2>1, <2>4
  <2>5. Visit \/ Fault \/ UNCHANGED left
    BY BrowserWriters
  <2> QED  BY <2>2, <2>3, <2>4, <2>5
<1> QED  BY <1>1, <1>2, <1>3, <1>4, <1>5 DEF BrowserTypes

LEMMA NextTypes ==
  ASSUME Types, RequestsFit, [Next]_vars PROVE Types'
BY NextServerTypes, NextCacheTypes, NextUiTypes, NextTurnTypes, NextOtherTypes DEF Types

LEMMA NextRequestsFit ==
  ASSUME Types, RequestsFit, [Next]_vars PROVE RequestsFit'
<1> DEFINE Fits(request) ==
             /\ request.stage = "unsent" =>
                  request.listener = "none" /\ request.history = <<>> /\ request.closed = {}
             /\ request.stage = "running" => request.session \in Sessions
             /\ request.stage = "served" /\ request.listener # "none" => request.answer # "none"
<1>1. \A n \in Prompts : Fits(turn[n])  BY DEF RequestsFit, Heard
<1>2. \A n \in Prompts : Fits(turn'[n])
  <2>1. turn \in [Prompts -> Turns]  BY DEF Types, TurnTypes
  <2>2. ASSUME NEW n \in Prompts, OnlyTurn(n), Fits(turn'[n])
        PROVE  \A m \in Prompts : Fits(turn'[m])
    <3> HIDE DEF Fits
    <3> QED  BY <1>1, <2>1, <2>2 DEF OnlyTurn
  <2>3. ASSUME NEW n \in Prompts, handleSubmit(n) PROVE Fits(turn'[n])
    BY <2>3, SubmitMoves DEF AfterSubmit
  <2>4. ASSUME NEW n \in Prompts, ChatAccepted(n) PROVE Fits(turn'[n])
    BY <2>4, AcceptMoves DEF AfterRefusal, AfterStart
  <2>5. ASSUME NEW n \in Prompts, Served(n) PROVE Fits(turn'[n])
    BY <2>5, ServedMoves DEF AfterServed
  <2>6. ASSUME NEW n \in Prompts, ChatAnswered(n) PROVE Fits(turn'[n])
    BY <2>6, AnswerMoves DEF AfterAnswer
  <2>7. ASSUME NEW n \in Prompts, turn'[n] \in Unheard(n) PROVE Fits(turn'[n])
    BY <1>1, <2>7 DEF Unheard
  <2>8. CASE Reload \/ Unmount
    <3>1. \A n \in Prompts : turn[n].listener \in Listener  BY <2>1 DEF Turns
    <3>2. Lost["none"] = "none"  BY DEF Lost, Listener
    <3> QED  BY <1>1, <2>8, <3>1, <3>2, RehearMoves
  <2>9. CASE UNCHANGED turn
    BY <1>1, <2>9
  <2> HIDE DEF Fits
  <2>10. ASSUME NEW n \in Prompts,
                \/ handleSubmit(n) \/ ChatAccepted(n) \/ Served(n)
                \/ ChatAnswered(n) \/ ChatFails(n)
         PROVE  OnlyTurn(n) /\ Fits(turn'[n])
    BY <2>3, <2>4, <2>5, <2>6, <2>7, <2>10, SubmitMoves, AcceptMoves, ServedMoves, AnswerMoves,
       DeafMoves DEF ChatFails
  <2>11. handleStopRequest => \E n \in Prompts : OnlyTurn(n) /\ Fits(turn'[n])
    BY <2>7, StopMoves
  <2> QED  BY <2>2, <2>8, <2>9, <2>10, <2>11, TurnWriters
<1>3. ASSUME NEW c \in Calls PROVE close'[c].stage # "no" => close'[c].session \in Sessions
  <2>1. close \in [Calls -> Closes]  BY DEF Types, CloseTypes
  <2>2. CASE ClosesKeep
    BY <2>2 DEF ClosesKeep, RequestsFit
  <2>3. CASE ClosesOne
    <3>1. sessionId \in Sessions  BY <2>3, ShownTypes DEF ClosesOne
    <3>2. PICK d \in Calls : close' = [close EXCEPT ![d] = [stage |-> "sent", session |-> sessionId,
                                                          listener |-> "page"]]
      BY <2>3 DEF ClosesOne
    <3> QED  BY <2>1, <3>1, <3>2 DEF RequestsFit
  <2>4. ASSUME NEW d \in Calls, CloseServed(d)
        PROVE  close'[c].stage # "no" => close'[c].session \in Sessions
    BY <2>1, <2>4 DEF CloseServed, RequestsFit, Closes
  <2> QED  BY <2>2, <2>3, <2>4, CloseWriters
<1> QED  BY <1>2, <1>3 DEF RequestsFit, Heard

-----------------------------------------------------------------------------
(* The badge. *)

\* What React Query's steps do to the two answers it keeps.
LEMMA CacheSteps ==
  ASSUME Types, [Next]_vars
  PROVE  /\ cache'.data \in {NoData, cache.data, cache.answer}
         /\ \/ cache'.answer \in {NoData, cache.answer}
            \/ /\ cache.cookie \in Sessions
               /\ cache'.answer = [session |-> cache.cookie, state |-> server[cache.cookie].state,
                                   messages |-> server[cache.cookie].transcript]
<1>1. cache \in CacheEntries /\ NoCache \in CacheEntries /\ NoCache.data = NoData
      /\ NoCache.answer = NoData
  BY Literals DEF Types, CacheTypes, CacheEntries
<1>2. ASSUME NEW c \in CacheEntries
      PROVE  /\ AbortFetch(c).data = c.data /\ AbortFetch(c).answer = NoData
             /\ Fetching(c).data = c.data /\ Fetching(c).answer = c.answer
             /\ FetchOnMount(c).data = c.data /\ FetchOnMount(c).answer = c.answer
  BY DEF AbortFetch, Fetching, FetchOnMount, CacheEntries
<1>3. CASE EnterChat \/ Reload \/ Reconnect
  BY <1>1, <1>2, <1>3 DEF EnterChat, Reload, Reconnect
<1>4. CASE CacheAges
  BY <1>1, <1>4 DEF CacheAges, CacheEntries
<1>5. CASE RestoreServed
  <2>1. CASE cache.cookie \in Sessions /\ server[cache.cookie].phase = "open"
    BY <1>1, <1>5, <2>1, Literals DEF RestoreServed, CacheEntries
  <2>2. CASE ~(cache.cookie \in Sessions /\ server[cache.cookie].phase = "open")
    BY <1>1, <1>5, <2>2 DEF RestoreServed, CacheEntries
  <2> QED  BY <2>1, <2>2
<1>6. CASE RestoreArrives \/ RestoreFails
  <2> DEFINE failed == [cache EXCEPT !.failed = TRUE]
             arrived == [cache EXCEPT !.data = cache.answer, !.failed = FALSE, !.fresh = TRUE]
  <2>1. /\ failed \in CacheEntries /\ failed.data = cache.data
        /\ arrived \in CacheEntries /\ arrived.data = cache.answer
    BY <1>1 DEF CacheEntries
  <2>2. cache' = AbortFetch(failed) \/ cache' = AbortFetch(arrived)
    BY <1>6 DEF RestoreArrives, RestoreFails
  <2> HIDE DEF failed, arrived
  <2> QED  BY <1>2, <2>1, <2>2
<1>7. CASE cache' = AbortFetch(cache) \/ cache' = NoCache \/ UNCHANGED cache
  BY <1>1, <1>2, <1>7
<1> QED  BY <1>3, <1>4, <1>5, <1>6, <1>7, CacheWriters

LEMMA NextVerified ==
  ASSUME Types, RequestsFit, VerifiedIsProved, [Next]_vars PROVE VerifiedIsProved'
<1> SUFFICES ASSUME proved' = {}
             PROVE  /\ \A s \in Sessions : server'[s].state # "verified"
                    /\ \A n \in Prompts : turn'[n].state # "verified"
                    /\ cache'.data.state # "verified" /\ cache'.answer.state # "verified"
                    /\ ui'.localState # "verified"
                    /\ \A c \in Calls : verify'[c].answer # "verified"
  BY DEF VerifiedIsProved
<1>1. proved = {} /\ \A c \in Calls : ~VerifyServed(c, "verified")
  <2>1. ASSUME NEW c \in Calls, NEW answer \in Answers, VerifyServed(c, answer)
        PROVE  proved = {} /\ answer # "verified"
    BY <2>1 DEF VerifyServed
  <2> QED  BY <2>1, BrowserWriters DEF CodeServed, Answers
<1>2. /\ \A s \in Sessions : server[s].state # "verified"
      /\ \A n \in Prompts : turn[n].state # "verified"
      /\ cache.data.state # "verified" /\ cache.answer.state # "verified"
      /\ ui.localState # "verified"
      /\ \A c \in Calls : verify[c].answer # "verified"
  BY <1>1 DEF VerifiedIsProved
<1>3. /\ server \in [Sessions -> SessionRows] /\ turn \in [Prompts -> Turns]
      /\ ui \in PageStates
  BY DEF Types, ServerTypes, TurnTypes, UiTypes
<1>4. ASSUME NEW n \in Prompts, Writes(n) PROVE \A s \in Sessions : server'[s].state # "verified"
  <2>1. PICK s \in Sessions, state \in ToolStates, row \in BOOLEAN :
          server' = [server EXCEPT ![s].state = state, ![s].row = row]
    BY <1>4, ToolLeaves
  <2> QED  BY <1>2, <1>3, <2>1 DEF ToolStates, SessionRows
<1>5. \A s \in Sessions : server'[s].state # "verified"
  <2>1. ASSUME NEW n \in Prompts, ChatAccepted(n)
        PROVE  \A s \in Sessions : server'[s].state # "verified"
    BY <1>2, <1>3, <2>1, AcceptMoves DEF Created, Unused
  <2>2. ASSUME NEW n \in Prompts, Served(n)
        PROVE  \A s \in Sessions : server'[s].state # "verified"
    <3>1. /\ turn[n].session \in Sessions
          /\ server' = [server EXCEPT ![turn[n].session] = server'[turn[n].session]]
          /\ server'[turn[n].session].state = server[turn[n].session].state
      BY <2>2, ServedWrites
    <3> QED  BY <1>2, <1>3, <3>1
  <2>3. ASSUME NEW c \in Calls, NEW answer \in Answers, VerifyServed(c, answer)
        PROVE  \A s \in Sessions : server'[s].state # "verified"
    <3>1. answer # "verified"  BY <1>1, <2>3
    <3>2. UNCHANGED server \/ \E state \in {"awaiting_code", "code_expired"} :
            server' = [server EXCEPT ![verify[c].cookie].state = state]
      BY <2>3, <3>1 DEF VerifyServed, Answers
    <3> QED  BY <1>2, <1>3, <3>2 DEF SessionRows
  <2>4. CASE \E c \in Calls : CloseServed(c)
    BY <1>2, <1>3, <2>4 DEF CloseServed, SessionRows
  <2>5. ASSUME NEW s \in Sessions, SessionEnds(s)
        PROVE  \A r \in Sessions : server'[r].state # "verified"
    BY <1>2, <1>3, <2>5 DEF SessionEnds, SessionRows
  <2> QED  BY <1>2, <1>4, <2>1, <2>2, <2>3, <2>4, <2>5, ServerWriters DEF CodeServed
<1>6. \A n \in Prompts : turn'[n].state # "verified"
  <2>1. ASSUME NEW n \in Prompts, OnlyTurn(n), turn'[n].state # "verified"
        PROVE  \A m \in Prompts : turn'[m].state # "verified"
    BY <1>2, <1>3, <2>1 DEF OnlyTurn
  <2>2. ASSUME NEW n \in Prompts, Served(n) PROVE turn'[n].state # "verified"
    <3>1. turn[n].session \in Sessions
      BY <2>2 DEF Served, ChatServed, RequestsFit
    <3> QED  BY <1>2, <2>2, <3>1, ServedMoves DEF AfterServed
  <2>3. ASSUME NEW n \in Prompts,
               handleSubmit(n) \/ ChatAccepted(n) \/ ChatAnswered(n) \/ ChatFails(n)
        PROVE  OnlyTurn(n) /\ turn'[n].state # "verified"
    BY <1>2, <2>3, SubmitMoves, AcceptMoves, AnswerMoves, DeafMoves
    DEF ChatFails, AfterSubmit, AfterRefusal, AfterStart, AfterAnswer, Unheard
  <2>4. CASE handleStopRequest
    BY <1>2, <2>1, <2>4, StopMoves DEF Unheard
  <2>5. CASE Reload \/ Unmount
    BY <1>2, <2>5, RehearMoves
  <2> QED  BY <1>2, <2>1, <2>2, <2>3, <2>4, <2>5, ServedMoves, TurnWriters
<1>7. cache'.data.state # "verified" /\ cache'.answer.state # "verified"
  <2>1. NoData.state # "verified"  BY DEF NoData
  <2> QED  BY <1>2, <2>1, CacheSteps
<1>8. ui'.localState # "verified"
  <2>1. ASSUME NEW n \in Prompts, NEW answer \in {"reply", "gone", "failed"},
               HandleChatAnswer(n, answer)
        PROVE  ui'.localState # "verified"
    BY <1>2, <1>3, <2>1 DEF HandleChatAnswer, HandleReply, Forget, PageStates
  <2>2. ASSUME NEW n \in Prompts, ChatAnswered(n) PROVE ui'.localState # "verified"
    <3>1. turn[n].listener = "page" => turn[n].answer \in {"reply", "gone", "failed"}
      BY <1>3, <2>2 DEF ChatAnswered, RequestsFit, Turns
    <3>2. turn[n].listener # "page" => ui' = ui
      BY <2>2 DEF ChatAnswered, HandleChatAnswer
    <3> QED  BY <1>2, <2>1, <2>2, <3>1, <3>2 DEF ChatAnswered
  <2>3. ASSUME NEW n \in Prompts, handleSubmit(n) \/ ChatFails(n)
        PROVE  ui'.localState # "verified"
    BY <1>2, <1>3, <2>1, <2>3 DEF handleSubmit, ChatFails, PageStates
  <2>4. CASE EnterChat \/ Reload \/ Unmount
    BY <2>4, Literals DEF EnterChat, Reload, Unmount
  <2>5. CASE \E c \in Calls : VerifyAnswered(c)
    BY <1>2, <2>5 DEF VerifyAnswered, HandleVerifyAnswer
  <2>6. CASE \/ handleStopRequest \/ handleCloseOtpModal
             \/ \E open \in BOOLEAN : ShowCloseModal(open)
             \/ ui' = [ui EXCEPT !.closing = TRUE]
             \/ \E c \in Calls : CloseFails(c)
             \/ UNCHANGED ui
    BY <1>2, <1>3, <2>6
    DEF handleStopRequest, handleCloseOtpModal, ShowCloseModal, CloseFails, PageStates
  <2> QED  BY <2>2, <2>3, <2>4, <2>5, <2>6, UiWriters
<1>9. ASSUME NEW c \in Calls PROVE verify'[c].answer # "verified"
  <2>1. verify \in [Calls -> Verifies]  BY DEF Types, VerifyTypes
  <2>2. CASE CodeSent
    BY <1>2, <2>1, <2>2 DEF CodeSent, handleVerifyCode
  <2>3. ASSUME NEW d \in Calls, NEW answer \in Answers, VerifyServed(d, answer)
        PROVE  verify'[c].answer # "verified"
    BY <1>1, <1>2, <2>1, <2>3 DEF VerifyServed, Verifies
  <2>4. CASE Reload \/ Unmount
    BY <1>2, <2>4, RehearMoves
  <2>5. CASE \/ \E d \in Calls : verify' = [verify EXCEPT ![d] = NoVerify]
             \/ UNCHANGED verify
    BY <1>2, <2>1, <2>5 DEF NoVerify
  <2> QED  BY <2>2, <2>3, <2>4, <2>5, VerifyWriters DEF CodeServed
<1> QED  BY <1>5, <1>6, <1>7, <1>8, <1>9

-----------------------------------------------------------------------------
(* What is on the page. *)

\* How an answer changes the page that waits for it, and that nobody else's page changes.
LEMMA AnswerSteps ==
  ASSUME Types, RequestsFit, NEW n \in Prompts, ChatAnswered(n) \/ ChatFails(n)
  PROVE  /\ OnlyTurn(n) /\ turn'[n].listener = "none" /\ turn[n].stage # "unsent"
         /\ turn'[n].stage = turn[n].stage /\ turn'[n].closed = turn[n].closed
         /\ UNCHANGED page
         /\ turn[n].listener # "page" => ui' = ui
         /\ turn[n].listener = "page" =>
              \/ /\ \E kind \in {"reply", "error"} : ui'.local = Append(ui.local, <<kind, n>>)
                 /\ ui'.forgotten = ui.forgotten /\ ui'.invalidated = ui.invalidated
              \/ /\ ui'.local = <<>> /\ ui'.invalidated
                 /\ ui'.forgotten = ui.forgotten \cup ToSet(displayMessages)
<1>1. OnlyTurn(n) /\ turn'[n] \in AfterAnswer(n) \cup Unheard(n)
  BY AnswerMoves, DeafMoves DEF ChatFails
<1>2. turn[n].stage # "unsent"
  BY DEF ChatAnswered, ChatFails, RequestsFit, Heard
<1>3. turn'[n].stage = turn[n].stage
  BY <1>1, AnswerMoves, DeafMoves DEF ChatAnswered, ChatFails, AfterAnswer, Unheard
<1>4. ui \in PageStates /\ turn[n] \in Turns  BY DEF Types, UiTypes, TurnTypes
<1>5. PICK answer \in {"reply", "gone", "failed"} \cup {turn[n].answer} :
        /\ HandleChatAnswer(n, answer)
        /\ turn[n].listener = "page" => answer \in {"reply", "gone", "failed"}
  BY <1>4 DEF ChatAnswered, ChatFails, RequestsFit, Heard, Turns
<1>6. turn[n].listener # "page" => ui' = ui
  BY <1>5 DEF HandleChatAnswer
<1>7. ASSUME turn[n].listener = "page"
      PROVE  \/ /\ \E kind \in {"reply", "error"} : ui'.local = Append(ui.local, <<kind, n>>)
                /\ ui'.forgotten = ui.forgotten /\ ui'.invalidated = ui.invalidated
             \/ /\ ui'.local = <<>> /\ ui'.invalidated
                /\ ui'.forgotten = ui.forgotten \cup ToSet(displayMessages)
  <2> DEFINE u == [ui EXCEPT !.pending = None]
  <2>1. /\ u \in PageStates /\ u.local = ui.local /\ u.forgotten = ui.forgotten
        /\ u.invalidated = ui.invalidated
    BY <1>4, Literals DEF PageStates
  <2> HIDE DEF u
  <2>2. CASE answer = "reply"
    <3>1. ui' = HandleReply(u, n, turn[n].session, turn[n].state)
      BY <1>5, <1>7, <2>2 DEF HandleChatAnswer, u
    <3> QED  BY <2>1, <3>1 DEF HandleReply, PageStates
  <2>3. CASE answer = "failed"
    <3>1. ui' = [u EXCEPT !.local = Append(@, <<"error", n>>)]
      BY <1>5, <1>7, <2>3 DEF HandleChatAnswer, u
    <3> QED  BY <2>1, <3>1 DEF PageStates
  <2>4. CASE answer = "gone"
    <3>1. ui' = Forget(u)
      BY <1>5, <1>7, <2>4 DEF HandleChatAnswer, u
    <3> QED  BY <2>1, <3>1 DEF Forget, PageStates
  <2> QED  BY <1>5, <1>7, <2>2, <2>3, <2>4
<1>8. UNCHANGED page  BY DEF ChatAnswered, ChatFails
<1> QED  BY <1>1, <1>2, <1>3, <1>6, <1>7, <1>8 DEF AfterAnswer, Unheard

\* A step that neither mounts, sends, hears nor stops: the messages and the requests
\* that are heard stay as they are.
Quiet ==
  /\ UNCHANGED page
  /\ ui'.pending = ui.pending /\ ui'.local = ui.local
  /\ ui'.forgotten = ui.forgotten /\ ui'.invalidated = ui.invalidated
  /\ \A n \in Prompts : turn'[n].listener = turn[n].listener

\* What every step does to the messages on the page.
LEMMA PageSteps ==
  ASSUME Types, RequestsFit, [Next]_vars
  PROVE  \/ /\ ui' = FreshUi
            /\ \/ page = "home" /\ UNCHANGED turn
               \/ \A n \in Prompts : turn'[n].listener # "page"
         \/ \E n \in Prompts : handleSubmit(n) \/ ChatAnswered(n) \/ ChatFails(n)
         \/ handleStopRequest
         \/ Quiet
<1>1. turn \in [Prompts -> Turns] /\ ui \in PageStates  BY DEF Types, TurnTypes, UiTypes
<1>2. CASE EnterChat
  BY <1>2 DEF EnterChat
<1>3. CASE Reload \/ Unmount
  BY <1>3, RehearMoves DEF Reload, Unmount
<1>4. ASSUME NEW n \in Prompts, ChatAccepted(n) \/ Served(n) PROVE Quiet
  <2>1. OnlyTurn(n) /\ turn'[n].listener = turn[n].listener
    BY <1>4, AcceptMoves, ServedMoves DEF AfterRefusal, AfterStart, AfterServed
  <2>2. UNCHANGED <<page, ui>>
    BY <1>4 DEF ChatAccepted, Served, ChatServed
  <2> QED  BY <1>1, <2>1, <2>2 DEF OnlyTurn, Quiet
<1>5. CASE handleCloseOtpModal \/ \E c \in Calls : VerifyAnswered(c) \/ CloseFails(c)
  BY <1>1, <1>5
  DEF VerifyAnswered, HandleVerifyAnswer, handleCloseOtpModal, CloseFails, PageStates, Quiet
<1>6. CASE \E open \in BOOLEAN : ShowCloseModal(open)
  BY <1>1, <1>6 DEF ShowCloseModal, PageStates, Quiet
<1>7. CASE ui' = [ui EXCEPT !.closing = TRUE] /\ UNCHANGED <<turn, page>>
  BY <1>1, <1>7 DEF PageStates, Quiet
<1>8. CASE UNCHANGED <<ui, page, turn>>
  BY <1>8 DEF Quiet
<1> QED  BY <1>2, <1>3, <1>4, <1>5, <1>6, <1>7, <1>8, UiWriters, TurnWriters

\* No request is heard by the page when no prompt is pending.
LEMMA OnlyPendingIsHeard ==
  ASSUME PendingIsShown, NEW n \in Prompts, NEW m \in Prompts,
         turn[n].listener = "page", turn[m].listener = "page"
  PROVE  n = m
BY DEF PendingIsShown

LEMMA NextPendingIsShown ==
  ASSUME Types, RequestsFit, PendingIsShown, [Next]_vars PROVE PendingIsShown'
<1>1. turn \in [Prompts -> Turns] /\ ui \in PageStates  BY DEF Types, TurnTypes, UiTypes
<1>2. CASE /\ ui' = FreshUi
           /\ \/ page = "home" /\ UNCHANGED turn
              \/ \A n \in Prompts : turn'[n].listener # "page"
  BY <1>2 DEF PendingIsShown
<1>3. ASSUME NEW n \in Prompts, handleSubmit(n) PROVE PendingIsShown'
  <2>1. \A m \in Prompts : turn[m].listener # "page"
    BY <1>3, Literals DEF handleSubmit, PendingIsShown
  <2>2. \A m \in Prompts : turn'[m].listener = "page" => m = n
    BY <1>1, <1>3, <2>1, SubmitMoves DEF OnlyTurn
  <2>3. page' = "chat" /\ ui'.pending = n /\ ui'.local = Append(ui.local, <<"user", n>>)
    BY <1>1, <1>3 DEF handleSubmit, PageStates
  <2>4. <<"user", n>> \in ToSet(ui'.local)
    <3>1. ui.local \in Seq(Message) /\ <<"user", n>> \in Message
      BY <1>1, Literals DEF PageStates
    <3>2. ToSet(Append(ui.local, <<"user", n>>)) = ToSet(ui.local) \cup {<<"user", n>>}
      BY <3>1, AppendedIn
    <3> QED  BY <2>3, <3>2
  <2> QED  BY <2>2, <2>3, <2>4 DEF PendingIsShown
<1>4. ASSUME NEW n \in Prompts, ChatAnswered(n) \/ ChatFails(n) PROVE PendingIsShown'
  <2>1. /\ OnlyTurn(n) /\ turn'[n].listener = "none" /\ UNCHANGED page
        /\ turn[n].listener # "page" => ui' = ui
    BY <1>4, AnswerSteps
  <2>2. ASSUME NEW m \in Prompts, turn'[m].listener = "page"
        PROVE  page' = "chat" /\ ui'.pending = m /\ <<"user", m>> \in ToSet(ui'.local)
    <3>1. m # n /\ turn[m].listener = "page"
      BY <1>1, <2>1, <2>2 DEF OnlyTurn
    <3>2. ui' = ui
      BY <2>1, <3>1, OnlyPendingIsHeard
    <3> QED  BY <2>1, <3>1, <3>2 DEF PendingIsShown
  <2> QED  BY <2>2 DEF PendingIsShown
<1>5. CASE handleStopRequest
  <2>1. PICK n \in Prompts : ui.pending = n /\ OnlyTurn(n) /\ turn'[n] \in Unheard(n)
    BY <1>5, StopMoves
  <2>2. ASSUME NEW m \in Prompts PROVE turn'[m].listener # "page"
    BY <1>1, <2>1, <2>2 DEF OnlyTurn, Unheard, PendingIsShown
  <2> QED  BY <2>2 DEF PendingIsShown
<1>6. CASE Quiet
  BY <1>6 DEF Quiet, PendingIsShown
<1> QED  BY <1>2, <1>3, <1>4, <1>5, <1>6, PageSteps

LEMMA NextReplyFollows ==
  ASSUME Types, RequestsFit, PendingIsShown, ReplyFollowsItsPrompt, [Next]_vars
  PROVE  ReplyFollowsItsPrompt'
<1> DEFINE Ordered(messages) ==
             \A i \in DOMAIN messages : messages[i][1] # "user" =>
               \E j \in 1..(i - 1) : messages[j] = <<"user", messages[i][2]>>
<1>1. turn \in [Prompts -> Turns] /\ ui \in PageStates /\ ui.local \in Seq(Message)
  BY DEF Types, TurnTypes, UiTypes, PageStates
<1>2. Ordered(ui.local)  BY DEF ReplyFollowsItsPrompt
<1>3. Ordered(<<>>)  OBVIOUS
<1>4. ASSUME NEW n \in Prompts, NEW kind \in {"user", "reply", "error"},
             kind = "user" \/ <<"user", n>> \in ToSet(ui.local)
      PROVE  Ordered(Append(ui.local, <<kind, n>>))
  <2> DEFINE len == Len(ui.local)
             longer == Append(ui.local, <<kind, n>>)
  <2>1. /\ DOMAIN longer = 1..(len + 1) /\ DOMAIN ui.local = 1..len /\ len \in Nat
        /\ \A i \in 1..len : longer[i] = ui.local[i]
        /\ longer[len + 1] = <<kind, n>>
    BY <1>1, Literals
  <2>2. ASSUME NEW i \in 1..(len + 1), longer[i][1] # "user"
        PROVE  \E j \in 1..(i - 1) : longer[j] = <<"user", longer[i][2]>>
    <3> HIDE DEF longer
    <3>1. CASE i \in 1..len
      <4>1. PICK j \in 1..(i - 1) : ui.local[j] = <<"user", ui.local[i][2]>>
        BY <1>2, <2>1, <2>2, <3>1
      <4>2. j \in 1..len  BY <2>1, <3>1
      <4> QED  BY <2>1, <3>1, <4>1, <4>2
    <3>2. CASE i = len + 1
      <4>1. kind # "user" /\ longer[i][2] = n  BY <2>1, <2>2, <3>2
      <4>2. PICK j \in 1..len : ui.local[j] = <<"user", n>>
        BY <1>4, <2>1, <4>1 DEF ToSet
      <4>3. j \in 1..(i - 1)  BY <2>1, <3>2
      <4> QED  BY <2>1, <4>1, <4>2, <4>3
    <3>3. i \in 1..len \/ i = len + 1  BY <2>1
    <3> QED  BY <3>1, <3>2, <3>3
  <2> HIDE DEF longer
  <2>3. Ordered(longer)  BY <2>1, <2>2
  <2> QED  BY <2>3 DEF longer
<1> SUFFICES Ordered(ui'.local)  BY DEF ReplyFollowsItsPrompt
<1> HIDE DEF Ordered
<1>5. CASE ui' = FreshUi
  BY <1>3, <1>5, Literals
<1>6. ASSUME NEW n \in Prompts, handleSubmit(n) PROVE Ordered(ui'.local)
  BY <1>1, <1>4, <1>6 DEF handleSubmit, PageStates
<1>7. ASSUME NEW n \in Prompts, ChatAnswered(n) \/ ChatFails(n) PROVE Ordered(ui'.local)
  <2>1. CASE turn[n].listener # "page"
    BY <1>2, <1>7, <2>1, AnswerSteps
  <2>2. CASE turn[n].listener = "page"
    <3>1. <<"user", n>> \in ToSet(ui.local)  BY <2>2 DEF PendingIsShown
    <3>2. \/ \E kind \in {"reply", "error"} : ui'.local = Append(ui.local, <<kind, n>>)
          \/ ui'.local = <<>>
      BY <1>7, <2>2, AnswerSteps
    <3> QED  BY <1>3, <1>4, <3>1, <3>2
  <2> QED  BY <2>1, <2>2
<1>8. CASE handleStopRequest
  BY <1>1, <1>2, <1>8 DEF handleStopRequest, PageStates
<1>9. CASE Quiet
  BY <1>2, <1>9 DEF Quiet
<1> QED  BY <1>5, <1>6, <1>7, <1>8, <1>9, PageSteps

\* What every step does to the transcript of a session.
LEMMA TranscriptSteps ==
  ASSUME Types, RequestsFit, [Next]_vars, NEW s \in Sessions
  PROVE  /\ server[s].phase = "ended" => server'[s].phase = "ended"
         /\ \/ server'[s].transcript = server[s].transcript
            \/ server'[s].transcript = <<>>
            \/ \E n \in Prompts :
                 /\ Served(n) /\ turn[n].stage = "running" /\ turn[n].session = s
                 /\ ToSet(server'[s].transcript) \subseteq
                      ToSet(turn[n].history) \cup {<<"user", n>>, <<"reply", n>>}
<1>1. server \in [Sessions -> SessionRows] /\ server[s] \in SessionRows
  BY DEF Types, ServerTypes
<1>2. ASSUME NEW n \in Prompts, ChatAccepted(n)
      PROVE  /\ server[s].phase = "ended" => server'[s].phase = "ended"
             /\ server'[s].transcript \in {server[s].transcript, <<>>}
  BY <1>1, <1>2, AcceptMoves DEF Created, Unused
<1>3. ASSUME NEW n \in Prompts, Served(n)
      PROVE  /\ server[s].phase = "ended" => server'[s].phase = "ended"
             /\ \/ server'[s].transcript = server[s].transcript
                \/ /\ turn[n].stage = "running" /\ turn[n].session = s
                   /\ ToSet(server'[s].transcript) \subseteq
                        ToSet(turn[n].history) \cup {<<"user", n>>, <<"reply", n>>}
  <2>2. turn[n].stage = "running"  BY <1>3 DEF Served, ChatServed
  <2>3. CASE turn[n].session = s
    BY <1>3, <2>2, <2>3, ServedWrites
  <2>4. CASE turn[n].session # s
    <3>1. server' = [server EXCEPT ![turn[n].session] = server'[turn[n].session]]
      BY <1>3, ServedWrites
    <3> QED  BY <1>1, <2>4, <3>1
  <2> QED  BY <2>3, <2>4
<1>4. ASSUME NEW c \in Calls, NEW answer \in Answers, VerifyServed(c, answer)
      PROVE  server'[s].phase = server[s].phase /\ server'[s].transcript = server[s].transcript
  <2>1. UNCHANGED server \/ \E state : server' = [server EXCEPT ![verify[c].cookie].state = state]
    BY <1>4 DEF VerifyServed
  <2>2. ASSUME NEW state, server' = [server EXCEPT ![verify[c].cookie].state = state]
        PROVE  server'[s].phase = server[s].phase /\ server'[s].transcript = server[s].transcript
    BY <1>1, <2>2 DEF SessionRows
  <2> QED  BY <2>1, <2>2
<1>5. ASSUME NEW r \in Sessions, server' = [server EXCEPT ![r].phase = "ended"]
      PROVE  /\ server[s].phase = "ended" => server'[s].phase = "ended"
             /\ server'[s].transcript = server[s].transcript
  BY <1>1, <1>5 DEF SessionRows
<1>6. CASE \E c \in Calls : CloseServed(c)
  BY <1>5, <1>6 DEF CloseServed, RequestsFit
<1>7. ASSUME NEW r \in Sessions, SessionEnds(r)
      PROVE  /\ server[s].phase = "ended" => server'[s].phase = "ended"
             /\ server'[s].transcript = server[s].transcript
  BY <1>5, <1>7 DEF SessionEnds
<1>8. ASSUME NEW n \in Prompts, Writes(n)
      PROVE  server'[s].phase = server[s].phase /\ server'[s].transcript = server[s].transcript
  <2>1. PICK r \in Sessions, state \in ToolStates, row \in BOOLEAN :
          server' = [server EXCEPT ![r].state = state, ![r].row = row]
    BY <1>8, ToolLeaves
  <2> QED  BY <1>1, <2>1 DEF SessionRows
<1> QED  BY <1>2, <1>3, <1>4, <1>6, <1>7, <1>8, ServerWriters DEF CodeServed

\* What every step does to one request: it is sent, taken up, or keeps to what it was.
LEMMA RequestSteps ==
  ASSUME Types, RequestsFit, [Next]_vars, NEW n \in Prompts
  PROVE  \/ handleSubmit(n) /\ turn'[n] \in AfterSubmit(n)
         \/ /\ ChatAccepted(n)
            /\ \E s \in Sessions : turn'[n] \in AfterStart(n, s) /\ server[s].phase # "ended"
         \/ /\ turn'[n].stage = "unsent" <=> turn[n].stage = "unsent"
            /\ turn'[n].stage = "running" => turn[n].stage = "running"
            /\ turn'[n].stage = "running" => turn'[n].session = turn[n].session
            /\ turn'[n].history \in {turn[n].history, <<>>}
            /\ turn'[n].closed = turn[n].closed
<1> DEFINE Kept(m) == /\ turn'[m].stage = "unsent" <=> turn[m].stage = "unsent"
                      /\ turn'[m].stage = "running" => turn[m].stage = "running"
                      /\ turn'[m].stage = "running" => turn'[m].session = turn[m].session
                      /\ turn'[m].history \in {turn[m].history, <<>>}
                      /\ turn'[m].closed = turn[m].closed
<1>1. turn \in [Prompts -> Turns]  BY DEF Types, TurnTypes
<1>2. ASSUME NEW m \in Prompts, OnlyTurn(m), m # n PROVE Kept(n)
  BY <1>1, <1>2 DEF OnlyTurn
<1>3. ASSUME NEW m \in Prompts, turn'[m] \in Unheard(m) PROVE Kept(m)
  BY <1>3 DEF Unheard
<1>4. ASSUME NEW m \in Prompts, handleSubmit(m)
      PROVE  Kept(n) \/ (handleSubmit(n) /\ turn'[n] \in AfterSubmit(n))
  <2> HIDE DEF Kept
  <2> QED  BY <1>2, <1>4, SubmitMoves
<1>5. ASSUME NEW m \in Prompts, ChatAccepted(m)
      PROVE  \/ Kept(n)
             \/ /\ ChatAccepted(n)
                /\ \E s \in Sessions : turn'[n] \in AfterStart(n, s) /\ server[s].phase # "ended"
  <2>1. ASSUME turn'[m] \in AfterRefusal(m) PROVE Kept(m)
    BY <1>5, <2>1 DEF AfterRefusal, ChatAccepted
  <2> HIDE DEF Kept
  <2> QED  BY <1>2, <1>5, <2>1, AcceptMoves
<1>6. ASSUME NEW m \in Prompts, Served(m) PROVE Kept(n)
  <2>1. Kept(m)
    BY <1>6, ServedMoves DEF AfterServed, Served, ChatServed
  <2> HIDE DEF Kept
  <2> QED  BY <1>2, <1>6, <2>1, ServedMoves
<1>7. ASSUME NEW m \in Prompts, ChatAnswered(m) PROVE Kept(n)
  <2>1. Kept(m)
    BY <1>7, AnswerMoves DEF AfterAnswer, ChatAnswered
  <2> HIDE DEF Kept
  <2> QED  BY <1>2, <1>7, <2>1, AnswerMoves
<1>8. ASSUME NEW m \in Prompts, OnlyTurn(m), turn'[m] \in Unheard(m) PROVE Kept(n)
  <2> HIDE DEF Kept
  <2> QED  BY <1>2, <1>3, <1>8
<1>9. ASSUME Reload \/ Unmount PROVE Kept(n)
  BY <1>9, RehearMoves
<1>10. ASSUME UNCHANGED turn PROVE Kept(n)
  BY <1>10
<1> HIDE DEF Kept
<1>11. ASSUME NEW m \in Prompts, ChatFails(m) PROVE Kept(n)
  <2>1. turn' = [turn EXCEPT ![m].listener = "none"]  BY <1>11 DEF ChatFails
  <2> QED  BY <1>8, <2>1, DeafMoves
<1>12. ASSUME handleStopRequest PROVE Kept(n)
  BY <1>8, <1>12, StopMoves
<1>13. \/ Kept(n)
       \/ handleSubmit(n) /\ turn'[n] \in AfterSubmit(n)
       \/ /\ ChatAccepted(n)
          /\ \E s \in Sessions : turn'[n] \in AfterStart(n, s) /\ server[s].phase # "ended"
  BY <1>4, <1>5, <1>6, <1>7, <1>9, <1>10, <1>11, <1>12, TurnWriters
<1> QED  BY <1>13 DEF Kept

\* A message of the visit is one that was there, the prompt sent, or an answer to the
\* prompt whose request the page hears.
LEMMA LocalSteps ==
  ASSUME Types, RequestsFit, [Next]_vars
  PROVE  \/ ui'.local \in {ui.local, <<>>}
         \/ \E n \in Prompts, kind \in {"user", "reply", "error"} :
              /\ ToSet(ui'.local) = ToSet(ui.local) \cup {<<kind, n>>}
              /\ turn'[n].stage # "unsent"
              /\ handleSubmit(n) \/ turn[n].listener = "page"
<1>1. ui \in PageStates  BY DEF Types, UiTypes
<1>2. ASSUME NEW n \in Prompts, NEW kind \in {"user", "reply", "error"}
      PROVE  ToSet(Append(ui.local, <<kind, n>>)) = ToSet(ui.local) \cup {<<kind, n>>}
  <2>1. ui.local \in Seq(Message) /\ <<kind, n>> \in Message
    BY <1>1, Literals DEF PageStates
  <2> QED  BY <2>1, AppendedIn
<1>3. ASSUME NEW n \in Prompts, handleSubmit(n)
      PROVE  /\ ToSet(ui'.local) = ToSet(ui.local) \cup {<<"user", n>>}
             /\ turn'[n].stage # "unsent"
  <2>1. ui'.local = Append(ui.local, <<"user", n>>)
    BY <1>1, <1>3 DEF handleSubmit, PageStates
  <2>2. turn'[n].stage = "sent"  BY <1>3, SubmitMoves DEF AfterSubmit
  <2> QED  BY <1>2, <2>1, <2>2
<1>4. ASSUME NEW n \in Prompts, ChatAnswered(n) \/ ChatFails(n)
      PROVE  \/ ui'.local \in {ui.local, <<>>}
             \/ /\ turn[n].listener = "page" /\ turn'[n].stage # "unsent"
                /\ \E kind \in {"reply", "error"} :
                     ToSet(ui'.local) = ToSet(ui.local) \cup {<<kind, n>>}
  <2>1. turn'[n].stage # "unsent" /\ (turn[n].listener # "page" => ui' = ui)
    BY <1>4, AnswerSteps
  <2>2. CASE turn[n].listener = "page"
    <3>1. \/ \E kind \in {"reply", "error"} : ui'.local = Append(ui.local, <<kind, n>>)
          \/ ui'.local = <<>>
      BY <1>4, <2>2, AnswerSteps
    <3> QED  BY <1>2, <2>1, <2>2, <3>1
  <2> QED  BY <2>1, <2>2
<1>5. ui' = FreshUi => ui'.local = <<>>
  BY Literals
<1>6. handleStopRequest \/ Quiet => ui'.local = ui.local
  BY <1>1 DEF handleStopRequest, Quiet, PageStates
<1> QED  BY <1>3, <1>4, <1>5, <1>6, PageSteps

\* What was forgotten grows only by what was shown, when the page hears that its session
\* is over; the messages of the visit are then gone.
LEMMA ForgottenSteps ==
  ASSUME Types, RequestsFit, [Next]_vars
  PROVE  \/ ui'.forgotten = {}
         \/ ui'.forgotten = ui.forgotten /\ ui'.invalidated = ui.invalidated
         \/ /\ ui'.forgotten = ui.forgotten \cup ToSet(displayMessages)
            /\ ui'.local = <<>> /\ ui'.invalidated
            /\ \E n \in Prompts : /\ turn[n].listener = "page" /\ OnlyTurn(n)
                                 /\ turn'[n].listener = "none"
<1>1. ui \in PageStates  BY DEF Types, UiTypes
<1>2. ASSUME NEW n \in Prompts, handleSubmit(n)
      PROVE  ui'.forgotten = ui.forgotten /\ ui'.invalidated = ui.invalidated
  BY <1>1, <1>2 DEF handleSubmit, PageStates
<1>3. ASSUME NEW n \in Prompts, ChatAnswered(n) \/ ChatFails(n)
      PROVE  \/ ui'.forgotten = ui.forgotten /\ ui'.invalidated = ui.invalidated
             \/ /\ ui'.forgotten = ui.forgotten \cup ToSet(displayMessages)
                /\ ui'.local = <<>> /\ ui'.invalidated
                /\ turn[n].listener = "page" /\ OnlyTurn(n) /\ turn'[n].listener = "none"
  <2>1. OnlyTurn(n) /\ turn'[n].listener = "none" /\ (turn[n].listener # "page" => ui' = ui)
    BY <1>3, AnswerSteps
  <2>2. CASE turn[n].listener = "page"
    <3>1. \/ ui'.forgotten = ui.forgotten /\ ui'.invalidated = ui.invalidated
          \/ /\ ui'.local = <<>> /\ ui'.invalidated
             /\ ui'.forgotten = ui.forgotten \cup ToSet(displayMessages)
      BY <1>3, <2>2, AnswerSteps
    <3> QED  BY <2>1, <2>2, <3>1
  <2> QED  BY <2>1, <2>2
<1>4. ui' = FreshUi => ui'.forgotten = {}
  BY Literals
<1>5. handleStopRequest \/ Quiet => ui'.forgotten = ui.forgotten /\ ui'.invalidated = ui.invalidated
  BY <1>1 DEF handleStopRequest, Quiet, PageStates
<1> QED  BY <1>2, <1>3, <1>4, <1>5, PageSteps

\* Everything shown was restored or belongs to this visit.
LEMMA ShownIn ==
  ASSUME Types
  PROVE  /\ ToSet(displayMessages) \subseteq ToSet(cache.data.messages) \cup ToSet(ui.local)
         /\ ui.invalidated => ToSet(displayMessages) = ToSet(ui.local)
<1>1. restorationData \in {NoData, cache.data} /\ (ui.invalidated => restorationData = NoData)
  BY DEF restorationData
<1>2. restorationData.messages \in Seq(Message) /\ ui.local \in Seq(Message)
  BY ShownTypes DEF Types, UiTypes, PageStates, Restorations
<1>3. ToSet(displayMessages) = ToSet(restorationData.messages) \cup ToSet(ui.local)
  BY <1>2, ConcatenatedIn DEF displayMessages
<1>4. NoData.messages = <<>>  BY DEF NoData
<1> QED  BY <1>1, <1>3, <1>4, NothingIn

LEMMA NextUnsent ==
  ASSUME Types, RequestsFit, UnsentIsUnknown, [Next]_vars PROVE UnsentIsUnknown'
<1> SUFFICES ASSUME NEW n \in Prompts, turn'[n].stage = "unsent"
             PROVE  /\ ~Mentions(ToSet(ui'.local), n) /\ ~Mentions(ui'.forgotten, n)
                    /\ ~Mentions(ToSet(cache'.data.messages), n)
                    /\ ~Mentions(ToSet(cache'.answer.messages), n)
                    /\ \A s \in Sessions : ~Mentions(ToSet(server'[s].transcript), n)
                    /\ \A m \in Prompts : ~Mentions(ToSet(turn'[m].history), n)
  BY DEF UnsentIsUnknown, Mentions
<1>1. turn[n].stage = "unsent"
  BY RequestSteps DEF AfterSubmit, AfterStart
<1>2. /\ ~Mentions(ToSet(ui.local), n) /\ ~Mentions(ui.forgotten, n)
      /\ ~Mentions(ToSet(cache.data.messages), n)
      /\ ~Mentions(ToSet(cache.answer.messages), n)
      /\ \A s \in Sessions : ~Mentions(ToSet(server[s].transcript), n)
      /\ \A m \in Prompts : ~Mentions(ToSet(turn[m].history), n)
  BY <1>1 DEF UnsentIsUnknown
<1>3. ~Mentions(ToSet(<<>>), n)  BY NothingIn DEF Mentions
<1>4. ~Mentions(ToSet(ui'.local), n)
  <2>1. ASSUME NEW m \in Prompts, NEW kind, turn'[m].stage # "unsent",
               ToSet(ui'.local) = ToSet(ui.local) \cup {<<kind, m>>}
        PROVE  ~Mentions(ToSet(ui'.local), n)
    BY <1>2, <2>1 DEF Mentions
  <2> QED  BY <1>2, <1>3, <2>1, LocalSteps
<1>5. ~Mentions(ui'.forgotten, n)
  BY <1>2, ForgottenSteps, ShownIn DEF Mentions
<1>6. /\ ~Mentions(ToSet(cache'.data.messages), n)
      /\ ~Mentions(ToSet(cache'.answer.messages), n)
  <2>1. NoData.messages = <<>>  BY DEF NoData
  <2> QED  BY <1>2, <1>3, <2>1, CacheSteps
<1>7. ASSUME NEW s \in Sessions PROVE ~Mentions(ToSet(server'[s].transcript), n)
  <2>1. ASSUME NEW m \in Prompts, turn[m].stage = "running",
               ToSet(server'[s].transcript) \subseteq
                 ToSet(turn[m].history) \cup {<<"user", m>>, <<"reply", m>>}
        PROVE  ~Mentions(ToSet(server'[s].transcript), n)
    BY <1>1, <1>2, <2>1 DEF Mentions
  <2> QED  BY <1>2, <1>3, <2>1, TranscriptSteps
<1>8. ASSUME NEW m \in Prompts PROVE ~Mentions(ToSet(turn'[m].history), n)
  <2>1. turn'[m] \in AfterSubmit(m) => turn'[m].history = turn[m].history
    BY DEF AfterSubmit
  <2>2. \A s \in Sessions : turn'[m] \in AfterStart(m, s) => turn'[m].history = server[s].transcript
    BY DEF AfterStart
  <2> QED  BY <1>2, <1>3, <2>1, <2>2, RequestSteps
<1> QED  BY <1>4, <1>5, <1>6, <1>7, <1>8

LEMMA NextForgotten ==
  ASSUME Types, RequestsFit, PendingIsShown, UnsentIsUnknown, ForgottenIsGone, [Next]_vars
  PROVE  ForgottenIsGone'
<1>1. turn \in [Prompts -> Turns]  BY DEF Types, TurnTypes
<1>2. CASE ui'.forgotten = {}
  BY <1>2 DEF ForgottenIsGone, Mentions
<1>3. CASE ui'.forgotten = ui.forgotten /\ ui'.invalidated = ui.invalidated
  <2>1. ASSUME NEW n \in Prompts, handleSubmit(n) PROVE ~Mentions(ui.forgotten, n)
    BY <2>1 DEF handleSubmit, Sendable, UnsentIsUnknown
  <2>2. ui.forgotten \cap ToSet(ui'.local) = {}
    <3>1. ASSUME NEW n \in Prompts, NEW kind \in {"user", "reply", "error"},
                 ToSet(ui'.local) = ToSet(ui.local) \cup {<<kind, n>>},
                 handleSubmit(n) \/ turn[n].listener = "page"
          PROVE  ui.forgotten \cap ToSet(ui'.local) = {}
      <4>1. <<kind, n>> \notin ui.forgotten
        BY <2>1, <3>1 DEF ForgottenIsGone, Mentions
      <4> QED  BY <3>1, <4>1 DEF ForgottenIsGone
    <3>2. CASE ui'.local \in {ui.local, <<>>}
      BY <3>2, NothingIn DEF ForgottenIsGone
    <3> QED  BY <3>1, <3>2, LocalSteps
  <2>3. ASSUME NEW n \in Prompts, turn'[n].listener = "page" PROVE ~Mentions(ui.forgotten, n)
    <3>1. turn[n].listener = "page" \/ handleSubmit(n)
      <4>1. ASSUME NEW m \in Prompts, handleSubmit(m), m # n PROVE turn[n].listener = "page"
        BY <1>1, <2>3, <4>1, SubmitMoves DEF OnlyTurn
      <4>2. ASSUME NEW m \in Prompts, ChatAnswered(m) \/ ChatFails(m)
            PROVE  turn[n].listener = "page"
        <5>1. OnlyTurn(m) /\ turn'[m].listener = "none"  BY <4>2, AnswerSteps
        <5> QED  BY <1>1, <2>3, <5>1 DEF OnlyTurn
      <4>3. CASE handleStopRequest
        <5>1. PICK m \in Prompts : OnlyTurn(m) /\ turn'[m] \in Unheard(m)
          BY <4>3, StopMoves
        <5> QED  BY <1>1, <2>3, <5>1 DEF OnlyTurn, Unheard
      <4>4. CASE Quiet  BY <2>3, <4>4 DEF Quiet
      <4> QED  BY <2>3, <4>1, <4>2, <4>3, <4>4, PageSteps
    <3> QED  BY <2>1, <3>1 DEF ForgottenIsGone
  <2> QED  BY <1>3, <2>2, <2>3 DEF ForgottenIsGone
<1>4. ASSUME ui'.local = <<>>, ui'.invalidated,
             NEW n \in Prompts, turn[n].listener = "page", OnlyTurn(n), turn'[n].listener = "none"
      PROVE  ForgottenIsGone'
  <2>1. ASSUME NEW m \in Prompts PROVE turn'[m].listener # "page"
    BY <1>1, <1>4, <2>1, OnlyPendingIsHeard DEF OnlyTurn
  <2> QED  BY <1>4, <2>1, NothingIn DEF ForgottenIsGone
<1> QED  BY <1>2, <1>3, <1>4, ForgottenSteps

-----------------------------------------------------------------------------
(* What was closed. *)

LEMMA NextClosed ==
  ASSUME Types, RequestsFit, UnsentIsUnknown, ClosedIsOver, [Next]_vars PROVE ClosedIsOver'
<1>1. closed \subseteq closed'
  BY BrowserWriters DEF CloseAnswered
<1>2. closed \subseteq Sessions /\ closed' \subseteq Sessions
  BY NextTypes DEF Types, BrowserTypes
<1>3. \A s \in Sessions : server[s].phase = "ended" => server'[s].phase = "ended"
  BY TranscriptSteps
<1>4. ASSUME NEW c \in Calls, close'[c].stage = "served"
      PROVE  server'[close'[c].session].phase = "ended"
  <2>1. /\ close[c].stage = "served" =>
             close[c].session \in Sessions /\ server[close[c].session].phase = "ended"
        /\ close \in [Calls -> Closes]
    BY DEF RequestsFit, ClosedIsOver, Types, CloseTypes
  <2>2. CASE ClosesKeep
    BY <1>3, <1>4, <2>1, <2>2 DEF ClosesKeep
  <2>3. ASSUME NEW d \in Calls, CloseServed(d) PROVE server'[close'[c].session].phase = "ended"
    <3>1. CASE c = d
      <4>1. close[c].session \in Sessions  BY <2>3, <3>1 DEF CloseServed, RequestsFit
      <4>2. close'[c].session = close[c].session
        BY <2>1, <2>3, <3>1 DEF CloseServed, Closes
      <4>3. server' = [server EXCEPT ![close[c].session].phase = "ended"]
        BY <2>3, <3>1 DEF CloseServed
      <4>4. server'[close[c].session].phase = "ended"
        BY <4>1, <4>3 DEF Types, ServerTypes, SessionRows
      <4> QED  BY <4>2, <4>4
    <3>2. CASE c # d
      <4>1. close'[c] = close[c]  BY <2>1, <2>3, <3>2 DEF CloseServed
      <4> QED  BY <1>3, <1>4, <2>1, <4>1
    <3> QED  BY <3>1, <3>2
  <2>4. CASE ClosesOne
    <3>1. close'[c] = close[c]
      BY <1>4, <2>1, <2>4 DEF ClosesOne
    <3> QED  BY <1>3, <1>4, <2>1, <3>1
  <2> QED  BY <2>2, <2>3, <2>4, CloseWriters
<1>5. \A s \in closed' : server'[s].phase = "ended"
  <2>1. \A s \in closed : server'[s].phase = "ended"
    BY <1>2, <1>3 DEF ClosedIsOver
  <2>2. ASSUME NEW c \in Calls, CloseAnswered(c)
        PROVE  closed' \subseteq closed \cup {close[c].session} /\ close[c].stage = "served"
    BY <2>2 DEF CloseAnswered
  <2>3. \A c \in Calls : close[c].stage = "served" => server'[close[c].session].phase = "ended"
    BY <1>3 DEF RequestsFit, ClosedIsOver
  <2> QED  BY <2>1, <2>2, <2>3, BrowserWriters
<1>6. ASSUME NEW n \in Prompts
      PROVE  /\ turn'[n].closed \subseteq closed'
             /\ handleSubmit(n) \/ turn'[n].closed = turn[n].closed
  <2>1. ASSUME NEW s \in Sessions, turn'[n] \in AfterStart(n, s)
        PROVE  turn'[n].closed = turn[n].closed
    BY <2>1 DEF AfterStart
  <2>2. turn'[n] \in AfterSubmit(n) => turn'[n].closed = closed
    BY DEF AfterSubmit
  <2>3. turn[n].closed \subseteq closed  BY DEF ClosedIsOver
  <2> QED  BY <1>1, <2>1, <2>2, <2>3, RequestSteps
<1>7. ASSUME NEW n \in Prompts, turn'[n].stage = "running"
      PROVE  turn'[n].session \notin turn'[n].closed
  <2>1. ASSUME NEW s \in Sessions, turn'[n] \in AfterStart(n, s), server[s].phase # "ended"
        PROVE  turn'[n].session \notin turn'[n].closed
    <3>1. turn'[n].session = s /\ turn'[n].closed = turn[n].closed
      BY <2>1 DEF AfterStart
    <3> QED  BY <2>1, <3>1 DEF ClosedIsOver
  <2>2. turn'[n] \notin AfterSubmit(n)
    BY <1>7 DEF AfterSubmit
  <2> QED  BY <1>7, <2>1, <2>2, RequestSteps DEF ClosedIsOver
<1>8. ASSUME NEW n \in Prompts, NEW s \in turn'[n].closed
      PROVE  /\ s \in Sessions
             /\ <<"user", n>> \notin ToSet(server[s].transcript)
             /\ \A m \in Prompts : turn[m].stage = "running" /\ turn[m].session = s =>
                  m # n /\ <<"user", n>> \notin ToSet(turn[m].history)
  <2>1. s \in Sessions  BY <1>2, <1>6, <1>8
  <2>2. CASE turn'[n].closed = turn[n].closed
    BY <1>8, <2>1, <2>2 DEF ClosedIsOver
  <2>3. CASE handleSubmit(n)
    <3>1. turn[n].stage = "unsent"  BY <2>3 DEF handleSubmit, Sendable
    <3> QED  BY <2>1, <2>3, <3>1 DEF UnsentIsUnknown, Mentions
  <2> QED  BY <1>6, <1>8, <2>2, <2>3
<1>9. ASSUME NEW n \in Prompts, NEW s \in turn'[n].closed
      PROVE  <<"user", n>> \notin ToSet(server'[s].transcript)
  <2>1. ASSUME NEW m \in Prompts, turn[m].stage = "running", turn[m].session = s,
               ToSet(server'[s].transcript) \subseteq
                 ToSet(turn[m].history) \cup {<<"user", m>>, <<"reply", m>>}
        PROVE  <<"user", n>> \notin ToSet(server'[s].transcript)
    BY <1>8, <1>9, <2>1
  <2> QED  BY <1>2, <1>6, <1>8, <1>9, <2>1, TranscriptSteps, NothingIn
<1>10. ASSUME NEW n \in Prompts, NEW s \in turn'[n].closed, NEW m \in Prompts,
              turn'[m].stage = "running", turn'[m].session = s
       PROVE  <<"user", n>> \notin ToSet(turn'[m].history)
  <2>1. ASSUME NEW r \in Sessions, turn'[m] \in AfterStart(m, r)
        PROVE  <<"user", n>> \notin ToSet(turn'[m].history)
    <3>1. r = s /\ turn'[m].history = server[s].transcript
      BY <1>10, <2>1 DEF AfterStart
    <3> QED  BY <1>8, <1>10, <3>1
  <2>2. turn'[m] \notin AfterSubmit(m)
    BY <1>10 DEF AfterSubmit
  <2> QED  BY <1>8, <1>10, <2>1, <2>2, RequestSteps, NothingIn
<1> QED  BY <1>4, <1>5, <1>6, <1>7, <1>9, <1>10 DEF ClosedIsOver

-----------------------------------------------------------------------------
(* The theorems. *)

LEMMA InitIInv == Init => IInv
<1> SUFFICES ASSUME Init PROVE IInv  OBVIOUS
<1>1. TypeOK  BY InitTypes, TypesAreTypeOK
<1>2. RequestsFit /\ PendingIsShown
  BY DEF Init, Unsent, NoClose, RequestsFit, Heard, PendingIsShown
<1>3. VerifiedIsProved
  BY Literals DEF Init, Unused, Unsent, NoCache, NoData, NoVerify, VerifiedIsProved
<1>4. ReplyFollowsItsPrompt
  BY Literals DEF Init, ReplyFollowsItsPrompt
<1>5. UnsentIsUnknown
  BY Literals, NothingIn DEF Init, Unused, Unsent, NoCache, NoData, Mentions, UnsentIsUnknown
<1>6. ForgottenIsGone
  BY Literals DEF Init, Mentions, ForgottenIsGone
<1>7. ClosedIsOver
  BY DEF Init, Unsent, NoClose, ClosedIsOver
<1> QED  BY <1>1, <1>2, <1>3, <1>4, <1>5, <1>6, <1>7 DEF IInv

LEMMA NextIInv == IInv /\ [Next]_vars => IInv'
<1> SUFFICES ASSUME IInv, [Next]_vars PROVE IInv'  OBVIOUS
<1>1. Types  BY TypesAreTypeOK DEF IInv
<1>2. TypeOK'
  <2>1. Types'  BY <1>1, NextTypes DEF IInv
  <2> QED  BY <2>1, TypesAreTypeOK, PTL
<1> QED
  BY <1>1, <1>2, NextRequestsFit, NextVerified, NextPendingIsShown, NextReplyFollows, NextUnsent,
     NextForgotten, NextClosed DEF IInv

THEOREM InvariantHolds == Spec => []IInv
BY InitIInv, NextIInv, PTL DEF Spec

\* Every variable of the page, of its requests and of the server as it sees it keeps its
\* type: what the hook puts together out of a cache and a reply is a conversation.
THEOREM TypeCorrect == Spec => []TypeOK
<1>1. IInv => TypeOK  BY DEF IInv
<1> QED  BY <1>1, InvariantHolds, PTL

\* The badge of the header says "Verified" only after a session of this browser was.
THEOREM BadgeIsAlwaysEarned == Spec => []VerifiedBadgeEarned
<1>1. IInv => VerifiedBadgeEarned
  <2> SUFFICES ASSUME IInv, proved = {} PROVE sessionState # "verified"
    BY DEF VerifiedBadgeEarned
  <2>1. restorationData.state # "verified"
    BY DEF restorationData, NoData, IInv, VerifiedIsProved
  <2> QED  BY <2>1 DEF sessionState, IInv, VerifiedIsProved
<1> QED  BY <1>1, InvariantHolds, PTL

\* What the page gave up when it was told 410 is not shown again while the page stays.
THEOREM ForgottenAlwaysStays == Spec => []ForgottenStaysForgotten
<1>1. IInv => ForgottenStaysForgotten
  BY TypesAreTypeOK, ShownIn DEF IInv, ForgottenIsGone, ForgottenStaysForgotten
<1> QED  BY <1>1, InvariantHolds, PTL

\* A reply stands after its prompt, whatever expired, was stopped or left meanwhile.
THEOREM RepliesAlwaysFollow == Spec => []ReplyFollowsItsPrompt
<1>1. IInv => ReplyFollowsItsPrompt  BY DEF IInv
<1> QED  BY <1>1, InvariantHolds, PTL

\* No prompt sent after a confirmed close is stored in the closed session.
THEOREM ClosedNeverTakesMore == Spec => []ClosedTakesNoMore
<1>1. IInv => ClosedTakesNoMore  BY DEF IInv, ClosedIsOver, ClosedTakesNoMore
<1> QED  BY <1>1, InvariantHolds, PTL
=============================================================================
