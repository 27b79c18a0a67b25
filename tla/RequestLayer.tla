----------------------------- MODULE RequestLayer -----------------------------
(***************************************************************************)
(* customFetcher and cancelRequest with their map of in-flight requests    *)
(* (api/generated/fetcher.ts), under the two kinds of callers of           *)
(* ApiClient: queries, whose AbortSignal React Query fires, and mutations, *)
(* which only the page's Stop button can abort, and only the chat's.       *)
(*                                                                         *)
(* JavaScript runs one piece of code at a time, so a step is what runs     *)
(* between two awaits.                                                     *)
(***************************************************************************)
EXTENDS ApiClient

CONSTANTS
  Requests,   \* calls of customFetcher, each made once
  Calls,      \* the calls of the client they may be
  None

ASSUME RequestAssumption == None \notin Requests

\* Of the generated client: only a query has a signal, and the chat is none.
ASSUME CallsAssumption == \A c \in Calls :
  /\ c.signal \in {"none", "live"}
  /\ c.url = Chat.url => c.signal = "none"

VARIABLES
  req,               \* the locals of every call, and its result
  pendingRequests,   \* fetcher.ts: url -> the call whose controller is stored
  newest             \* history: the last call registered under a url

vars == <<req, pendingRequests, newest>>

-----------------------------------------------------------------------------
Stage == {"idle", "token", "inflight", "body", "error_body", "settled"}

\* The options.signal of a call: a mutation has none.
Signal == {"none", "live", "aborted"}

Result == {"none", "ok", "http_error", "failed", "abort"}

Urls == {c.url : c \in Calls} \cup {Chat.url}

FetchCall == [stage : Stage, url : Urls, signal : Signal, aborted : BOOLEAN, result : Result]

Uncalled == [stage |-> "idle", url |-> Chat.url, signal |-> "none",
             aborted |-> FALSE, result |-> "none"]

TypeOK ==
  /\ req \in [Requests -> FetchCall]
  /\ pendingRequests \in [Urls -> Requests \cup {None}]
  /\ newest \in [Urls -> Requests \cup {None}]

Init ==
  /\ req = [r \in Requests |-> Uncalled]
  /\ pendingRequests = [u \in Urls |-> None]
  /\ newest = [u \in Urls |-> None]

Unsettled(r) == req[r].stage \notin {"idle", "settled"}

-----------------------------------------------------------------------------
\* React Query (external) runs one fetch per cache key: a second one only once
\* the first has settled or its signal was aborted.
MayFetch(c) ==
  c.signal = "live" =>
    \A r \in Requests : Unsettled(r) /\ req[r].url = c.url => req[r].signal # "live"

\* customFetcher is called and runs up to its first await.
CallFetcher(r, c) ==
  /\ req[r].stage = "idle"
  /\ MayFetch(c)
  /\ req' = [req EXCEPT ![r].stage = "token", ![r].url = c.url, ![r].signal = c.signal]
  /\ UNCHANGED <<pendingRequests, newest>>

\* A registration under every url at once.
RegisterInOneSlot(r) ==
  /\ req[r].stage = "token"
  /\ req' = [req EXCEPT ![r].stage = "inflight"]
  /\ pendingRequests' = [u \in Urls |-> r]
  /\ newest' = [newest EXCEPT ![req[r].url] = r]

\* getAccessToken answers: the call registers its controller, over whatever the
\* url held, and fetches.
Register(r) ==
  /\ req[r].stage = "token"
  /\ req' = [req EXCEPT ![r].stage = "inflight"]
  /\ pendingRequests' = [pendingRequests EXCEPT ![req[r].url] = r]
  /\ newest' = [newest EXCEPT ![req[r].url] = r]

\* A `finally` that does not compare the controllers.
DeregisterAny(r) ==
  pendingRequests' = [pendingRequests EXCEPT ![req[r].url] = None]

\* A `finally` that only clears the entry of a call that was aborted.
DeregisterAborted(r) ==
  pendingRequests' = [u \in Urls |-> IF u = req[r].url /\ pendingRequests[u] = r /\ req[r].aborted
                                     THEN None ELSE pendingRequests[u]]

\* `finally`: the entry goes only if it is still this call's.
Deregister(r) ==
  pendingRequests' = [u \in Urls |-> IF u = req[r].url /\ pendingRequests[u] = r
                                     THEN None ELSE pendingRequests[u]]

Settle(r, how) == req' = [req EXCEPT ![r].stage = "settled", ![r].result = how]

\* fetch rejects: AbortError if the controller was aborted, else a network error.
FetchRejects(r) ==
  /\ req[r].stage = "inflight"
  /\ Settle(r, IF req[r].aborted THEN "abort" ELSE "failed")
  /\ Deregister(r)
  /\ UNCHANGED newest

\* One that takes the status for the stage.
HeadersArriveRaw(r, status) ==
  /\ req[r].stage = "inflight"
  /\ ~req[r].aborted
  /\ Deregister(r)
  /\ req' = [req EXCEPT ![r].stage = status]
  /\ UNCHANGED newest

\* fetch resolves with the headers; the body is read unless the status is 204.
HeadersArrive(r, status) ==
  /\ req[r].stage = "inflight"
  /\ ~req[r].aborted
  /\ Deregister(r)
  /\ IF status = "no_content" THEN Settle(r, "ok")
     ELSE req' = [req EXCEPT ![r].stage = IF status = "ok" THEN "body" ELSE "error_body"]
  /\ UNCHANGED newest

\* The body has been read: the answer, or HttpError with its detail.
BodyArrives(r) ==
  /\ req[r].stage \in {"body", "error_body"}
  /\ ~req[r].aborted
  /\ Settle(r, IF req[r].stage = "body" THEN "ok" ELSE "http_error")
  /\ UNCHANGED <<pendingRequests, newest>>

\* A reader of the body that does not know that its controller was aborted.
BodyRejectsUnaware(r) ==
  /\ req[r].stage \in {"body", "error_body"}
  /\ Settle(r, "failed")
  /\ UNCHANGED <<pendingRequests, newest>>

\* The connection is lost, the body is not JSON, or the controller was aborted.
BodyRejects(r) ==
  /\ req[r].stage \in {"body", "error_body"}
  /\ Settle(r, IF req[r].aborted THEN "abort" ELSE "failed")
  /\ UNCHANGED <<pendingRequests, newest>>

\* cancelRequest with a controller under the url.
CancelRequest(url) ==
  /\ pendingRequests[url] # None
  /\ req' = [req EXCEPT ![pendingRequests[url]].aborted = TRUE]
  /\ UNCHANGED <<pendingRequests, newest>>

\* cancelRequest with none: it returns false.
CancelMisses(url) ==
  /\ pendingRequests[url] = None
  /\ UNCHANGED vars

\* The only caller of cancelRequest, which ignores what it returns.
handleStopRequest == CancelRequest(Chat.url) \/ CancelMisses(Chat.url)

\* React Query aborts the signal of a query nobody observes any more.  The
\* fetcher listens to it from the moment the token has arrived; an abort before
\* that never reaches the controller.
AbortSignal(r) ==
  /\ Unsettled(r)
  /\ req[r].signal = "live"
  /\ req' = [req EXCEPT ![r].signal = "aborted", ![r].aborted = req[r].stage # "token"]
  /\ UNCHANGED <<pendingRequests, newest>>

Next ==
  \/ handleStopRequest
  \/ \E r \in Requests :
       \/ \E c \in Calls : CallFetcher(r, c)
       \/ Register(r)
       \/ FetchRejects(r)
       \/ \E status \in {"ok", "no_content", "error"} : HeadersArrive(r, status)
       \/ BodyArrives(r)
       \/ BodyRejects(r)
       \/ AbortSignal(r)

Spec == Init /\ [][Next]_vars

-----------------------------------------------------------------------------
\* The map holds only calls whose fetch has not settled, each under its own url:
\* no controller is left behind, and cancelRequest never aborts a call made to
\* another url or one that is over.
EntriesAreInFlight ==
  \A u \in Urls : LET r == pendingRequests[u] IN
    r # None => req[r].stage = "inflight" /\ req[r].url = u

\* Of several calls to one url the one registered last can be cancelled for as
\* long as its fetch is in flight, whatever becomes of the earlier ones.
NewestIsCancellable ==
  \A u \in Urls : LET r == newest[u] IN
    r # None /\ req[r].stage = "inflight" => pendingRequests[u] = r

\* The Stop button of the chat never aborts another call: not a verify-code or a
\* write of the admin pages, and not the restore of the session.
StopAbortsOnlyChat ==
  [][handleStopRequest =>
       \A r \in Requests : req'[r].aborted # req[r].aborted
                             => req[r].url = Chat.url /\ req[r].signal = "none"]_vars

\* The abort of a call is asked for when its signal fires or Stop aborts its
\* controller; it is heard when it reaches the controller.
Promise == INSTANCE CancellableRequests WITH
  phase <- [r \in Requests |-> CASE req[r].stage = "idle" -> "idle"
                                 [] req[r].stage = "token" -> "preparing"
                                 [] req[r].stage = "settled" -> "settled"
                                 [] OTHER -> "out"],
  asked <- {r \in Requests : req[r].signal = "aborted" \/ req[r].aborted},
  heard <- {r \in Requests : req[r].aborted},
  result <- [r \in Requests |-> req[r].result]

\* What the pages can rely on (CancellableRequests): an abort asked for once the
\* request is out is never followed by a late answer, and nothing else ends in
\* AbortError; one asked for before that is lost, and the answer comes all the same.
ImplementsPromise == Promise!ASpec
=============================================================================
