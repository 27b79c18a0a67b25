-------------------------- MODULE RequestLayerProofs --------------------------
(***************************************************************************)
(* RequestLayer for any number of calls of any client whose chat is not a  *)
(* query.                                                                  *)
(***************************************************************************)
EXTENDS RequestLayer, TLAPS

\* The generated client is such a client, whatever the parameters of its calls.
LEMMA ClientCallsFit ==
  ASSUME NEW paramSets, NEW id, NEW c \in AllCalls(paramSets, id)
  PROVE  /\ c.signal \in {"none", "live"}
         /\ c.url = Chat.url => c.signal = "none"
BY DEF AllCalls, Chat, RestoreSession, VerifyCode, UpdateSession,
   CreatePackage, UpdatePackage, DeletePackage,
   CreateShipment, UpdateShipment, DeleteShipment, CreateCustomer, UpdateCustomer, DeleteCustomer,
   ListSessions, ListPackages, ListShipments, SearchShipments, ListCustomers,
   SearchCustomers, Query, Mutation, WithParams

-----------------------------------------------------------------------------
\* Nothing has touched the controller of a call that has not been registered yet, and
\* a call that was not made has no signal.
FreshIsUntouched ==
  \A r \in Requests : /\ req[r].stage \in {"idle", "token"} => ~req[r].aborted
                      /\ req[r].stage = "idle" => req[r].signal = "none"

\* The call registered last under a url was made to that url.
NewestWasRegistered ==
  \A u \in Urls : newest[u] # None =>
    req[newest[u]].url = u /\ req[newest[u]].stage \notin {"idle", "token"}

\* A call to the chat is a mutation.
ChatIsNoQuery == \A r \in Requests : req[r].url = Chat.url => req[r].signal = "none"

IInv ==
  /\ TypeOK
  /\ EntriesAreInFlight
  /\ NewestIsCancellable
  /\ FreshIsUntouched
  /\ NewestWasRegistered
  /\ ChatIsNoQuery

LEMMA InitIInv == Init => IInv
BY RequestAssumption DEF Init, IInv, TypeOK, EntriesAreInFlight, NewestIsCancellable,
   FreshIsUntouched, NewestWasRegistered, ChatIsNoQuery, Uncalled, FetchCall,
   Stage, Signal, Result, Urls

\* What a call leaves behind when its fetch settles or it only moves on: the
\* actions below change one call and at most the entry of its url.

LEMMA CallFetcherKeepsIInv ==
  ASSUME IInv, NEW r \in Requests, NEW c \in Calls, CallFetcher(r, c)
  PROVE  IInv'
<1> USE DEF IInv
<1>1. TypeOK'
  <2>1. "token" \in Stage /\ c.url \in Urls /\ c.signal \in Signal
    BY CallsAssumption DEF Stage, Signal, Result, Urls
  <2> QED  BY <2>1, RequestAssumption DEF CallFetcher, MayFetch, TypeOK, FetchCall
<1>2. EntriesAreInFlight'
  BY RequestAssumption DEF CallFetcher, MayFetch, TypeOK, FetchCall, EntriesAreInFlight
<1>3. NewestIsCancellable'
  BY RequestAssumption DEF CallFetcher, MayFetch, TypeOK, FetchCall, EntriesAreInFlight, NewestIsCancellable, NewestWasRegistered
<1>4. FreshIsUntouched'
  BY RequestAssumption DEF CallFetcher, MayFetch, TypeOK, FetchCall, EntriesAreInFlight, FreshIsUntouched
<1>5. NewestWasRegistered'
  BY RequestAssumption DEF CallFetcher, MayFetch, TypeOK, FetchCall, EntriesAreInFlight, NewestWasRegistered
<1>6. ChatIsNoQuery'
  BY CallsAssumption, RequestAssumption DEF CallFetcher, MayFetch, TypeOK, FetchCall, EntriesAreInFlight, ChatIsNoQuery, Urls
<1> QED  BY <1>1, <1>2, <1>3, <1>4, <1>5, <1>6

LEMMA RegisterKeepsIInv ==
  ASSUME IInv, NEW r \in Requests, Register(r)
  PROVE  IInv'
<1> USE DEF IInv
<1>1. TypeOK'
  <2>1. "inflight" \in Stage
    BY DEF Stage, Signal, Result, Urls
  <2> QED  BY <2>1, RequestAssumption DEF Register, TypeOK, FetchCall
<1>2. EntriesAreInFlight'
  BY RequestAssumption DEF Register, TypeOK, FetchCall, EntriesAreInFlight
<1>3. NewestIsCancellable'
  BY RequestAssumption DEF Register, TypeOK, FetchCall, EntriesAreInFlight, NewestIsCancellable, NewestWasRegistered
<1>4. FreshIsUntouched'
  BY RequestAssumption DEF Register, TypeOK, FetchCall, EntriesAreInFlight, FreshIsUntouched
<1>5. NewestWasRegistered'
  BY RequestAssumption DEF Register, TypeOK, FetchCall, EntriesAreInFlight, NewestWasRegistered
<1>6. ChatIsNoQuery'
  BY RequestAssumption DEF Register, TypeOK, FetchCall, EntriesAreInFlight, ChatIsNoQuery, Urls
<1> QED  BY <1>1, <1>2, <1>3, <1>4, <1>5, <1>6

LEMMA FetchRejectsKeepsIInv ==
  ASSUME IInv, NEW r \in Requests, FetchRejects(r)
  PROVE  IInv'
<1> USE DEF IInv
<1>1. TypeOK'
  <2> DEFINE how == IF req[r].aborted THEN "abort" ELSE "failed"
  <2>1. "settled" \in Stage /\ how \in Result
    BY DEF Stage, Result
  <2>2. req' = [req EXCEPT ![r].stage = "settled", ![r].result = how]
    BY DEF FetchRejects, Settle
  <2> HIDE DEF how
  <2> QED  BY <2>1, <2>2, RequestAssumption DEF FetchRejects, Deregister, TypeOK, FetchCall
<1>2. EntriesAreInFlight'
  BY RequestAssumption DEF FetchRejects, Settle, Deregister, TypeOK, FetchCall, EntriesAreInFlight
<1>3. NewestIsCancellable'
  BY RequestAssumption DEF FetchRejects, Settle, Deregister, TypeOK, FetchCall, EntriesAreInFlight, NewestIsCancellable, NewestWasRegistered
<1>4. FreshIsUntouched'
  BY RequestAssumption DEF FetchRejects, Settle, Deregister, TypeOK, FetchCall, EntriesAreInFlight, FreshIsUntouched
<1>5. NewestWasRegistered'
  BY RequestAssumption DEF FetchRejects, Settle, Deregister, TypeOK, FetchCall, EntriesAreInFlight, NewestWasRegistered
<1>6. ChatIsNoQuery'
  BY RequestAssumption DEF FetchRejects, Settle, Deregister, TypeOK, FetchCall, EntriesAreInFlight, ChatIsNoQuery, Urls
<1> QED  BY <1>1, <1>2, <1>3, <1>4, <1>5, <1>6

LEMMA HeadersArriveKeepsIInv ==
  ASSUME IInv, NEW r \in Requests, NEW status \in {"ok", "no_content", "error"}, HeadersArrive(r, status)
  PROVE  IInv'
<1> USE DEF IInv
<1>1. TypeOK'
  <2>1. {"settled", "body", "error_body"} \subseteq Stage /\ "ok" \in Result
    BY DEF Stage, Signal, Result, Urls
  <2> QED  BY <2>1, RequestAssumption DEF HeadersArrive, Settle, Deregister, TypeOK, FetchCall
<1>2. EntriesAreInFlight'
  BY RequestAssumption DEF HeadersArrive, Settle, Deregister, TypeOK, FetchCall, EntriesAreInFlight
<1>3. NewestIsCancellable'
  BY RequestAssumption DEF HeadersArrive, Settle, Deregister, TypeOK, FetchCall, EntriesAreInFlight, NewestIsCancellable, NewestWasRegistered
<1>4. FreshIsUntouched'
  BY RequestAssumption DEF HeadersArrive, Settle, Deregister, TypeOK, FetchCall, EntriesAreInFlight, FreshIsUntouched
<1>5. NewestWasRegistered'
  BY RequestAssumption DEF HeadersArrive, Settle, Deregister, TypeOK, FetchCall, EntriesAreInFlight, NewestWasRegistered
<1>6. ChatIsNoQuery'
  BY RequestAssumption DEF HeadersArrive, Settle, Deregister, TypeOK, FetchCall, EntriesAreInFlight, ChatIsNoQuery, Urls
<1> QED  BY <1>1, <1>2, <1>3, <1>4, <1>5, <1>6

LEMMA BodyArrivesKeepsIInv ==
  ASSUME IInv, NEW r \in Requests, BodyArrives(r)
  PROVE  IInv'
<1> USE DEF IInv
<1>1. TypeOK'
  <2>1. "settled" \in Stage /\ {"ok", "http_error"} \subseteq Result
    BY DEF Stage, Signal, Result, Urls
  <2> QED  BY <2>1, RequestAssumption DEF BodyArrives, Settle, TypeOK, FetchCall
<1>2. EntriesAreInFlight'
  BY RequestAssumption DEF BodyArrives, Settle, TypeOK, FetchCall, EntriesAreInFlight
<1>3. NewestIsCancellable'
  BY RequestAssumption DEF BodyArrives, Settle, TypeOK, FetchCall, EntriesAreInFlight, NewestIsCancellable, NewestWasRegistered
<1>4. FreshIsUntouched'
  BY RequestAssumption DEF BodyArrives, Settle, TypeOK, FetchCall, EntriesAreInFlight, FreshIsUntouched
<1>5. NewestWasRegistered'
  BY RequestAssumption DEF BodyArrives, Settle, TypeOK, FetchCall, EntriesAreInFlight, NewestWasRegistered
<1>6. ChatIsNoQuery'
  BY RequestAssumption DEF BodyArrives, Settle, TypeOK, FetchCall, EntriesAreInFlight, ChatIsNoQuery, Urls
<1> QED  BY <1>1, <1>2, <1>3, <1>4, <1>5, <1>6

LEMMA BodyRejectsKeepsIInv ==
  ASSUME IInv, NEW r \in Requests, BodyRejects(r)
  PROVE  IInv'
<1> USE DEF IInv
<1>1. TypeOK'
  <2> DEFINE how == IF req[r].aborted THEN "abort" ELSE "failed"
  <2>1. "settled" \in Stage /\ how \in Result
    BY DEF Stage, Result
  <2>2. req' = [req EXCEPT ![r].stage = "settled", ![r].result = how]
    BY DEF BodyRejects, Settle
  <2> HIDE DEF how
  <2> QED  BY <2>1, <2>2, RequestAssumption DEF BodyRejects, TypeOK, FetchCall
<1>2. EntriesAreInFlight'
  BY RequestAssumption DEF BodyRejects, Settle, TypeOK, FetchCall, EntriesAreInFlight
<1>3. NewestIsCancellable'
  BY RequestAssumption DEF BodyRejects, Settle, TypeOK, FetchCall, EntriesAreInFlight, NewestIsCancellable, NewestWasRegistered
<1>4. FreshIsUntouched'
  BY RequestAssumption DEF BodyRejects, Settle, TypeOK, FetchCall, EntriesAreInFlight, FreshIsUntouched
<1>5. NewestWasRegistered'
  BY RequestAssumption DEF BodyRejects, Settle, TypeOK, FetchCall, EntriesAreInFlight, NewestWasRegistered
<1>6. ChatIsNoQuery'
  BY RequestAssumption DEF BodyRejects, Settle, TypeOK, FetchCall, EntriesAreInFlight, ChatIsNoQuery, Urls
<1> QED  BY <1>1, <1>2, <1>3, <1>4, <1>5, <1>6

LEMMA StopKeepsIInv ==
  ASSUME IInv, handleStopRequest
  PROVE  IInv'
<1> USE DEF IInv
<1>1. CASE CancelMisses(Chat.url)
  BY <1>1 DEF CancelMisses, vars, TypeOK, EntriesAreInFlight, NewestIsCancellable,
     FreshIsUntouched, NewestWasRegistered, ChatIsNoQuery
<1>2. CASE CancelRequest(Chat.url)
  <2> DEFINE r == pendingRequests[Chat.url]
  <2>1. r \in Requests /\ req[r].stage = "inflight" /\ Chat.url \in Urls
    BY <1>2, RequestAssumption DEF CancelRequest, TypeOK, EntriesAreInFlight, Urls
  <2>2. /\ req' = [req EXCEPT ![r].aborted = TRUE]
        /\ UNCHANGED <<pendingRequests, newest>>
    BY <1>2 DEF CancelRequest
  <2> HIDE DEF r
  <2>3. TypeOK'
    BY <2>1, <2>2 DEF TypeOK, FetchCall
  <2>4. EntriesAreInFlight'
    BY <2>1, <2>2, RequestAssumption DEF TypeOK, FetchCall, EntriesAreInFlight
  <2>5. NewestIsCancellable'
    BY <2>1, <2>2, RequestAssumption DEF TypeOK, FetchCall, NewestIsCancellable
  <2>6. FreshIsUntouched'
    BY <2>1, <2>2 DEF TypeOK, FetchCall, FreshIsUntouched
  <2>7. NewestWasRegistered'
    BY <2>1, <2>2, RequestAssumption DEF TypeOK, FetchCall, NewestWasRegistered
  <2>8. ChatIsNoQuery'
    BY <2>1, <2>2 DEF TypeOK, FetchCall, ChatIsNoQuery
  <2> QED  BY <2>3, <2>4, <2>5, <2>6, <2>7, <2>8
<1> QED  BY <1>1, <1>2 DEF handleStopRequest

LEMMA AbortSignalKeepsIInv ==
  ASSUME IInv, NEW r \in Requests, AbortSignal(r)
  PROVE  IInv'
<1> USE DEF IInv
<1>1. TypeOK'
  <2>1. "aborted" \in Signal
    BY DEF Stage, Signal, Result, Urls
  <2> QED  BY <2>1, RequestAssumption DEF AbortSignal, Unsettled, TypeOK, FetchCall
<1>2. EntriesAreInFlight'
  BY RequestAssumption DEF AbortSignal, Unsettled, TypeOK, FetchCall, EntriesAreInFlight
<1>3. NewestIsCancellable'
  BY RequestAssumption DEF AbortSignal, Unsettled, TypeOK, FetchCall, EntriesAreInFlight, NewestIsCancellable, NewestWasRegistered
<1>4. FreshIsUntouched'
  BY RequestAssumption DEF AbortSignal, Unsettled, TypeOK, FetchCall, EntriesAreInFlight, FreshIsUntouched
<1>5. NewestWasRegistered'
  BY RequestAssumption DEF AbortSignal, Unsettled, TypeOK, FetchCall, EntriesAreInFlight, NewestWasRegistered
<1>6. ChatIsNoQuery'
  BY RequestAssumption DEF AbortSignal, Unsettled, TypeOK, FetchCall, EntriesAreInFlight, ChatIsNoQuery, Urls
<1> QED  BY <1>1, <1>2, <1>3, <1>4, <1>5, <1>6

LEMMA NextKeepsIInv == IInv /\ [Next]_vars => IInv'
<1> SUFFICES ASSUME IInv, [Next]_vars PROVE IInv'  OBVIOUS
<1>1. CASE handleStopRequest  BY <1>1, StopKeepsIInv
<1>2. ASSUME NEW r \in Requests, NEW c \in Calls, CallFetcher(r, c) PROVE IInv'
  BY <1>2, CallFetcherKeepsIInv
<1>3. ASSUME NEW r \in Requests, Register(r) PROVE IInv'
  BY <1>3, RegisterKeepsIInv
<1>4. ASSUME NEW r \in Requests, FetchRejects(r) PROVE IInv'
  BY <1>4, FetchRejectsKeepsIInv
<1>5. ASSUME NEW r \in Requests, NEW status \in {"ok", "no_content", "error"},
             HeadersArrive(r, status)
      PROVE  IInv'
  BY <1>5, HeadersArriveKeepsIInv
<1>6. ASSUME NEW r \in Requests, BodyArrives(r) PROVE IInv'
  BY <1>6, BodyArrivesKeepsIInv
<1>7. ASSUME NEW r \in Requests, BodyRejects(r) PROVE IInv'
  BY <1>7, BodyRejectsKeepsIInv
<1>8. ASSUME NEW r \in Requests, AbortSignal(r) PROVE IInv'
  BY <1>8, AbortSignalKeepsIInv
<1>9. CASE UNCHANGED vars
  BY <1>9 DEF vars, IInv, TypeOK, EntriesAreInFlight, NewestIsCancellable,
     FreshIsUntouched, NewestWasRegistered, ChatIsNoQuery
<1> QED  BY <1>1, <1>2, <1>3, <1>4, <1>5, <1>6, <1>7, <1>8, <1>9 DEF Next

THEOREM Invariance == Spec => []IInv
BY InitIInv, NextKeepsIInv, PTL DEF Spec

\* The locals of a call and the map keep their types.
THEOREM TypeCorrect == Spec => []TypeOK
<1>1. IInv => TypeOK  BY DEF IInv
<1> QED  BY <1>1, Invariance, PTL

\* The map holds only calls in flight, each under its own url.
THEOREM EntriesAlwaysInFlight == Spec => []EntriesAreInFlight
<1>1. IInv => EntriesAreInFlight  BY DEF IInv
<1> QED  BY <1>1, Invariance, PTL

\* The call registered last under a url stays cancellable.
THEOREM NewestAlwaysCancellable == Spec => []NewestIsCancellable
<1>1. IInv => NewestIsCancellable  BY DEF IInv
<1> QED  BY <1>1, Invariance, PTL

\* Stop aborts a call to the chat or nothing, whatever the client calls.
THEOREM StopAbortsNothingElse == Spec => StopAbortsOnlyChat
<1>1. IInv /\ [Next]_vars =>
        [handleStopRequest => \A r \in Requests : req'[r].aborted # req[r].aborted
                                => req[r].url = Chat.url /\ req[r].signal = "none"]_vars
  <2> SUFFICES ASSUME IInv, handleStopRequest,
                      NEW r \in Requests, req'[r].aborted # req[r].aborted
               PROVE  req[r].url = Chat.url /\ req[r].signal = "none"
    OBVIOUS
  <2>1. CancelRequest(Chat.url)
    BY DEF handleStopRequest, CancelMisses, vars
  <2>2. r = pendingRequests[Chat.url]
    BY <2>1 DEF CancelRequest, IInv, TypeOK, FetchCall
  <2> QED
    BY <2>1, <2>2, RequestAssumption
    DEF CancelRequest, IInv, EntriesAreInFlight, ChatIsNoQuery, Urls
<1> QED  BY <1>1, Invariance, PTL DEF Spec, StopAbortsOnlyChat

-----------------------------------------------------------------------------
\* Every step of the layer is a step of the promise, or none.
LEMMA InitPromises == Init => Promise!AInit
BY DEF Init, Uncalled, Promise!AInit

LEMMA StepPromises == IInv /\ [Next]_vars => [Promise!ANext]_Promise!avars
<1> SUFFICES ASSUME IInv, [Next]_vars PROVE [Promise!ANext]_Promise!avars  OBVIOUS
<1> USE DEF IInv, TypeOK, FetchCall
<1>1. ASSUME NEW r \in Requests, NEW c \in Calls, CallFetcher(r, c) PROVE Promise!Call(r)
  <2>1. c.signal # "aborted"  BY CallsAssumption
  <2>2. /\ req[r].stage = "idle" /\ req[r].signal = "none" /\ ~req[r].aborted
        /\ req' = [req EXCEPT ![r].stage = "token", ![r].url = c.url, ![r].signal = c.signal]
    BY <1>1 DEF CallFetcher, FreshIsUntouched
  <2>3. \A x \in Requests :
          (req'[x].signal = "aborted" \/ req'[x].aborted) <=> (req[x].signal = "aborted" \/ req[x].aborted)
    BY <2>1, <2>2
  <2> QED  BY <2>2, <2>3 DEF Promise!Call
<1>2. ASSUME NEW r \in Requests, Register(r) PROVE Promise!Send(r)
  BY <1>2 DEF Register, Promise!Send
<1>3. ASSUME NEW r \in Requests, FetchRejects(r)
      PROVE  \E how \in {"abort", "failed"} : Promise!Settle(r, how)
  BY <1>3 DEF FetchRejects, Settle, Promise!Settle, Promise!Result
<1>4. ASSUME NEW r \in Requests, NEW status \in {"ok", "no_content", "error"},
             HeadersArrive(r, status)
      PROVE  UNCHANGED Promise!avars \/ Promise!Settle(r, "ok")
  <2>1. CASE status = "no_content"
    <3>1. /\ req[r].stage = "inflight" /\ ~req[r].aborted
          /\ req' = [req EXCEPT ![r].stage = "settled", ![r].result = "ok"]
      BY <1>4, <2>1 DEF HeadersArrive, Settle
    <3> QED  BY <3>1 DEF Promise!Settle
  <2>2. CASE status # "no_content"
    BY <1>4, <2>2 DEF HeadersArrive, Promise!avars
  <2> QED  BY <2>1, <2>2
<1>5. ASSUME NEW r \in Requests, BodyArrives(r)
      PROVE  \E how \in {"ok", "http_error"} : Promise!Settle(r, how)
  BY <1>5 DEF BodyArrives, Settle, Promise!Settle
<1>6. ASSUME NEW r \in Requests, BodyRejects(r)
      PROVE  \E how \in {"abort", "failed"} : Promise!Settle(r, how)
  BY <1>6 DEF BodyRejects, Settle, Promise!Settle
<1>7. ASSUME NEW r \in Requests, AbortSignal(r) PROVE Promise!AskInVain(r) \/ Promise!Ask(r)
  <2>1. CASE req[r].stage = "token"
    BY <1>7, <2>1 DEF AbortSignal, FreshIsUntouched, Promise!AskInVain
  <2>2. CASE req[r].stage # "token"
    BY <1>7, <2>2 DEF AbortSignal, Unsettled, Promise!Ask
  <2> QED  BY <2>1, <2>2
<1>8. ASSUME handleStopRequest PROVE UNCHANGED Promise!avars \/ Promise!ANext
  <2>1. CASE CancelMisses(Chat.url)
    BY <2>1 DEF CancelMisses, vars, Promise!avars
  <2>2. CASE CancelRequest(Chat.url)
    <3>1. PICK r \in Requests :
            /\ req[r].stage = "inflight"
            /\ req' = [req EXCEPT ![r].aborted = TRUE]
      <4> DEFINE q == pendingRequests[Chat.url]
      <4>1. q \in Requests /\ req[q].stage = "inflight"
        BY <2>2, RequestAssumption DEF CancelRequest, EntriesAreInFlight, Urls
      <4>2. req' = [req EXCEPT ![q].aborted = TRUE]
        BY <2>2 DEF CancelRequest
      <4> HIDE DEF q
      <4> QED  BY <4>1, <4>2
    <3>2. Promise!Ask(r)  BY <3>1 DEF Promise!Ask
    <3> QED  BY <3>2 DEF Promise!ANext
  <2> QED  BY <1>8, <2>1, <2>2 DEF handleStopRequest
<1>9. CASE UNCHANGED vars  BY <1>9 DEF vars, Promise!avars
<1> QED
  BY <1>1, <1>2, <1>3, <1>4, <1>5, <1>6, <1>7, <1>8, <1>9
  DEF Next, Promise!ANext, Promise!Result

\* The request layer keeps the promise of CancellableRequests: no late answer after an
\* abort that came once the request was out, and AbortError after nothing else.
THEOREM LayerImplementsPromise == Spec => ImplementsPromise
BY InitPromises, StepPromises, Invariance, PTL DEF Spec, ImplementsPromise, Promise!ASpec
=============================================================================
