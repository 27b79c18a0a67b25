------------------------ MODULE CancellableRequests ------------------------
(***************************************************************************)
(* What a page can rely on when it calls the request layer.  A call first  *)
(* prepares its request (the access token is awaited), then the request is *)
(* out, then the call settles, once.  Its abort may be asked for at any    *)
(* time before that.  Once the request is out the abort is heard: the call *)
(* never delivers a late answer, it ends in AbortError, and no other call  *)
(* does.  An abort asked for during the preparation is lost, and the call  *)
(* ends as if nobody had asked.  RequestLayer is shown to implement this.  *)
(***************************************************************************)
CONSTANT Requests

VARIABLES
  phase,    \* "idle", "preparing", "out" or "settled", per request
  asked,    \* the requests whose abort was asked for
  heard,    \* those that heard it
  result    \* how a settled request ended

avars == <<phase, asked, heard, result>>

Result == {"none", "ok", "http_error", "failed", "abort"}

AInit ==
  /\ phase = [r \in Requests |-> "idle"]
  /\ asked = {}
  /\ heard = {}
  /\ result = [r \in Requests |-> "none"]

Call(r) ==
  /\ phase[r] = "idle"
  /\ phase' = [phase EXCEPT ![r] = "preparing"]
  /\ UNCHANGED <<asked, heard, result>>

Send(r) ==
  /\ phase[r] = "preparing"
  /\ phase' = [phase EXCEPT ![r] = "out"]
  /\ UNCHANGED <<asked, heard, result>>

AskInVain(r) ==
  /\ phase[r] = "preparing"
  /\ asked' = asked \cup {r}
  /\ UNCHANGED <<phase, heard, result>>

Ask(r) ==
  /\ phase[r] = "out"
  /\ asked' = asked \cup {r}
  /\ heard' = heard \cup {r}
  /\ UNCHANGED <<phase, result>>

Settle(r, how) ==
  /\ phase[r] = "out"
  /\ how = "abort" <=> r \in heard
  /\ phase' = [phase EXCEPT ![r] = "settled"]
  /\ result' = [result EXCEPT ![r] = how]
  /\ UNCHANGED <<asked, heard>>

ANext ==
  \E r \in Requests :
    \/ Call(r) \/ Send(r)
    \/ AskInVain(r) \/ Ask(r)
    \/ \E how \in Result \ {"none"} : Settle(r, how)

ASpec == AInit /\ [][ANext]_avars
=============================================================================
