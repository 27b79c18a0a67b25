------------------------- MODULE IdentityGatingProofs -------------------------
(***************************************************************************)
(* Proofs about IdentityGating, for any sets of sessions, customers and    *)
(* handlers and any iteration ceiling.                                     *)
(***************************************************************************)
EXTENDS IdentityGating, TLAPS

USE DEF MaxAttempts, Note, GivenUp

\* The writes to session_verification and customer rows, and the steps that
\* make them; every other step leaves both tables alone.
RowWrite ==
  \/ \E h \in Handlers : \/ \E c \in customers : CreateRow(h, c)
                         \/ MarkRowExpired(h) \/ MarkRowExhausted(h)
                         \/ IncrementAttempt(h) \/ AcceptCode(h)
  \/ \E s \in Sessions : CodeLapses(s)
  \/ \E c \in Customers : DeleteCustomer(c)

\* Classifies the steps by what they do to the verification and customer rows.
LEMMA RowWriters == [Next]_vars => RowWrite \/ UNCHANGED <<row, customers>>
<1> SUFFICES ASSUME [Next]_vars, ~RowWrite PROVE UNCHANGED <<row, customers>>
  OBVIOUS
<1>1. CASE UNCHANGED vars
  BY <1>1 DEF vars
<1>2. ASSUME NEW h \in Handlers, ChatStep(h) PROVE UNCHANGED <<row, customers>>
  BY <1>2 DEF ChatStep, ChatCreate, ChatResume, LLMAnswers, LLMFails, NextToolCall, Refresh,
     RefreshUpTo, RefreshFindsNone, StoreTranscript, Reload, TouchSession, Raise, store
<1>3. ASSUME NEW h \in Handlers, ToolStep(h) PROVE UNCHANGED <<row, customers>>
  BY <1>3 DEF RowWrite, ToolStep, UnknownTool, GateDenies, MalformedArguments,
     LookupShipments, RequestIdentityInfo, EscalateToHuman, StartRefused, CreateRowRaises,
     MarkCodeSent, UpdateSession, Raise, store
<1>4. ASSUME NEW h \in Handlers, VerifyStep(h) PROVE UNCHANGED <<row, customers>>
  BY <1>4 DEF RowWrite, VerifyStep, VerifyCode, ExpireSession, NoteExhausted, AwaitCode,
     Respond, VerifySession, NoteSucceeded, UpdateSession, AppendNote, Raise, store
<1>5. ASSUME OutsideStep PROVE UNCHANGED <<row, customers>>
  BY <1>5 DEF RowWrite, OutsideStep, MarkSessionExpired, SessionLapses, PatchSession,
     DatabaseFails, Crash, Raise, store
<1> QED
  BY <1>1, <1>2, <1>3, <1>4, <1>5 DEF Next

-----------------------------------------------------------------------------
\* An accepted row stays accepted, for the same customer, and a row that was
\* given up stays so.
KeepsVerdicts ==
  \A s \in Sessions :
    /\ row[s].status = "verified" =>
         row'[s].status = "verified" /\ row'[s].customer = row[s].customer
    /\ row[s].status \in GivenUp => row'[s].status \in GivenUp

\* The writes of update_status, create, increment_attempt and the passing of
\* time, each against the row part of the invariant.
LEMMA RowsPreserved ==
  ASSUME GateInv, [Next]_vars
  PROVE  /\ customers' \subseteq Customers
         /\ row' \in [Sessions -> VerificationRow]
         /\ RowInv'
         /\ KeepsVerdicts
<1> DEFINE Goal == /\ customers' \subseteq Customers
                   /\ row' \in [Sessions -> VerificationRow]
                   /\ RowInv'
                   /\ KeepsVerdicts
<1> USE ConstantsAssumption
<1>0. /\ customers \subseteq Customers
      /\ created \subseteq Sessions
      /\ row \in [Sessions -> VerificationRow]
      /\ task \in [Handlers -> Task]
      /\ RowInv /\ StageInv
  BY DEF GateInv, TypeOK
<1>1. CASE UNCHANGED <<row, customers>>
  BY <1>0, <1>1 DEF RowInv, KeepsVerdicts
<1>2. ASSUME NEW h \in Handlers, NEW c \in customers, CreateRow(h, c) PROVE Goal
  <2>1. task[h].sess \in Sessions
    BY <1>0, <1>2 DEF CreateRow, Runs, StageInv, StageFits, StageNeeds
  <2> QED
    BY <1>0, <1>2, <2>1 DEF CreateRow, RowInv, KeepsVerdicts, VerificationRow, RowStatus
<1>3. ASSUME NEW h \in Handlers, MarkRowExpired(h) PROVE Goal
  BY <1>0, <1>3 DEF MarkRowExpired, SetStatus, Runs, StageInv, StageFits, StageNeeds, RowInv, KeepsVerdicts,
     VerificationRow, RowStatus
<1>4. ASSUME NEW h \in Handlers, MarkRowExhausted(h) PROVE Goal
  BY <1>0, <1>4 DEF MarkRowExhausted, SetStatus, Runs, StageInv, StageFits, StageNeeds, RowInv, KeepsVerdicts,
     VerificationRow, RowStatus
<1>5. ASSUME NEW h \in Handlers, AcceptCode(h) PROVE Goal
  BY <1>0, <1>5 DEF AcceptCode, SetStatus, Runs, StageInv, StageFits, StageNeeds, RowInv, KeepsVerdicts,
     VerificationRow, RowStatus
<1>6. ASSUME NEW h \in Handlers, IncrementAttempt(h) PROVE Goal
  BY <1>0, <1>6 DEF IncrementAttempt, Runs, StageInv, StageFits, StageNeeds, RowInv, KeepsVerdicts,
     VerificationRow, RowStatus
<1>7. ASSUME NEW s \in Sessions, CodeLapses(s) PROVE Goal
  <2>1. row' = [row EXCEPT ![s].lapsed = TRUE] /\ customers' = customers
    BY <1>7 DEF CodeLapses
  <2>2. row' \in [Sessions -> VerificationRow]
    BY <1>0, <2>1 DEF VerificationRow
  <2>3. ASSUME NEW x \in Sessions
        PROVE  /\ row'[x].status = row[x].status
               /\ row'[x].attempts = row[x].attempts
               /\ row'[x].customer = row[x].customer
               /\ x # s => row'[x] = row[x]
    BY <1>0, <2>1 DEF VerificationRow
  <2>4. row'[s].lapsed
    BY <1>0, <2>1 DEF VerificationRow
  <2>5. row[s].status # "absent"
    BY <1>7 DEF CodeLapses
  <2>6. RowInv'
    <3> SUFFICES ASSUME NEW x \in Sessions
                 PROVE  /\ row'[x].status = "absent" => row'[x] = AbsentRow
                        /\ row'[x].status # "absent" => row'[x].customer \in customers'
                        /\ row'[x].status = "verified" => row'[x].attempts < MaxAttempts
                        /\ row'[x].status = "exhausted" => row'[x].attempts = MaxAttempts
                        /\ row'[x].status = "expired" => row'[x].lapsed
      BY Zenon DEF RowInv
    <3>1. row'[x].status = "expired" => row'[x].lapsed
      BY <1>0, <2>3, <2>4, Zenon DEF RowInv
    <3> QED
      BY <1>0, <2>1, <2>3, <2>5, <3>1 DEF RowInv
  <2>7. KeepsVerdicts
    BY <2>3 DEF KeepsVerdicts
  <2> QED
    BY <1>0, <2>1, <2>2, <2>6, <2>7
<1>8. ASSUME NEW c \in Customers, DeleteCustomer(c) PROVE Goal
  BY <1>0, <1>8 DEF DeleteCustomer, RowInv, KeepsVerdicts, VerificationRow
<1> QED
  BY <1>1, <1>2, <1>3, <1>4, <1>5, <1>6, <1>7, <1>8, RowWriters DEF RowWrite

-----------------------------------------------------------------------------
\* The steps that write chat_session rows.
SessionUpdate(h) ==
  \/ RequestIdentityInfo(h) \/ EscalateToHuman(h) \/ MarkCodeSent(h)
  \/ ExpireSession(h) \/ AwaitCode(h) \/ VerifySession(h)

SessionWrite ==
  \/ \E h \in Handlers : \/ RefreshFindsNone(h) \/ Reload(h) \/ TouchSession(h)
                         \/ SessionUpdate(h)
  \/ \E s \in Sessions : \/ MarkSessionExpired(s) \/ SessionLapses(s)
                         \/ \E ended \in BOOLEAN : PatchSession(s, ended)
  \/ \E c \in Customers : DeleteCustomer(c)

\* Every other step leaves the session columns alone.
LEMMA SessionWriters == [Next]_vars => SessionWrite \/ UNCHANGED session
<1> SUFFICES ASSUME [Next]_vars, ~SessionWrite PROVE UNCHANGED session
  OBVIOUS
<1>1. CASE UNCHANGED vars
  BY <1>1 DEF vars
<1>2. ASSUME NEW h \in Handlers, ChatStep(h) PROVE UNCHANGED session
  BY <1>2 DEF SessionWrite, ChatStep, ChatCreate, ChatResume, LLMAnswers, LLMFails,
     NextToolCall, Refresh, RefreshUpTo, StoreTranscript, Raise, store
<1>3. ASSUME NEW h \in Handlers, ToolStep(h) PROVE UNCHANGED session
  BY <1>3 DEF SessionWrite, SessionUpdate, ToolStep, UnknownTool, GateDenies,
     MalformedArguments, LookupShipments, StartRefused, CreateRow, CreateRowRaises, Raise, store
<1>4. ASSUME NEW h \in Handlers, VerifyStep(h) PROVE UNCHANGED session
  BY <1>4 DEF SessionWrite, SessionUpdate, VerifyStep, VerifyCode, MarkRowExpired,
     MarkRowExhausted, NoteExhausted, IncrementAttempt, Respond, AcceptCode, NoteSucceeded,
     SetStatus, AppendNote, Raise, store
<1>5. ASSUME OutsideStep PROVE UNCHANGED session
  BY <1>5 DEF SessionWrite, OutsideStep, CodeLapses, DatabaseFails, Crash, Raise, store
<1> QED
  BY <1>1, <1>2, <1>3, <1>4, <1>5 DEF Next

\* The state and customer columns are not written.
SameColumns ==
  /\ session' \in [Sessions -> SessionRow]
  /\ \A x \in Sessions : /\ session'[x].state = session[x].state
                         /\ session'[x].customer = session[x].customer

\* Stamping, extending, closing, reopening and the passing of time only write
\* ended and stale.
LEMMA FlagWrites ==
  ASSUME TypeOK, StageInv
  PROVE  /\ \A h \in Handlers :
              RefreshFindsNone(h) \/ Reload(h) \/ TouchSession(h) => SameColumns
         /\ \A s \in Sessions :
              /\ MarkSessionExpired(s) \/ SessionLapses(s) => SameColumns
              /\ \A ended \in BOOLEAN : PatchSession(s, ended) => SameColumns
<1> USE ConstantsAssumption
<1>1. /\ session \in [Sessions -> SessionRow]
      /\ created \subseteq Sessions
  BY DEF TypeOK
<1>2. ASSUME NEW x \in Sessions, session' = AfterGet(x) PROVE SameColumns
  BY <1>1, <1>2 DEF AfterGet, SameColumns, SessionRow
<1>3. ASSUME NEW h \in Handlers, RefreshFindsNone(h) \/ Reload(h) PROVE SameColumns
  <2>1. task[h].sess \in Sessions /\ session' = AfterGet(task[h].sess)
    BY <1>1, <1>3 DEF RefreshFindsNone, Reload, Runs, StageInv, StageFits, StageNeeds
  <2> QED
    BY <1>2, <2>1
<1>4. ASSUME NEW h \in Handlers, TouchSession(h) PROVE SameColumns
  <2>1. task[h].sess \in Sessions
    BY <1>1, <1>4 DEF TouchSession, Runs, StageInv, StageFits, StageNeeds
  <2> DEFINE kept == session[task[h].sess].ended /\ session[task[h].sess].stale
  <2>2. session' = [session EXCEPT ![task[h].sess].stale = kept]
    BY <1>4 DEF TouchSession
  <2>3. kept \in BOOLEAN
    OBVIOUS
  <2> HIDE DEF kept
  <2> QED
    BY <1>1, <2>1, <2>2, <2>3 DEF SameColumns, SessionRow
<1>5. ASSUME NEW s \in Sessions, MarkSessionExpired(s) PROVE SameColumns
  BY <1>2, <1>5 DEF MarkSessionExpired
<1>6. ASSUME NEW s \in Sessions, SessionLapses(s) PROVE SameColumns
  BY <1>1, <1>6 DEF SessionLapses, SameColumns, SessionRow
<1>7. ASSUME NEW s \in Sessions, NEW ended \in BOOLEAN, PatchSession(s, ended) PROVE SameColumns
  BY <1>1, <1>7 DEF PatchSession, SameColumns, SessionRow
<1> QED
  BY <1>3, <1>4, <1>5, <1>6, <1>7

\* What update_session may write without breaking the link between a session's
\* customer and its accepted code.
SafeWrite(s, to, customer) ==
  /\ to \in ChatSessionState
  /\ customer \in Customers \cup {None}
  /\ customer # None => /\ to \in {"verified", "escalated_to_human"}
                        /\ row[s].status = "verified" /\ row[s].customer = customer
  /\ to = "verified" => customer # None

\* The session part of the invariant.
SessionInv ==
  /\ session \in [Sessions -> SessionRow]
  /\ CustomerIsProven
  /\ VerifiedHasCustomer

\* A safe write, or one the validator refuses, preserves it.
LEMMA UpdatePreserves ==
  ASSUME GateInv, NEW h \in Handlers, NEW to, NEW customer, NEW next,
         UpdateSession(h, to, customer, next),
         task[h].sess \in Sessions,
         TransitionAllowed(session[task[h].sess].state, to, customer)
           => SafeWrite(task[h].sess, to, customer)
  PROVE  SessionInv'
<1> DEFINE s == task[h].sess
<1> USE ConstantsAssumption
<1>0. /\ SessionInv /\ RowInv
      /\ row \in [Sessions -> VerificationRow]
  BY DEF GateInv, TypeOK, SessionInv
<1>1. row' = row /\ customers' = customers
  BY DEF UpdateSession, Raise, store
<1>2. CASE session' = session
  BY <1>0, <1>1, <1>2 DEF SessionInv, CustomerIsProven, VerifiedHasCustomer
<1>3. CASE /\ session' = [session EXCEPT ![s].state = to, ![s].customer = customer]
           /\ SafeWrite(s, to, customer)
  <2>1. session' \in [Sessions -> SessionRow]
    BY <1>0, <1>3 DEF SafeWrite, SessionInv, SessionRow
  <2>2. /\ session'[s].state = to /\ session'[s].customer = customer
        /\ \A x \in Sessions \ {s} : session'[x] = session[x]
    BY <1>0, <1>3 DEF SessionInv, SessionRow
  <2>3. CustomerIsProven'
    BY <1>0, <1>1, <1>3, <2>2 DEF SafeWrite, SessionInv, CustomerIsProven
  <2>4. VerifiedHasCustomer'
    BY <1>0, <1>1, <1>3, <2>2 DEF SafeWrite, SessionInv, VerifiedHasCustomer, RowInv
  <2> QED
    BY <2>1, <2>3, <2>4 DEF SessionInv
<1> QED
  BY <1>2, <1>3 DEF UpdateSession, Raise, store

\* In a state other than verified and escalated_to_human a session has no
\* customer, so a write that does not change the customer writes none.
LEMMA SessionsPreserved ==
  ASSUME GateInv, [Next]_vars
  PROVE  SessionInv'
<1> USE ConstantsAssumption
<1>0. /\ SessionInv /\ RowInv /\ StageInv /\ TypeOK
      /\ created \subseteq Sessions
      /\ row \in [Sessions -> VerificationRow]
      /\ task \in [Handlers -> Task]
      /\ session \in [Sessions -> SessionRow]
  BY DEF GateInv, TypeOK, SessionInv
<1>1. RowInv' /\ KeepsVerdicts
  BY RowsPreserved
<1>2. ASSUME SameColumns, UNCHANGED <<row, customers>> PROVE SessionInv'
  BY <1>0, <1>2 DEF SameColumns, SessionInv, CustomerIsProven, VerifiedHasCustomer
<1>3. CASE UNCHANGED session
  <2>1. CustomerIsProven'
    BY <1>0, <1>1, <1>3 DEF SessionInv, CustomerIsProven, KeepsVerdicts
  <2>2. \A s \in Sessions : row[s].status = "verified" => row'[s].customer \in customers'
    BY <1>0, <1>1 DEF RowInv, KeepsVerdicts
  <2>3. ASSUME NEW s \in Sessions, session[s].state = "verified"
        PROVE  session[s].customer \in customers'
    <3>1. session[s].customer # None
      BY <1>0, <2>3 DEF SessionInv, VerifiedHasCustomer, TypeOK
    <3> QED
      BY <1>0, <1>1, <2>2, <3>1 DEF SessionInv, CustomerIsProven, KeepsVerdicts
  <2>4. VerifiedHasCustomer'
    BY <1>3, <2>3 DEF VerifiedHasCustomer
  <2> QED
    BY <1>0, <1>3, <2>1, <2>4 DEF SessionInv
<1>4. ASSUME NEW h \in Handlers, RefreshFindsNone(h) \/ Reload(h) \/ TouchSession(h)
      PROVE SessionInv'
  <2>1. UNCHANGED <<row, customers>>
    BY <1>4 DEF RefreshFindsNone, Reload, TouchSession
  <2>2. task[h].sess \in Sessions
    BY <1>0, <1>4 DEF RefreshFindsNone, Reload, TouchSession, Runs, StageInv, StageFits, StageNeeds
  <2> QED
    BY <1>0, <1>2, <1>4, <2>1, <2>2, FlagWrites
<1>5. ASSUME NEW s \in Sessions,
             \/ MarkSessionExpired(s) \/ SessionLapses(s)
             \/ \E ended \in BOOLEAN : PatchSession(s, ended)
      PROVE SessionInv'
  <2>1. UNCHANGED <<row, customers>>
    BY <1>5 DEF MarkSessionExpired, SessionLapses, PatchSession
  <2> QED
    BY <1>0, <1>2, <1>5, <2>1, FlagWrites
<1>6. ASSUME NEW c \in Customers, DeleteCustomer(c) PROVE SessionInv'
  <2>1. \A s \in Sessions : session[s].customer # c
    BY <1>0, <1>6 DEF DeleteCustomer, SessionInv, CustomerIsProven
  <2>2. session' = session
    BY <1>0, <1>6, <2>1 DEF DeleteCustomer
  <2> QED
    BY <1>3, <2>2
<1>7. ASSUME NEW h \in Handlers, SessionUpdate(h) PROVE SessionInv'
  <2> DEFINE s == task[h].sess
  <2>1. s \in Sessions
    BY <1>0, <1>7 DEF SessionUpdate, StageInv, StageFits, StageNeeds, Runs, RequestIdentityInfo, EscalateToHuman,
       MarkCodeSent, ExpireSession, AwaitCode, VerifySession
  <2>2. session[s].customer \in Customers \cup {None}
    BY <1>0, <2>1 DEF SessionRow
  <2>3. session[s].customer # None =>
          /\ session[s].state \in {"verified", "escalated_to_human"}
          /\ row[s].status = "verified" /\ row[s].customer = session[s].customer
    BY <1>0, <2>1 DEF SessionInv, CustomerIsProven
  <2>4. CASE RequestIdentityInfo(h)
    <3>1. TransitionAllowed(session[s].state, "collecting_identity", session[s].customer)
            => SafeWrite(s, "collecting_identity", session[s].customer)
      BY <2>2, <2>3 DEF TransitionAllowed, VALID_TRANSITIONS, ESCALATABLE, SafeWrite,
         ChatSessionState
    <3> QED
      BY <2>1, <2>4, <3>1, UpdatePreserves DEF RequestIdentityInfo
  <2>5. CASE EscalateToHuman(h)
    <3>1. SafeWrite(s, "escalated_to_human", session[s].customer)
      BY <2>2, <2>3 DEF SafeWrite, ChatSessionState
    <3> QED
      BY <2>1, <2>5, <3>1, UpdatePreserves DEF EscalateToHuman
  <2>6. CASE MarkCodeSent(h)
    <3>1. TransitionAllowed(session[s].state, "code_sent", session[s].customer)
            => SafeWrite(s, "code_sent", session[s].customer)
      BY <2>2, <2>3 DEF TransitionAllowed, VALID_TRANSITIONS, ESCALATABLE, SafeWrite,
         ChatSessionState
    <3> QED
      BY <2>1, <2>6, <3>1, UpdatePreserves DEF MarkCodeSent
  <2>7. CASE ExpireSession(h)
    <3>1. SafeWrite(s, "code_expired", None)
      BY DEF SafeWrite, ChatSessionState
    <3> QED
      BY <2>1, <2>7, <3>1, UpdatePreserves DEF ExpireSession
  <2>8. CASE AwaitCode(h)
    <3>1. task[h].seen.customer = None
      BY <1>0, <2>8 DEF AwaitCode, Runs, StageInv, StageFits, StageNeeds, VerifyStage
    <3>2. SafeWrite(s, "awaiting_code", task[h].seen.customer)
      BY <3>1 DEF SafeWrite, ChatSessionState
    <3> QED
      BY <2>1, <2>8, <3>2, UpdatePreserves DEF AwaitCode
  <2>9. CASE VerifySession(h)
    <3>1. row[s].status = "verified"
      BY <1>0, <2>9 DEF VerifySession, Runs, StageInv, StageFits, StageNeeds
    <3>2. row[s].customer \in Customers
      BY <1>0, <2>1, <3>1 DEF RowInv, TypeOK
    <3>3. SafeWrite(s, "verified", row[s].customer)
      BY <3>1, <3>2 DEF SafeWrite, ChatSessionState
    <3> QED
      BY <2>1, <2>9, <3>3, UpdatePreserves DEF VerifySession
  <2> QED
    BY <1>7, <2>4, <2>5, <2>6, <2>7, <2>8, <2>9 DEF SessionUpdate
<1> QED
  BY <1>3, <1>4, <1>5, <1>6, <1>7, SessionWriters DEF SessionWrite

-----------------------------------------------------------------------------
\* The handlers' part of the invariant.
TaskInv ==
  /\ task \in [Handlers -> Task]
  /\ loop \in Handlers \cup {None}
  /\ StageInv
  /\ ContextInv

\* While h takes a step, every other handler is idle or waits for the LLM and
\* nothing is disturbed that it relies on.
LEMMA OthersKeep ==
  ASSUME GateInv, [Next]_vars, NEW h \in Handlers, NEW g \in Handlers \ {h},
         task' \in [Handlers -> Task], task'[g] = task[g],
         loop \in {None, h}, created \subseteq created'
  PROVE  StageFits(g)' /\ ContextFits(g)'
<1> USE ConstantsAssumption
<1>1. StageFits(g) /\ ContextFits(g) /\ created \subseteq Sessions /\ KeepsVerdicts
  BY RowsPreserved DEF GateInv, TypeOK, StageInv, ContextInv
<1>2. task[g].stage \in {"idle", "plan_chat_turn"}
  BY <1>1 DEF StageFits
<1>3. StageFits(g)'
  BY <1>1, <1>2 DEF StageFits, StageNeeds, VerifyStage
<1> DEFINE t == task[g]
<1>4. CASE t.stage = "idle"
  BY <1>1, <1>3, <1>4 DEF StageFits, ContextFits, IdleTask
<1>5. CASE t.stage # "idle"
  <2>1. t.sess \in Sessions
    BY <1>1, <1>5 DEF StageFits
  <2>2. ContextFits(g)'
    BY <1>1, <2>1 DEF ContextFits, KeepsVerdicts
  <2> QED
    BY <1>3, <2>2
<1> QED
  BY <1>4, <1>5

\* So only the handler that moves has to be looked at.
LEMMA OneMoves ==
  ASSUME GateInv, [Next]_vars, NEW h \in Handlers, NEW t \in Task,
         task' = [task EXCEPT ![h] = t],
         loop \in {None, h}, loop' \in {None, h}, created \subseteq created',
         StageFits(h)', ContextFits(h)'
  PROVE  TaskInv'
<1>1. task \in [Handlers -> Task]
  BY DEF GateInv, TypeOK
<1>2. task' \in [Handlers -> Task] /\ \A g \in Handlers \ {h} : task'[g] = task[g]
  BY <1>1
<1>3. \A g \in Handlers \ {h} : StageFits(g)' /\ ContextFits(g)'
  BY <1>2, OthersKeep
<1> QED
  BY <1>2, <1>3 DEF TaskInv, StageInv, ContextInv

\* A handler that ends releases the loop and forgets everything.
LEMMA FinishKeeps ==
  ASSUME GateInv, [Next]_vars, NEW h \in Handlers, Finish(h),
         loop \in {None, h}, created \subseteq created'
  PROVE  TaskInv'
<1> USE ConstantsAssumption
<1>1. task \in [Handlers -> Task]
  BY DEF GateInv, TypeOK
<1>2. task'[h] = IdleTask /\ loop' = None
  BY <1>1 DEF Finish
<1>3. IdleTask \in Task
  BY DEF IdleTask, Task, Context, ChatSessionState
<1>4. StageFits(h)' /\ ContextFits(h)'
  BY <1>2 DEF StageFits, ContextFits, IdleTask, VerifyStage
<1> QED
  BY <1>2, <1>3, <1>4, OneMoves DEF Finish

\* A handler that goes to its next stage needs that stage's facts.
LEMMA GotoKeeps ==
  ASSUME GateInv, [Next]_vars, NEW h \in Handlers, NEW stage \in ChatStage \cup VerifyStage,
         Goto(h, stage), task[h].stage # "idle", loop \in {None, h}, loop' = h,
         created' = created,
         stage \in VerifyStage => task[h].seen.customer = None,
         StageNeeds(row'[task[h].sess], stage)
  PROVE  TaskInv'
<1> USE ConstantsAssumption
<1> DEFINE t == [task[h] EXCEPT !.stage = stage]
<1>1. /\ task \in [Handlers -> Task] /\ StageFits(h) /\ ContextFits(h)
      /\ created \subseteq Sessions
      /\ KeepsVerdicts
  BY RowsPreserved DEF GateInv, TypeOK, StageInv, ContextInv
<1>2. t \in Task /\ t.stage = stage /\ t.sess = task[h].sess /\ t.seen = task[h].seen
                 /\ t.hist = task[h].hist
  BY <1>1 DEF Task
<1>3. task'[h] = t /\ task' = [task EXCEPT ![h] = t]
  BY <1>1 DEF Goto
<1>4. stage # "idle"
  BY DEF ChatStage, VerifyStage, Tool
<1>5. StageFits(h)'
  BY <1>1, <1>2, <1>3, <1>4 DEF StageFits
<1>6. task[h].sess \in Sessions
  BY <1>1 DEF StageFits
<1>7. ContextFits(h)'
  BY <1>1, <1>2, <1>3, <1>6 DEF ContextFits, KeepsVerdicts
<1> QED
  BY <1>2, <1>3, <1>5, <1>7, OneMoves

LEMMA UpdateKeeps ==
  ASSUME GateInv, [Next]_vars, NEW h \in Handlers, NEW stage \in ChatStage \cup VerifyStage,
         NEW to, NEW customer, UpdateSession(h, to, customer, stage),
         task[h].stage # "idle", loop = h,
         stage \in VerifyStage => task[h].seen.customer = None,
         StageNeeds(row[task[h].sess], stage)
  PROVE  TaskInv'
<1>1. row' = row /\ created' = created
  BY DEF UpdateSession, Raise, store
<1>2. CASE Goto(h, stage) /\ loop' = loop
  BY <1>1, <1>2, GotoKeeps
<1>3. CASE Finish(h)
  BY <1>1, <1>3, FinishKeeps
<1> QED
  BY <1>2, <1>3 DEF UpdateSession, Raise

\* A turn begins with what the rows say.
LEMMA BeginKeeps ==
  ASSUME GateInv, [Next]_vars, NEW h \in Handlers, NEW s \in created',
         BeginTurn(h, s), loop = None, loop' = None, s \in Sessions,
         created \subseteq created', row' = row
  PROVE  TaskInv'
<1> USE ConstantsAssumption
<1> DEFINE t == [stage |-> "plan_chat_turn", sess |-> s,
                 seen |-> [state |-> session[s].state, customer |-> session[s].customer],
                 hist |-> transcript[s], iter |-> 0]
<1>1. /\ task \in [Handlers -> Task]
      /\ session \in [Sessions -> SessionRow]
      /\ transcript \in [Sessions -> SUBSET Note]
      /\ CustomerIsProven /\ NotesTruthful
  BY DEF GateInv, TypeOK
<1>2. t \in Task
  BY <1>1 DEF Task, Context, SessionRow, ChatStage
<1>3. task' = [task EXCEPT ![h] = t] /\ task'[h] = t
  BY <1>1 DEF BeginTurn
<1>4. StageFits(h)'
  BY <1>3 DEF StageFits, StageNeeds, VerifyStage
<1>5. ContextFits(h)'
  BY <1>1, <1>3 DEF ContextFits, CustomerIsProven, NotesTruthful
<1> QED
  BY <1>2, <1>3, <1>4, <1>5, OneMoves

LEMMA ChatKeepsTasks ==
  ASSUME GateInv, [Next]_vars, NEW h \in Handlers, ChatStep(h)
  PROVE  TaskInv'
<1> USE ConstantsAssumption
<1>0. /\ created \subseteq Sessions /\ issued \subseteq created
      /\ task \in [Handlers -> Task]
      /\ session \in [Sessions -> SessionRow]
      /\ StageFits(h) /\ ContextFits(h)
      /\ CustomerIsProven
  BY DEF GateInv, TypeOK, StageInv, ContextInv
<1>1. ASSUME NEW s \in Sessions, ChatCreate(h, s) PROVE TaskInv'
  BY <1>1, BeginKeeps DEF ChatCreate
<1>2. ASSUME NEW s \in Sessions, ChatResume(h, s) PROVE TaskInv'
  BY <1>2, BeginKeeps DEF ChatResume, Live
<1>3. ASSUME LLMAnswers(h) PROVE TaskInv'
  <2>1. PICK stage \in Tool \cup {"set_conversation_messages"} : Goto(h, stage)
    BY <1>3 DEF LLMAnswers
  <2>2. /\ stage \in ChatStage \cup VerifyStage /\ stage \notin VerifyStage
        /\ StageNeeds(row'[task[h].sess], stage)
    BY DEF Tool, ChatStage, VerifyStage, StageNeeds
  <2> QED
    BY <1>3, <2>1, <2>2, GotoKeeps DEF LLMAnswers, store
<1>4. ASSUME LLMFails(h) PROVE TaskInv'
  BY <1>4, FinishKeeps DEF LLMFails, Raise, store
<1>5. ASSUME NextToolCall(h) PROVE TaskInv'
  <2>1. PICK stage \in Tool : Goto(h, stage)
    BY <1>5 DEF NextToolCall
  <2>2. /\ stage \in ChatStage \cup VerifyStage /\ stage \notin VerifyStage
        /\ StageNeeds(row'[task[h].sess], stage)
    BY DEF Tool, ChatStage, VerifyStage, StageNeeds
  <2> QED
    BY <1>5, <2>1, <2>2, GotoKeeps DEF NextToolCall, Runs
<1>6. ASSUME Refresh(h) PROVE TaskInv'
  <2> DEFINE s == task[h].sess
             n == task[h].iter + 1
             more == n < MAX_ITERATIONS
             iter == IF n > MAX_ITERATIONS THEN MAX_ITERATIONS ELSE n
             stage == IF more THEN "plan_chat_turn" ELSE "set_conversation_messages"
             t == [task[h] EXCEPT
                     !.seen = [state |-> session[s].state, customer |-> session[s].customer],
                     !.iter = iter, !.stage = stage]
  <2>1. s \in Sessions /\ s \in created /\ loop = h
    BY <1>0, <1>6 DEF Refresh, RefreshUpTo, Runs, StageFits
  <2>2. iter \in 0 .. MAX_ITERATIONS
    BY <1>0 DEF Task
  <2>3. stage \in {"plan_chat_turn", "set_conversation_messages"}
    OBVIOUS
  <2>4. task' = [task EXCEPT ![h] = t]
    BY <1>0, <1>6 DEF Refresh, RefreshUpTo
  <2>5. loop' = IF more THEN None ELSE h
    BY <1>6 DEF Refresh, RefreshUpTo
  <2>6. stage # "plan_chat_turn" => loop' = h
    BY <2>5
  <2>7. row' = row /\ created' = created
    BY <1>6 DEF Refresh, RefreshUpTo, store
  <2> DEFINE seen == [state |-> session[s].state, customer |-> session[s].customer]
  <2>11. seen \in Context /\ seen.customer = session[s].customer
    BY <1>0, <2>1 DEF Context, SessionRow
  <2>12. t = [task[h] EXCEPT !.seen = seen, !.iter = iter, !.stage = stage]
    OBVIOUS
  <2> HIDE DEF iter, stage, more, n, seen, t
  <2>13. stage \in ChatStage
    BY <2>3 DEF ChatStage
  <2>14. task[h] \in Task
    BY <1>0
  <2>8. /\ t \in Task /\ t.stage = stage /\ t.sess = s /\ t.hist = task[h].hist
        /\ t.seen.customer = session[s].customer
    <3>1. t \in Task
      BY <2>2, <2>11, <2>12, <2>13, <2>14 DEF Task
    <3>2. t.stage = stage /\ t.sess = s /\ t.hist = task[h].hist /\ t.seen = seen
      BY <2>12, <2>14 DEF Task
    <3> QED
      BY <2>11, <3>1, <3>2
  <2>9. task'[h] = t
    BY <1>0, <2>4
  <2>10. StageFits(h)'
    BY <2>1, <2>3, <2>6, <2>7, <2>8, <2>9 DEF StageFits, StageNeeds, VerifyStage
  <2>15. ContextFits(h)'
    BY <1>0, <2>1, <2>7, <2>8, <2>9 DEF ContextFits, CustomerIsProven
  <2> QED
    BY <2>1, <2>4, <2>5, <2>7, <2>8, <2>10, <2>15, OneMoves DEF more
<1>7. ASSUME RefreshFindsNone(h) PROVE TaskInv'
  BY <1>7, FinishKeeps DEF RefreshFindsNone, Runs
<1>8. ASSUME StoreTranscript(h) PROVE TaskInv'
  <2>1. "reload" \in ChatStage /\ "reload" \notin VerifyStage
        /\ StageNeeds(row'[task[h].sess], "reload")
    BY DEF ChatStage, VerifyStage, StageNeeds
  <2> QED
    BY <1>8, <2>1, GotoKeeps DEF StoreTranscript, Runs
<1>9. ASSUME Reload(h) PROVE TaskInv'
  <2>1. "touch_session" \in ChatStage /\ "touch_session" \notin VerifyStage
        /\ StageNeeds(row'[task[h].sess], "touch_session")
    BY DEF ChatStage, VerifyStage, StageNeeds
  <2> QED
    BY <1>9, <2>1, GotoKeeps, FinishKeeps DEF Reload, Runs
<1>10. ASSUME TouchSession(h) PROVE TaskInv'
  BY <1>10, FinishKeeps DEF TouchSession, Runs
<1> QED
  BY <1>1, <1>2, <1>3, <1>4, <1>5, <1>6, <1>7, <1>8, <1>9, <1>10 DEF ChatStep

LEMMA ToolKeepsTasks ==
  ASSUME GateInv, [Next]_vars, NEW h \in Handlers, ToolStep(h)
  PROVE  TaskInv'
<1>0. /\ \A r : StageNeeds(r, "dispatch") /\ StageNeeds(r, "mark_code_sent")
      /\ {"dispatch", "mark_code_sent"} \subseteq ChatStage
      /\ "dispatch" \notin VerifyStage /\ "mark_code_sent" \notin VerifyStage
      /\ "idle" \notin Tool
  BY DEF ChatStage, VerifyStage, StageNeeds, Tool
<1>1. CASE UnknownTool(h) \/ LookupShipments(h) \/ StartRefused(h)
  BY <1>0, <1>1, GotoKeeps DEF UnknownTool, LookupShipments, StartRefused, Runs
<1>2. CASE GateDenies(h) \/ MalformedArguments(h) \/ CreateRowRaises(h)
  BY <1>0, <1>2, FinishKeeps DEF GateDenies, MalformedArguments, CreateRowRaises, Runs, Raise,
     store
<1>3. CASE RequestIdentityInfo(h) \/ EscalateToHuman(h) \/ MarkCodeSent(h)
  BY <1>0, <1>3, UpdateKeeps DEF RequestIdentityInfo, EscalateToHuman, MarkCodeSent, Runs
<1>4. ASSUME NEW c \in customers, CreateRow(h, c) PROVE TaskInv'
  BY <1>0, <1>4, GotoKeeps DEF CreateRow, Runs
<1> QED
  BY <1>1, <1>2, <1>3, <1>4 DEF ToolStep

\* A request that found a row to answer for starts with what its choice needs.
LEMMA CodeOutcomeNeeds ==
  ASSUME GateInv, NEW s \in Sessions, NEW right \in BOOLEAN,
         row[s].status \notin {"absent", "verified"}
  PROVE  /\ CodeOutcome(s, right) \in
              {"mark_expired", "mark_exhausted", "increment_attempt", "accept_code"}
         /\ StageNeeds(row[s], CodeOutcome(s, right))
<1>1. /\ row[s].status \in RowStatus /\ row[s].attempts \in 0 .. MaxAttempts
      /\ row[s].lapsed \in BOOLEAN
  BY DEF GateInv, TypeOK, VerificationRow
<1>2. row[s].status \in {"pending"} \cup GivenUp
  BY <1>1 DEF RowStatus
<1>3. /\ row[s].status = "exhausted" => row[s].attempts = MaxAttempts
      /\ row[s].status = "expired" => row[s].lapsed
  BY DEF GateInv, RowInv
<1>4. CASE row[s].lapsed
  BY <1>2, <1>4 DEF CodeOutcome, StageNeeds
<1>5. CASE ~row[s].lapsed /\ row[s].attempts >= MaxAttempts
  BY <1>1, <1>2, <1>5 DEF CodeOutcome, StageNeeds
<1>6. CASE ~row[s].lapsed /\ row[s].attempts < MaxAttempts
  BY <1>1, <1>2, <1>3, <1>6 DEF CodeOutcome, StageNeeds
<1> QED
  BY <1>1, <1>4, <1>5, <1>6

\* The steps of verify_code: each one establishes what the next one needs.
LEMMA VerifyKeepsTasks ==
  ASSUME GateInv, [Next]_vars, NEW h \in Handlers, VerifyStep(h)
  PROVE  TaskInv'
<1> USE ConstantsAssumption
<1>0. /\ created \subseteq Sessions /\ issued \subseteq created
      /\ task \in [Handlers -> Task]
      /\ session \in [Sessions -> SessionRow]
      /\ row \in [Sessions -> VerificationRow]
      /\ StageFits(h) /\ ContextFits(h)
      /\ CustomerIsProven
  BY DEF GateInv, TypeOK, StageInv, ContextInv
<1>1. ASSUME NEW s \in Sessions, NEW right \in BOOLEAN, VerifyCode(h, s, right)
      PROVE  TaskInv'
  <2> DEFINE stage == CodeOutcome(s, right)
             seen == [state |-> session[s].state, customer |-> session[s].customer]
             t == [stage |-> stage, sess |-> s, seen |-> seen, hist |-> {}, iter |-> 0]
  <2>1. /\ stage \in {"mark_expired", "mark_exhausted", "increment_attempt", "accept_code"}
        /\ StageNeeds(row[s], stage)
    BY <1>1, CodeOutcomeNeeds DEF VerifyCode
  <2>2. session[s].customer = None
    BY <1>0, <1>1 DEF VerifyCode, CustomerIsProven
  <2>3. seen \in Context /\ seen.customer = None
    BY <1>0, <2>2 DEF Context, SessionRow
  <2>4. task' = [task EXCEPT ![h] = t] /\ loop = None /\ loop' = h
    BY <1>1 DEF VerifyCode
  <2>5. row' = row /\ created' = created /\ s \in created
    BY <1>1 DEF VerifyCode, store, Live
  <2> HIDE DEF stage, seen
  <2>6. t \in Task
    BY <2>1, <2>3 DEF Task, VerifyStage
  <2>7. task'[h] = t
    BY <1>0, <2>4
  <2>8. StageFits(h)'
    BY <2>1, <2>3, <2>4, <2>5, <2>7 DEF StageFits
  <2>9. ContextFits(h)'
    BY <2>3, <2>7 DEF ContextFits
  <2> QED
    BY <2>4, <2>5, <2>6, <2>8, <2>9, OneMoves
<1>2. ASSUME task[h].stage \in VerifyStage, NEW stage \in VerifyStage,
             Goto(h, stage), loop = h, loop' = loop, created' = created,
             StageNeeds(row'[task[h].sess], stage)
      PROVE  TaskInv'
  <2>1. task[h].seen.customer = None /\ task[h].stage # "idle"
    BY <1>0, <1>2 DEF StageFits, VerifyStage
  <2> QED
    BY <1>2, <2>1, GotoKeeps
<1>3. ASSUME task[h].stage \in VerifyStage, NEW stage \in VerifyStage, NEW to, NEW customer,
             UpdateSession(h, to, customer, stage), loop = h,
             StageNeeds(row[task[h].sess], stage)
      PROVE  TaskInv'
  <2>1. task[h].seen.customer = None /\ task[h].stage # "idle"
    BY <1>0, <1>3 DEF StageFits, VerifyStage
  <2> QED
    BY <1>3, <2>1, UpdateKeeps
<1> DEFINE s == task[h].sess
<1>4. task[h].stage \in VerifyStage => s \in Sessions /\ StageNeeds(row[s], task[h].stage)
  BY <1>0 DEF StageFits, VerifyStage
<1>5. CASE MarkRowExpired(h) \/ MarkRowExhausted(h)
  <2>1. task[h].stage \in {"mark_expired", "mark_exhausted"} /\ loop = h
    BY <1>5 DEF MarkRowExpired, MarkRowExhausted, Runs
  <2>2. row'[s].status \in GivenUp
    BY <1>0, <1>4, <1>5, <2>1 DEF MarkRowExpired, MarkRowExhausted, SetStatus, VerificationRow,
       VerifyStage
  <2>3. StageNeeds(row'[s], "expire_session")
    BY <2>2 DEF StageNeeds
  <2> QED
    BY <1>2, <1>5, <2>1, <2>3 DEF MarkRowExpired, MarkRowExhausted, SetStatus, VerifyStage
<1>6. CASE ExpireSession(h)
  <2>1. StageNeeds(row[s], "note_exhausted")
    BY <1>0, <1>6 DEF ExpireSession, Runs, StageFits, StageNeeds
  <2> QED
    BY <1>3, <1>6, <2>1 DEF ExpireSession, Runs, VerifyStage
<1>7. CASE NoteExhausted(h) \/ NoteSucceeded(h)
  BY <1>7, FinishKeeps DEF NoteExhausted, NoteSucceeded, AppendNote, Runs
<1>8. CASE IncrementAttempt(h)
  <2>1. task[h].stage = "increment_attempt" /\ loop = h
    BY <1>8 DEF IncrementAttempt, Runs
  <2>2. row[s].status = "pending" /\ s \in Sessions
    BY <1>4, <2>1 DEF StageNeeds, VerifyStage
  <2>3. row'[s].status = "pending"
    BY <1>0, <1>8, <2>2 DEF IncrementAttempt, VerificationRow
  <2>4. StageNeeds(row'[s], "await_code")
    BY <2>3 DEF StageNeeds
  <2> QED
    BY <1>2, <1>8, <2>1, <2>4 DEF IncrementAttempt, VerifyStage
<1>9. CASE AwaitCode(h)
  <2> DEFINE stage == IF row[s].attempts >= MaxAttempts THEN "mark_exhausted" ELSE "respond"
  <2>1. task[h].stage = "await_code" /\ loop = h
        /\ UpdateSession(h, "awaiting_code", task[h].seen.customer, stage)
    BY <1>9 DEF AwaitCode, Runs
  <2>2. row[s].status = "pending" /\ row[s].attempts \in 0 .. MaxAttempts
    BY <1>0, <1>4, <2>1 DEF StageNeeds, VerifyStage, VerificationRow
  <2>3. stage \in VerifyStage /\ StageNeeds(row[s], stage)
    BY <2>2 DEF StageNeeds, VerifyStage
  <2> HIDE DEF stage
  <2> QED
    BY <1>3, <2>1, <2>3 DEF VerifyStage
<1>10. CASE Respond(h)
  BY <1>10, FinishKeeps DEF Respond, Runs, store
<1>11. CASE AcceptCode(h)
  <2>1. task[h].stage = "accept_code" /\ loop = h
    BY <1>11 DEF AcceptCode, Runs
  <2>2. row'[s].status = "verified"
    BY <1>0, <1>4, <1>11, <2>1 DEF AcceptCode, SetStatus, VerificationRow, VerifyStage
  <2>3. StageNeeds(row'[s], "verify_session")
    BY <2>2 DEF StageNeeds
  <2> QED
    BY <1>2, <1>11, <2>1, <2>3 DEF AcceptCode, SetStatus, VerifyStage
<1>12. CASE VerifySession(h)
  <2>1. StageNeeds(row[s], "note_succeeded")
    BY <1>0, <1>12 DEF VerifySession, Runs, StageFits, StageNeeds
  <2> QED
    BY <1>3, <1>12, <2>1 DEF VerifySession, Runs, VerifyStage
<1> QED
  BY <1>1, <1>5, <1>6, <1>7, <1>8, <1>9, <1>10, <1>11, <1>12 DEF VerifyStep

\* A step from outside leaves the handlers where they are, and what a handler
\* in the middle of its writes needs survives it.
LEMMA OutsideKeepsTasks ==
  ASSUME GateInv, [Next]_vars, OutsideStep
  PROVE  TaskInv'
<1> USE ConstantsAssumption
<1>0. /\ created \subseteq Sessions
      /\ task \in [Handlers -> Task]
      /\ loop \in Handlers \cup {None}
      /\ row \in [Sessions -> VerificationRow]
      /\ StageInv /\ ContextInv /\ KeepsVerdicts
  BY RowsPreserved DEF GateInv, TypeOK
<1>1. ASSUME UNCHANGED <<created, task, loop>>,
             \A x \in Sessions : /\ row'[x].status = row[x].status
                                /\ row'[x].attempts = row[x].attempts,
             \A x \in Sessions : row[x].lapsed => row'[x].lapsed
      PROVE  TaskInv'
  <2>1. ASSUME NEW h \in Handlers PROVE StageFits(h)' /\ ContextFits(h)'
    <3> DEFINE t == task[h]
    <3>1. StageFits(h) /\ ContextFits(h)
      BY <1>0 DEF StageInv, ContextInv
    <3>2. CASE t.stage = "idle"
      BY <1>1, <3>1, <3>2 DEF StageFits, ContextFits, IdleTask
    <3>3. CASE t.stage # "idle"
      <4>1. t.sess \in Sessions
        BY <1>0, <3>1, <3>3 DEF StageFits
      <4>2. StageNeeds(row'[t.sess], t.stage)
        <5>1. StageNeeds(row[t.sess], t.stage)
          BY <3>1, <3>3 DEF StageFits
        <5>4. t.stage = "mark_expired" => row[t.sess].lapsed
          BY <5>1, Zenon DEF StageNeeds
        <5>2. t.stage = "mark_expired" => row'[t.sess].lapsed
          BY <1>1, <4>1, <5>4, Zenon
        <5>3. /\ row'[t.sess].status = row[t.sess].status
              /\ row'[t.sess].attempts = row[t.sess].attempts
          BY <1>1, <4>1, Zenon
        <5> QED
          BY <5>1, <5>2, <5>3, Zenon DEF StageNeeds
      <4>3. StageFits(h)'
        BY <1>1, <3>1, <4>2 DEF StageFits
      <4>4. ContextFits(h)'
        BY <1>0, <1>1, <3>1, <4>1 DEF ContextFits, KeepsVerdicts
      <4> QED
        BY <4>3, <4>4
    <3> QED
      BY <3>2, <3>3
  <2> QED
    BY <1>0, <1>1, <2>1 DEF TaskInv, StageInv, ContextInv
<1>2. CASE UNCHANGED <<created, task, loop, row>>
  BY <1>1, <1>2
<1>3. ASSUME NEW s \in Sessions,
             \/ MarkSessionExpired(s) \/ SessionLapses(s)
             \/ \E ended \in BOOLEAN : PatchSession(s, ended)
      PROVE  TaskInv'
  BY <1>2, <1>3 DEF MarkSessionExpired, SessionLapses, PatchSession
<1>4. ASSUME NEW c \in Customers, DeleteCustomer(c) PROVE TaskInv'
  BY <1>2, <1>4 DEF DeleteCustomer
<1>5. ASSUME NEW s \in Sessions, CodeLapses(s) PROVE TaskInv'
  <2>1. row' = [row EXCEPT ![s].lapsed = TRUE] /\ UNCHANGED <<created, task, loop>>
    BY <1>5 DEF CodeLapses
  <2>2. ASSUME NEW x \in Sessions
        PROVE  /\ row'[x].status = row[x].status
               /\ row'[x].attempts = row[x].attempts
               /\ x # s => row'[x] = row[x]
    BY <1>0, <2>1 DEF VerificationRow
  <2>3. row'[s].lapsed
    BY <1>0, <2>1 DEF VerificationRow
  <2>4. \A x \in Sessions : row[x].lapsed => row'[x].lapsed
    BY <2>2, <2>3, Zenon
  <2> QED
    BY <1>1, <2>1, <2>2, <2>4
<1>6. ASSUME NEW h \in Handlers, DatabaseFails(h) PROVE TaskInv'
  BY <1>6, FinishKeeps DEF DatabaseFails, Raise, store
<1>7. ASSUME Crash PROVE TaskInv'
  <2>1. task' = [h \in Handlers |-> IdleTask] /\ loop' = None
    BY <1>7 DEF Crash
  <2>2. IdleTask \in Task
    BY DEF IdleTask, Task, Context, ChatSessionState
  <2>3. ASSUME NEW h \in Handlers PROVE StageFits(h)' /\ ContextFits(h)'
    BY <2>1 DEF StageFits, ContextFits, IdleTask, VerifyStage
  <2> QED
    BY <2>1, <2>2, <2>3 DEF TaskInv, StageInv, ContextInv
<1> QED
  BY <1>3, <1>4, <1>5, <1>6, <1>7 DEF OutsideStep

\* The handlers' part of the invariant is preserved.
LEMMA TasksPreserved ==
  ASSUME GateInv, [Next]_vars
  PROVE  TaskInv'
<1>1. CASE UNCHANGED vars
  <2>1. TaskInv
    BY DEF GateInv, TypeOK, TaskInv
  <2> QED
    BY <1>1, <2>1 DEF vars, TaskInv, StageInv, ContextInv, StageFits, ContextFits
<1>2. ASSUME NEW h \in Handlers, ChatStep(h) \/ ToolStep(h) \/ VerifyStep(h)
      PROVE  TaskInv'
  BY <1>2, ChatKeepsTasks, ToolKeepsTasks, VerifyKeepsTasks
<1>3. CASE OutsideStep
  BY <1>3, OutsideKeepsTasks
<1> QED
  BY <1>1, <1>2, <1>3 DEF Next

-----------------------------------------------------------------------------
\* The steps that write transcripts.
TranscriptWrite ==
  \E h \in Handlers : StoreTranscript(h) \/ NoteExhausted(h) \/ NoteSucceeded(h)

\* Every other step leaves the transcripts alone.
LEMMA TranscriptWriters == [Next]_vars => TranscriptWrite \/ UNCHANGED transcript
<1> SUFFICES ASSUME [Next]_vars, ~TranscriptWrite PROVE UNCHANGED transcript
  OBVIOUS
<1>1. CASE UNCHANGED vars
  BY <1>1 DEF vars
<1>2. ASSUME NEW h \in Handlers, ChatStep(h) PROVE UNCHANGED transcript
  BY <1>2 DEF TranscriptWrite, ChatStep, ChatCreate, ChatResume, LLMAnswers, LLMFails,
     NextToolCall, Refresh, RefreshUpTo, RefreshFindsNone, Reload, TouchSession, Raise, store
<1>3. ASSUME NEW h \in Handlers, ToolStep(h) PROVE UNCHANGED transcript
  BY <1>3 DEF ToolStep, UnknownTool, GateDenies, MalformedArguments, LookupShipments,
     RequestIdentityInfo, EscalateToHuman, StartRefused, CreateRow, CreateRowRaises,
     MarkCodeSent, UpdateSession, Raise, store
<1>4. ASSUME NEW h \in Handlers, VerifyStep(h) PROVE UNCHANGED transcript
  BY <1>4 DEF TranscriptWrite, VerifyStep, VerifyCode, MarkRowExpired, MarkRowExhausted,
     ExpireSession, IncrementAttempt, AwaitCode, Respond, AcceptCode, VerifySession,
     UpdateSession, SetStatus, Raise, store
<1>5. ASSUME OutsideStep PROVE UNCHANGED transcript
  BY <1>5 DEF OutsideStep, MarkSessionExpired, SessionLapses, PatchSession, DeleteCustomer,
     CodeLapses, DatabaseFails, Crash, Raise, store
<1> QED
  BY <1>1, <1>2, <1>3, <1>4, <1>5 DEF Next

\* A turn writes back notes that were true when it read them, and verdicts are
\* kept; verify_code appends the note of the verdict it has just written.
LEMMA NotesArePreserved ==
  ASSUME GateInv, [Next]_vars
  PROVE  transcript' \in [Sessions -> SUBSET Note] /\ NotesTruthful'
<1> DEFINE Goal == transcript' \in [Sessions -> SUBSET Note] /\ NotesTruthful'
<1>0. /\ transcript \in [Sessions -> SUBSET Note]
      /\ task \in [Handlers -> Task]
      /\ created \subseteq Sessions
      /\ StageInv /\ ContextInv /\ NotesTruthful /\ KeepsVerdicts
  BY RowsPreserved DEF GateInv, TypeOK
<1>1. CASE UNCHANGED transcript
  BY <1>0, <1>1 DEF NotesTruthful, KeepsVerdicts
<1>2. ASSUME NEW h \in Handlers, StoreTranscript(h) PROVE Goal
  <2> DEFINE s == task[h].sess
  <2>1. s \in Sessions /\ ContextFits(h) /\ task[h].hist \subseteq Note
    BY <1>0, <1>2 DEF StoreTranscript, Runs, StageInv, StageFits, ContextInv, Task
  <2>2. row' = row /\ transcript' = [transcript EXCEPT ![s] = task[h].hist]
    BY <1>2 DEF StoreTranscript
  <2> QED
    BY <1>0, <2>1, <2>2 DEF ContextFits, NotesTruthful
<1>3. ASSUME NEW h \in Handlers, NEW note \in Note, AppendNote(h, note),
             task[h].sess \in Sessions,
             note = "succeeded" => row[task[h].sess].status = "verified",
             note = "exhausted" => row[task[h].sess].status \in GivenUp
      PROVE  Goal
  <2>1. row' = row
    BY <1>3 DEF AppendNote
  <2>2. transcript' = [transcript EXCEPT ![task[h].sess] = @ \cup {note}]
    BY <1>3 DEF AppendNote
  <2> QED
    BY <1>0, <1>3, <2>1, <2>2 DEF NotesTruthful
<1>4. ASSUME NEW h \in Handlers, NoteExhausted(h) PROVE Goal
  <2>1. task[h].sess \in Sessions /\ row[task[h].sess].status \in GivenUp
    BY <1>0, <1>4 DEF NoteExhausted, Runs, StageInv, StageFits, StageNeeds
  <2> QED
    BY <1>3, <1>4, <2>1 DEF NoteExhausted
<1>5. ASSUME NEW h \in Handlers, NoteSucceeded(h) PROVE Goal
  <2>1. task[h].sess \in Sessions /\ row[task[h].sess].status = "verified"
    BY <1>0, <1>5 DEF NoteSucceeded, Runs, StageInv, StageFits, StageNeeds
  <2> QED
    BY <1>3, <1>5, <2>1 DEF NoteSucceeded
<1> QED
  BY <1>1, <1>2, <1>4, <1>5, TranscriptWriters DEF TranscriptWrite

-----------------------------------------------------------------------------
\* Every step but a lookup leaves the record of disclosures alone.
LEMMA Disclosers ==
  [Next]_vars => (\E h \in Handlers : LookupShipments(h)) \/ UNCHANGED disclosed
<1> SUFFICES ASSUME [Next]_vars, ~\E h \in Handlers : LookupShipments(h)
             PROVE  UNCHANGED disclosed
  OBVIOUS
<1>1. CASE UNCHANGED vars
  BY <1>1 DEF vars
<1>2. ASSUME NEW h \in Handlers, ChatStep(h) PROVE UNCHANGED disclosed
  BY <1>2 DEF ChatStep, ChatCreate, ChatResume, LLMAnswers, LLMFails, NextToolCall, Refresh,
     RefreshUpTo, RefreshFindsNone, StoreTranscript, Reload, TouchSession, Raise, store
<1>3. ASSUME NEW h \in Handlers, ToolStep(h) PROVE UNCHANGED disclosed
  BY <1>3 DEF ToolStep, UnknownTool, GateDenies, MalformedArguments, RequestIdentityInfo,
     EscalateToHuman, StartRefused, CreateRow, CreateRowRaises, MarkCodeSent, UpdateSession,
     Raise, store
<1>4. ASSUME NEW h \in Handlers, VerifyStep(h) PROVE UNCHANGED disclosed
  BY <1>4 DEF VerifyStep, VerifyCode, MarkRowExpired, MarkRowExhausted, ExpireSession,
     NoteExhausted, IncrementAttempt, AwaitCode, Respond, AcceptCode, VerifySession,
     NoteSucceeded, UpdateSession, SetStatus, AppendNote, Raise, store
<1>5. ASSUME OutsideStep PROVE UNCHANGED disclosed
  BY <1>5 DEF OutsideStep, MarkSessionExpired, SessionLapses, PatchSession, DeleteCustomer,
     CodeLapses, DatabaseFails, Crash, Raise, store
<1> QED
  BY <1>1, <1>2, <1>3, <1>4, <1>5 DEF Next

\* Only lookup_shipments discloses anything; it reads the customer of the
\* context it was dispatched with, and that customer is proven.
LEMMA DisclosurePreserved ==
  ASSUME GateInv, [Next]_vars
  PROVE  disclosed' \subseteq Sessions \X Customers /\ DisclosedToOwnerOnly'
<1> DEFINE Goal == disclosed' \subseteq Sessions \X Customers /\ DisclosedToOwnerOnly'
<1> USE ConstantsAssumption
<1>0. /\ disclosed \subseteq Sessions \X Customers
      /\ task \in [Handlers -> Task]
      /\ created \subseteq Sessions
      /\ row \in [Sessions -> VerificationRow]
      /\ StageInv /\ ContextInv /\ DisclosedToOwnerOnly /\ KeepsVerdicts
  BY RowsPreserved DEF GateInv, TypeOK
<1>1. CASE UNCHANGED disclosed
  <2>1. ASSUME NEW d \in disclosed PROVE row'[d[1]].status = "verified" /\ row'[d[1]].customer = d[2]
    <3>1. d[1] \in Sessions
      BY <1>0
    <3> QED
      BY <1>0, <3>1 DEF DisclosedToOwnerOnly, KeepsVerdicts
  <2> QED
    BY <1>0, <1>1, <2>1 DEF DisclosedToOwnerOnly
<1>2. ASSUME NEW h \in Handlers, LookupShipments(h) PROVE Goal
  <2> DEFINE s == task[h].sess
             c == task[h].seen.customer
  <2>1. c # None /\ disclosed' = disclosed \cup {<<s, c>>} /\ row' = row
    BY <1>2 DEF LookupShipments, GateAllows
  <2>2. s \in Sessions /\ row[s].status = "verified" /\ row[s].customer = c
    BY <1>0, <1>2, <2>1 DEF LookupShipments, Runs, StageInv, StageFits, ContextInv, ContextFits
  <2>3. c \in Customers
    BY <1>0, <2>1, <2>2 DEF VerificationRow
  <2> QED
    BY <1>0, <2>1, <2>2, <2>3 DEF DisclosedToOwnerOnly
<1> QED
  BY <1>1, <1>2, Disclosers

-----------------------------------------------------------------------------
\* Session rows are only ever added, and a cookie only names a row.
LEMMA CookiesPreserved ==
  ASSUME GateInv, [Next]_vars
  PROVE  created' \subseteq Sessions /\ issued' \subseteq created'
<1> DEFINE Goal == created' \subseteq Sessions /\ issued' \subseteq created'
<1>0. created \subseteq Sessions /\ issued \subseteq created /\ StageInv
  BY DEF GateInv, TypeOK
<1>1. CASE UNCHANGED <<created, issued>>
  BY <1>0, <1>1
<1>2. ASSUME NEW h \in Handlers, NEW s \in Sessions, ChatCreate(h, s) PROVE Goal
  BY <1>0, <1>2 DEF ChatCreate
<1>3. ASSUME NEW h \in Handlers, TouchSession(h) PROVE Goal
  BY <1>0, <1>3 DEF TouchSession, Runs, StageInv, StageFits
<1>4. CASE UNCHANGED vars
  BY <1>1, <1>4 DEF vars
<1>5. ASSUME NEW h \in Handlers, ChatStep(h) PROVE Goal
  BY <1>1, <1>2, <1>3, <1>5 DEF ChatStep, ChatResume, LLMAnswers, LLMFails, NextToolCall,
     Refresh, RefreshUpTo, RefreshFindsNone, StoreTranscript, Reload, Raise, store
<1>6. ASSUME NEW h \in Handlers, ToolStep(h) PROVE Goal
  BY <1>1, <1>6 DEF ToolStep, UnknownTool, GateDenies, MalformedArguments, LookupShipments,
     RequestIdentityInfo, EscalateToHuman, StartRefused, CreateRow, CreateRowRaises,
     MarkCodeSent, UpdateSession, Raise, store
<1>7. ASSUME NEW h \in Handlers, VerifyStep(h) PROVE Goal
  BY <1>1, <1>7 DEF VerifyStep, VerifyCode, MarkRowExpired, MarkRowExhausted, ExpireSession,
     NoteExhausted, IncrementAttempt, AwaitCode, Respond, AcceptCode, VerifySession,
     NoteSucceeded, UpdateSession, SetStatus, AppendNote, Raise, store
<1>8. ASSUME OutsideStep PROVE Goal
  BY <1>1, <1>8 DEF OutsideStep, MarkSessionExpired, SessionLapses, PatchSession,
     DeleteCustomer, CodeLapses, DatabaseFails, Crash, Raise, store
<1> QED
  BY <1>4, <1>5, <1>6, <1>7, <1>8 DEF Next

-----------------------------------------------------------------------------
\* Nothing exists yet, so every part of the invariant holds.
LEMMA InitGateInv == Init => GateInv
<1> SUFFICES ASSUME Init PROVE GateInv
  OBVIOUS
<1> USE ConstantsAssumption DEF Init
<1>1. IdleTask \in Task
  BY DEF IdleTask, Task, Context, ChatSessionState
<1>2. AbsentRow \in VerificationRow
  BY DEF AbsentRow, VerificationRow, RowStatus
<1>3. \A s \in Sessions : session[s] \in SessionRow
  BY DEF SessionRow, ChatSessionState
<1>4. TypeOK
  BY <1>1, <1>2, <1>3 DEF TypeOK
<1>5. RowInv
  BY DEF RowInv, AbsentRow
<1>6. CustomerIsProven /\ VerifiedHasCustomer /\ NotesTruthful /\ DisclosedToOwnerOnly
  BY DEF CustomerIsProven, VerifiedHasCustomer, NotesTruthful, DisclosedToOwnerOnly
<1>7. StageInv /\ ContextInv
  BY DEF StageInv, StageFits, ContextInv, ContextFits, IdleTask, VerifyStage
<1> QED
  BY <1>4, <1>5, <1>6, <1>7 DEF GateInv

\* Each part of the invariant by its own lemma.
LEMMA GateInvPreserved == GateInv /\ [Next]_vars => GateInv'
<1> SUFFICES ASSUME GateInv, [Next]_vars PROVE GateInv'
  OBVIOUS
<1>1. /\ customers' \subseteq Customers
      /\ row' \in [Sessions -> VerificationRow]
      /\ RowInv'
  BY RowsPreserved
<1>2. SessionInv'
  BY SessionsPreserved
<1>3. TaskInv'
  BY TasksPreserved
<1>4. transcript' \in [Sessions -> SUBSET Note] /\ NotesTruthful'
  BY NotesArePreserved
<1>5. disclosed' \subseteq Sessions \X Customers /\ DisclosedToOwnerOnly'
  BY DisclosurePreserved
<1>6. created' \subseteq Sessions /\ issued' \subseteq created'
  BY CookiesPreserved
<1>7. TypeOK'
  BY <1>1, <1>2, <1>3, <1>4, <1>5, <1>6 DEF TypeOK, SessionInv, TaskInv
<1> QED
  BY <1>1, <1>2, <1>3, <1>4, <1>5, <1>7 DEF GateInv, SessionInv, TaskInv

-----------------------------------------------------------------------------
\* The invariant of the verification gate: whatever the LLM calls, however turns
\* and verify_code requests interleave, and wherever a handler, a transaction or
\* the process fails.
THEOREM GateInvariant == Spec => []GateInv
<1>1. Init => GateInv
  BY InitGateInv
<1>2. GateInv /\ [Next]_vars => GateInv'
  BY GateInvPreserved
<1> QED
  BY <1>1, <1>2, PTL DEF Spec

\* Every variable keeps its type.
THEOREM TypeCorrect == Spec => []TypeOK
<1>1. GateInv => TypeOK
  BY DEF GateInv
<1> QED
  BY <1>1, GateInvariant, PTL

\* A session carries a customer only when its own code was accepted, and then the
\* customer the code was sent to (auth.py, request_identity_info.py).
THEOREM CustomerProven == Spec => []CustomerIsProven
<1>1. GateInv => CustomerIsProven
  BY DEF GateInv
<1> QED
  BY <1>1, GateInvariant, PTL

\* A verified session has a customer whose record exists (customers.py, models.py).
THEOREM VerifiedCustomerExists == Spec => []VerifiedHasCustomer
<1>1. GateInv => VerifiedHasCustomer
  BY DEF GateInv
<1> QED
  BY <1>1, GateInvariant, PTL

\* Three wrong codes at most, and none accepted after the third (auth.py).
THEOREM ThreeAttempts == Spec => []AttemptLimit
<1>1. GateInv => AttemptLimit
  BY DEF GateInv, TypeOK, RowInv, AttemptLimit, VerificationRow
<1> QED
  BY <1>1, GateInvariant, PTL

\* Shipments are disclosed to the customer of the accepted code only
\* (identity_gate.py, lookup_shipments.py).
THEOREM OwnerOnly == Spec => []DisclosedToOwnerOnly
<1>1. GateInv => DisclosedToOwnerOnly
  BY DEF GateInv
<1> QED
  BY <1>1, GateInvariant, PTL

\* A verification note in a transcript is true of the row (auth.py, chat.py).
THEOREM NotesAreTrue == Spec => []NotesTruthful
<1>1. GateInv => NotesTruthful
  BY DEF GateInv
<1> QED
  BY <1>1, GateInvariant, PTL

\* A code that was given up is never accepted or pending again (auth.py).
THEOREM VerdictsStand == Spec => VerdictIsFinal
<1>1. GateInv /\ [Next]_vars => KeepsVerdicts
  BY RowsPreserved
<1>2. KeepsVerdicts => \A s \in Sessions : row[s].status \in GivenUp => row'[s].status \in GivenUp
  BY DEF KeepsVerdicts
<1> QED
  BY <1>1, <1>2, GateInvariant, PTL DEF Spec, VerdictIsFinal

\* update_session validates in the transaction that writes, and the table has no
\* way back from verified or escalated_to_human.
LEMMA StatesStand ==
  ASSUME GateInv, [Next]_vars, NEW s \in Sessions
  PROVE  /\ session[s].state = "verified" =>
              session'[s].state \in {"verified", "escalated_to_human"}
         /\ session[s].state = "escalated_to_human" =>
              session'[s].state = "escalated_to_human"
<1> DEFINE Goal == /\ session[s].state = "verified" =>
                        session'[s].state \in {"verified", "escalated_to_human"}
                   /\ session[s].state = "escalated_to_human" =>
                        session'[s].state = "escalated_to_human"
<1>0. TypeOK /\ StageInv /\ session \in [Sessions -> SessionRow]
  BY DEF GateInv, TypeOK
<1>1. ASSUME session'[s].state = session[s].state PROVE Goal
  BY <1>1
<1>2. ASSUME NEW h \in Handlers, NEW to, NEW customer, NEW next,
             UpdateSession(h, to, customer, next)
      PROVE  Goal
  <2> DEFINE x == task[h].sess
  <2>1. CASE session' = session
    BY <1>1, <2>1
  <2>2. CASE /\ TransitionAllowed(session[x].state, to, customer)
             /\ session' = [session EXCEPT ![x].state = to, ![x].customer = customer]
    <3>1. session'[s].state = IF s = x THEN to ELSE session[s].state
      BY <1>0, <2>2 DEF SessionRow
    <3> QED
      BY <2>2, <3>1 DEF TransitionAllowed, VALID_TRANSITIONS, ESCALATABLE
  <2> QED
    BY <1>2, <2>1, <2>2 DEF UpdateSession, Raise, store
<1>3. ASSUME NEW h \in Handlers, SessionUpdate(h) PROVE Goal
  BY <1>2, <1>3 DEF SessionUpdate, RequestIdentityInfo, EscalateToHuman, MarkCodeSent,
     ExpireSession, AwaitCode, VerifySession
<1>4. ASSUME SameColumns PROVE Goal
  BY <1>1, <1>4 DEF SameColumns
<1>5. ASSUME NEW c \in Customers, DeleteCustomer(c) PROVE Goal
  <2>1. session'[s].state = session[s].state
    BY <1>0, <1>5 DEF DeleteCustomer, SessionRow
  <2> QED
    BY <1>1, <2>1
<1>6. CASE UNCHANGED session
  BY <1>1, <1>6
<1> QED
  BY <1>0, <1>3, <1>4, <1>5, <1>6, SessionWriters, FlagWrites DEF SessionWrite

\* A verified session only becomes escalated, and an escalated one stays so
\* (session_state_machine.py).
THEOREM StatesNeverGoBack == Spec => NoWayBack
<1>1. GateInv /\ [Next]_vars =>
        \A s \in Sessions :
          /\ session[s].state = "verified" =>
               session'[s].state \in {"verified", "escalated_to_human"}
          /\ session[s].state = "escalated_to_human" =>
               session'[s].state = "escalated_to_human"
  BY StatesStand
<1> QED
  BY <1>1, GateInvariant, PTL DEF Spec, NoWayBack

-----------------------------------------------------------------------------
\* A write of one row is a write of one challenge.
LEMMA OneChallenge ==
  ASSUME row \in [Sessions -> VerificationRow], NEW s \in Sessions, NEW r,
         row' = [row EXCEPT ![s] = r]
  PROVE  Challenge' = [Challenge EXCEPT ![s] = ChallengeOf(r)]
<1>1. \A x \in Sessions : row'[x] = IF x = s THEN r ELSE row[x]
  OBVIOUS
<1>2. /\ Challenge' = [x \in Sessions |-> ChallengeOf(row'[x])]
      /\ Challenge = [x \in Sessions |-> ChallengeOf(row[x])]
  BY DEF Challenge, ChallengeOf
<1> HIDE DEF ChallengeOf
<1> QED
  BY <1>1, <1>2

\* Each write of a verification row is a step of the challenge, or none.
LEMMA RowStepsImplement ==
  ASSUME GateInv, RowWrite, UNCHANGED disclosed
  PROVE  [Abstract!Next]_(Abstract!vars)
<1> USE ConstantsAssumption
<1>0. /\ row \in [Sessions -> VerificationRow]
      /\ created \subseteq Sessions /\ customers \subseteq Customers
      /\ RowInv /\ StageInv
  BY DEF GateInv, TypeOK
<1>1. ASSUME NEW h \in Handlers, task[h].stage \in VerifyStage \cup ChatStage
      PROVE  task[h].sess \in Sessions /\ StageNeeds(row[task[h].sess], task[h].stage)
  BY <1>0, <1>1 DEF StageInv, StageFits, VerifyStage, ChatStage, Tool
<1>2. ASSUME Challenge' = Challenge PROVE UNCHANGED Abstract!vars
  BY <1>2 DEF Abstract!vars
<1>3. ASSUME NEW h \in Handlers, NEW c \in customers, CreateRow(h, c)
      PROVE  Abstract!Next
  <2> DEFINE s == task[h].sess
             r == [status |-> "pending", attempts |-> 0, customer |-> c, lapsed |-> FALSE]
  <2>1. s \in Sessions
    BY <1>1, <1>3 DEF CreateRow, Runs, ChatStage, Tool
  <2>2. row[s] = AbsentRow
    BY <1>0, <1>3, <2>1 DEF CreateRow, RowInv
  <2>3. Challenge[s].status = "none"
    BY <2>1, <2>2 DEF Challenge, ChallengeOf, AbsentRow
  <2>4. row' = [row EXCEPT ![s] = r]
    BY <1>3 DEF CreateRow
  <2>5. Challenge' = [Challenge EXCEPT ![s] = ChallengeOf(r)]
    BY <1>0, <2>1, <2>4, OneChallenge
  <2>6. ChallengeOf(r) = [status |-> "open", customer |-> c, wrong |-> 0]
    BY DEF ChallengeOf
  <2>7. Abstract!Issue(s, c)
    BY <2>3, <2>5, <2>6 DEF Abstract!Issue
  <2> QED
    BY <1>0, <2>1, <2>7 DEF Abstract!Next
<1>4. ASSUME NEW h \in Handlers, MarkRowExpired(h) \/ MarkRowExhausted(h)
      PROVE  [Abstract!Next]_(Abstract!vars)
  <2> DEFINE s == task[h].sess
  <2>1. PICK status \in GivenUp : row' = [row EXCEPT ![s] = [row[s] EXCEPT !.status = status]]
    BY <1>4 DEF MarkRowExpired, MarkRowExhausted, SetStatus
  <2>2. s \in Sessions /\ row[s].status \in {"pending"} \cup GivenUp
    BY <1>1, <1>4 DEF MarkRowExpired, MarkRowExhausted, Runs, VerifyStage, StageNeeds
  <2>3. row[s] \in VerificationRow
    BY <1>0, <2>2
  <2>4. Challenge' = [Challenge EXCEPT ![s] = ChallengeOf([row[s] EXCEPT !.status = status])]
    BY <1>0, <2>1, <2>2, OneChallenge
  <2>5. ChallengeOf([row[s] EXCEPT !.status = status]) =
          [status |-> "failed", customer |-> row[s].customer, wrong |-> row[s].attempts]
    BY <2>3 DEF ChallengeOf, VerificationRow
  <2>6. Challenge[s] = ChallengeOf(row[s])
    BY <2>2 DEF Challenge
  <2>7. CASE row[s].status = "pending"
    <3>1. ChallengeOf(row[s]) =
            [status |-> "open", customer |-> row[s].customer, wrong |-> row[s].attempts]
      BY <2>7 DEF ChallengeOf
    <3>3. ChallengeOf([row[s] EXCEPT !.status = status]) =
            [Challenge[s] EXCEPT !.status = "failed"]
      BY <2>5, <2>6, <3>1
    <3>4. Challenge' = [Challenge EXCEPT ![s] = [Challenge[s] EXCEPT !.status = "failed"]]
      BY <2>4, <3>3
    <3>5. Challenge[s].status = "open"
      BY <2>6, <3>1
    <3>2. Abstract!Fail(s)
      BY <3>4, <3>5 DEF Abstract!Fail
    <3> QED
      BY <2>2, <3>2 DEF Abstract!Next
  <2>8. CASE row[s].status \in GivenUp
    <3>1. ChallengeOf(row[s]) =
            [status |-> "failed", customer |-> row[s].customer, wrong |-> row[s].attempts]
      BY <2>8 DEF ChallengeOf
    <3>2. Challenge' = Challenge
      BY <2>2, <2>4, <2>5, <2>6, <3>1 DEF Challenge
    <3> QED
      BY <1>2, <3>2
  <2> QED
    BY <2>2, <2>7, <2>8
<1>5. ASSUME NEW h \in Handlers, IncrementAttempt(h) PROVE Abstract!Next
  <2> DEFINE s == task[h].sess
             r == [row[s] EXCEPT !.attempts = row[s].attempts + 1]
  <2>1. s \in Sessions /\ row[s].status = "pending" /\ row[s].attempts < MaxAttempts
    BY <1>1, <1>5 DEF IncrementAttempt, Runs, VerifyStage, StageNeeds
  <2>2. row[s] \in VerificationRow
    BY <1>0, <2>1
  <2>3. row' = [row EXCEPT ![s] = r]
    BY <1>5 DEF IncrementAttempt
  <2>4. Challenge' = [Challenge EXCEPT ![s] = ChallengeOf(r)]
    BY <1>0, <2>1, <2>3, OneChallenge
  <2>5. Challenge[s] =
          [status |-> "open", customer |-> row[s].customer, wrong |-> row[s].attempts]
    BY <2>1 DEF Challenge, ChallengeOf
  <2>6. ChallengeOf(r) =
          [status |-> "open", customer |-> row[s].customer, wrong |-> row[s].attempts + 1]
    BY <2>1, <2>2 DEF ChallengeOf, VerificationRow
  <2> HIDE DEF r
  <2>8. ChallengeOf(r) = [Challenge[s] EXCEPT !.wrong = Challenge[s].wrong + 1]
    BY <2>5, <2>6
  <2>7. Abstract!WrongCode(s)
    BY <2>1, <2>4, <2>5, <2>8 DEF Abstract!WrongCode, Abstract!MaxWrong
  <2> QED
    BY <2>1, <2>7 DEF Abstract!Next
<1>6. ASSUME NEW h \in Handlers, AcceptCode(h) PROVE Abstract!Next
  <2> DEFINE s == task[h].sess
             r == [row[s] EXCEPT !.status = "verified"]
  <2>1. s \in Sessions /\ row[s].status = "pending" /\ row[s].attempts < MaxAttempts
    BY <1>1, <1>6 DEF AcceptCode, Runs, VerifyStage, StageNeeds
  <2>2. row[s] \in VerificationRow
    BY <1>0, <2>1
  <2>3. row' = [row EXCEPT ![s] = r]
    BY <1>6 DEF AcceptCode, SetStatus
  <2>4. Challenge' = [Challenge EXCEPT ![s] = ChallengeOf(r)]
    BY <1>0, <2>1, <2>3, OneChallenge
  <2>5. Challenge[s] =
          [status |-> "open", customer |-> row[s].customer, wrong |-> row[s].attempts]
    BY <2>1 DEF Challenge, ChallengeOf
  <2>6. ChallengeOf(r) =
          [status |-> "proven", customer |-> row[s].customer, wrong |-> row[s].attempts]
    BY <2>1, <2>2 DEF ChallengeOf, VerificationRow
  <2> HIDE DEF r
  <2>8. ChallengeOf(r) = [Challenge[s] EXCEPT !.status = "proven"]
    BY <2>5, <2>6
  <2>7. Abstract!RightCode(s)
    BY <2>1, <2>4, <2>5, <2>8 DEF Abstract!RightCode, Abstract!MaxWrong
  <2> QED
    BY <2>1, <2>7 DEF Abstract!Next
<1>7. ASSUME NEW s \in Sessions, CodeLapses(s) PROVE UNCHANGED Abstract!vars
  <2> DEFINE r == [row[s] EXCEPT !.lapsed = TRUE]
  <2>1. row' = [row EXCEPT ![s] = r]
    BY <1>7 DEF CodeLapses
  <2>2. row[s] \in VerificationRow
    BY <1>0
  <2>3. r.status = row[s].status /\ r.customer = row[s].customer
                                /\ r.attempts = row[s].attempts
    BY <2>2 DEF VerificationRow
  <2>4. Challenge' = [Challenge EXCEPT ![s] = ChallengeOf(r)]
    BY <1>0, <2>1, OneChallenge
  <2> HIDE DEF r
  <2>5. ChallengeOf(r) = ChallengeOf(row[s])
    BY <2>3 DEF ChallengeOf
  <2>6. Challenge' = Challenge
    BY <2>4, <2>5 DEF Challenge
  <2> QED
    BY <1>2, <2>6
<1>8. ASSUME NEW c \in Customers, DeleteCustomer(c) PROVE UNCHANGED Abstract!vars
  <2>1. row' = row
    BY <1>8 DEF DeleteCustomer
  <2> QED
    BY <1>2, <2>1 DEF Challenge, ChallengeOf
<1> QED
  BY <1>3, <1>4, <1>5, <1>6, <1>7, <1>8 DEF RowWrite

\* A lookup that passes the gate discloses to the customer who proved their code.
LEMMA LookupImplements ==
  ASSUME GateInv, NEW h \in Handlers, LookupShipments(h)
  PROVE  Abstract!Next
<1> DEFINE s == task[h].sess
           c == task[h].seen.customer
<1>1. created \subseteq Sessions /\ StageFits(h) /\ ContextFits(h)
  BY DEF GateInv, TypeOK, StageInv, ContextInv
<1>2. c # None /\ disclosed' = disclosed \cup {<<s, c>>} /\ row' = row
  BY DEF LookupShipments, GateAllows
<1>3. s \in Sessions /\ row[s].status = "verified" /\ row[s].customer = c
  BY <1>1, <1>2 DEF LookupShipments, Runs, StageFits, ContextFits
<1>4. Challenge[s].status = "proven" /\ Challenge[s].customer = c
  BY <1>3 DEF Challenge, ChallengeOf
<1>5. Challenge' = Challenge
  BY <1>2 DEF Challenge, ChallengeOf
<1>6. Abstract!Disclose(s)
  BY <1>2, <1>4, <1>5 DEF Abstract!Disclose
<1> QED
  BY <1>3, <1>6 DEF Abstract!Next

\* A step that writes a row discloses nothing.
LEMMA RowWritesDiscloseNothing == RowWrite => UNCHANGED disclosed
BY DEF RowWrite, CreateRow, MarkRowExpired, MarkRowExhausted, IncrementAttempt, AcceptCode,
   SetStatus, CodeLapses, DeleteCustomer

\* The gate keeps the promise of OtpChallenge: a code is accepted at most once, while
\* it is open and before its third wrong entry, an open or accepted code is never
\* replaced, and only the owner of an accepted code has shipments read.
THEOREM GateImplementsChallenge == Spec => ImplementsChallenge
<1>1. Init => Abstract!Init
  BY DEF Init, Abstract!Init, Abstract!NoChallenge, Challenge, ChallengeOf, AbsentRow
<1>2. GateInv /\ [Next]_vars => [Abstract!Next]_(Abstract!vars)
  <2> SUFFICES ASSUME GateInv, [Next]_vars PROVE [Abstract!Next]_(Abstract!vars)
    OBVIOUS
  <2>1. CASE RowWrite
    BY <2>1, RowStepsImplement, RowWritesDiscloseNothing
  <2>2. CASE \E h \in Handlers : LookupShipments(h)
    BY <2>2, LookupImplements
  <2>3. CASE UNCHANGED <<row, disclosed>>
    BY <2>3 DEF Abstract!vars, Challenge, ChallengeOf
  <2> QED
    BY <2>1, <2>2, <2>3, RowWriters, Disclosers
<1> QED
  BY <1>1, <1>2, GateInvariant, PTL DEF Spec, ImplementsChallenge, Abstract!Spec

-----------------------------------------------------------------------------
(***************************************************************************)
(* Without crashes and database errors the session and the verification    *)
(* row tell the same story whenever the event loop is free.  Between two   *)
(* writes of one handler they do not, so the invariant says how far each   *)
(* stage has got.                                                          *)
(***************************************************************************)

\* The states that fit what a verification row says.
StatesOf(status) ==
  CASE status = "absent" -> {"anonymous", "collecting_identity", "escalated_to_human"}
    [] status = "pending" -> {"code_sent", "awaiting_code", "escalated_to_human"}
    [] status = "verified" -> {"verified", "escalated_to_human"}
    [] status \in GivenUp -> {"code_expired", "collecting_identity", "escalated_to_human"}

Agrees(s) == session[s].state \in StatesOf(row[s].status)

CodeStates == {"code_sent", "awaiting_code"}

\* What the tables say of a session whose handler is about to do its next write.
Fits(status, state, stage) ==
  /\ stage \in {"mark_expired", "mark_exhausted", "increment_attempt", "accept_code",
                "await_code"} => status = "pending" /\ state \in CodeStates
  /\ stage \in {"expire_session", "verify_session"} => state \in CodeStates
  /\ stage = "mark_code_sent" => status = "pending" /\ state \in StatesOf("absent")
  /\ stage \notin {"expire_session", "verify_session", "mark_code_sent"} =>
       state \in StatesOf(status)

Halfway(s, stage) == Fits(row[s].status, session[s].state, stage)

\* Only the session of the handler that holds the loop may be between two writes.
AgreementInv ==
  /\ loop # None => /\ task[loop].sess \in Sessions
                    /\ Halfway(task[loop].sess, task[loop].stage)
  /\ \A s \in Sessions : loop = None \/ s # task[loop].sess => Agrees(s)

\* The four rows of the table.
LEMMA StatesOfEach ==
  /\ StatesOf("absent") = {"anonymous", "collecting_identity", "escalated_to_human"}
  /\ StatesOf("pending") = {"code_sent", "awaiting_code", "escalated_to_human"}
  /\ StatesOf("verified") = {"verified", "escalated_to_human"}
  /\ \A status \in GivenUp :
       StatesOf(status) = {"code_expired", "collecting_identity", "escalated_to_human"}
BY DEF StatesOf, GivenUp

LEMMA AgreementIsEnough == AgreementInv => TablesAgree
BY DEF AgreementInv, TablesAgree, Agrees, StatesOf

LEMMA InitAgreement == Init => AgreementInv
<1> SUFFICES ASSUME Init PROVE AgreementInv  OBVIOUS
<1>1. ASSUME NEW s \in Sessions PROVE Agrees(s)
  <2>1. row[s].status = "absent" /\ session[s].state = "anonymous"
    BY DEF Init, AbsentRow
  <2> QED  BY <2>1, StatesOfEach DEF Agrees
<1> QED  BY <1>1 DEF Init, AgreementInv

-----------------------------------------------------------------------------
\* Neither column that counts is written.
Unmoved(s) == row'[s].status = row[s].status /\ session'[s].state = session[s].state

\* Steps that no handler takes, and those that begin or end a turn's wait.
LEMMA QuietKeeps ==
  ASSUME AgreementInv, GateInv, \A s \in Sessions : Unmoved(s),
         UNCHANGED <<task, loop>> \/ (loop = None /\ loop' = None)
  PROVE  AgreementInv'
<1>1. CASE loop = None /\ loop' = None
  BY <1>1 DEF AgreementInv, Agrees, Unmoved
<1>2. CASE loop # None /\ UNCHANGED <<task, loop>>
  BY <1>2 DEF AgreementInv, Halfway, Agrees, Unmoved
<1> QED  BY <1>1, <1>2

\* A step of handler h for session s: only s may move, and what its next stage
\* needs, or the end of the handler, has to be looked at.
LEMMA StepKeeps ==
  ASSUME AgreementInv, NEW h \in Handlers, NEW s \in Sessions,
         loop \in {None, h}, loop' \in {None, h},
         loop = h => task[h].sess = s,
         \A x \in Sessions \ {s} : Unmoved(x),
         loop' = None => Agrees(s)',
         loop' = h => task'[h].sess = s /\ Halfway(s, task[h].stage)'
  PROVE  AgreementInv'
<1> USE ConstantsAssumption
<1>1. ASSUME NEW x \in Sessions \ {s} PROVE Agrees(x)'
  <2>1. Agrees(x)  BY DEF AgreementInv
  <2> QED  BY <2>1 DEF Agrees, Unmoved
<1>2. CASE loop' = None  BY <1>1, <1>2 DEF AgreementInv
<1>3. CASE loop' = h
  <2>1. task'[loop'].sess = s /\ Halfway(s, task[loop].stage)'  BY <1>3
  <2> QED  BY <1>1, <2>1 DEF AgreementInv
<1> QED  BY <1>2, <1>3

\* Stages that need no more than agreement.
PlainStage ==
  Tool \cup {"plan_chat_turn", "dispatch", "set_conversation_messages", "reload",
            "touch_session", "respond", "note_exhausted", "note_succeeded"}

LEMMA PlainFits ==
  ASSUME NEW status, NEW state, NEW stage \in PlainStage
  PROVE  Fits(status, state, stage) <=> state \in StatesOf(status)
BY DEF PlainStage, Tool, Fits

\* A handler that writes neither table and goes from a plain stage to another.
LEMMA PlainKeeps ==
  ASSUME AgreementInv, NEW h \in Handlers, NEW s \in Sessions, task[h].sess = s,
         loop \in {None, h}, loop' \in {None, h},
         task[h].stage \in PlainStage,
         \A x \in Sessions : Unmoved(x),
         loop' = h => task'[h].sess = s /\ task'[h].stage \in PlainStage
  PROVE  AgreementInv'
<1>1. Agrees(s)
  <2>1. CASE loop = h
    <3>1. Halfway(s, task[h].stage)  BY <2>1, ConstantsAssumption DEF AgreementInv
    <3> QED  BY <3>1, PlainFits DEF Halfway, Agrees
  <2>2. CASE loop = None  BY <2>2 DEF AgreementInv
  <2> QED  BY <2>1, <2>2
<1>2. session'[s].state \in StatesOf(row'[s].status)
  BY <1>1 DEF Agrees, Unmoved
<1>3. Agrees(s)'  BY <1>2 DEF Agrees
<1>4. ASSUME loop' = h PROVE Halfway(s, task[h].stage)'
  <2>1. Fits(row'[s].status, session'[s].state, task'[h].stage)
    BY <1>2, <1>4, PlainFits
  <2> QED  BY <2>1 DEF Halfway
<1> QED  BY <1>3, <1>4, StepKeeps

\* update_session by h: it writes what fits its next stage, or it raises when the
\* tables agree.
LEMMA UpdateAgrees ==
  ASSUME AgreementInv, GateInv, NEW h \in Handlers, NEW s \in Sessions, task[h].sess = s,
         loop = h, NEW to, NEW customer, NEW next, UpdateSession(h, to, customer, next),
         TransitionAllowed(session[s].state, to, customer) =>
           Fits(row[s].status, to, next),
         ~TransitionAllowed(session[s].state, to, customer) => Agrees(s)
  PROVE  AgreementInv'
<1> USE ConstantsAssumption
<1>1. task \in [Handlers -> Task] /\ session \in [Sessions -> SessionRow]
  BY DEF GateInv, TypeOK
<1>2. row' = row  BY DEF UpdateSession, Raise, store
<1>3. CASE /\ TransitionAllowed(session[s].state, to, customer)
           /\ session' = [session EXCEPT ![s].state = to, ![s].customer = customer]
           /\ Goto(h, next) /\ loop' = loop
  <2>1. /\ session'[s].state = to
        /\ \A x \in Sessions \ {s} : session'[x] = session[x]
    BY <1>1, <1>3 DEF SessionRow
  <2>2. task'[h].sess = s /\ task'[h].stage = next
    BY <1>1, <1>3 DEF Goto, Task
  <2>3. Fits(row'[s].status, session'[s].state, task'[h].stage)
    BY <1>2, <1>3, <2>1, <2>2
  <2>4. Halfway(s, task[h].stage)'  BY <2>3 DEF Halfway
  <2>5. \A x \in Sessions \ {s} : Unmoved(x)  BY <1>2, <2>1 DEF Unmoved
  <2>6. loop' # None  BY <1>3
  <2> QED  BY <1>3, <2>2, <2>4, <2>5, <2>6, StepKeeps
<1>4. CASE ~TransitionAllowed(session[s].state, to, customer) /\ Raise(h)
  <2>1. session' = session /\ loop' = None  BY <1>4 DEF Raise, Finish, store
  <2>2. Agrees(s)'  BY <1>2, <1>4, <2>1 DEF Agrees
  <2>3. \A x \in Sessions \ {s} : Unmoved(x)  BY <1>2, <2>1 DEF Unmoved
  <2> QED  BY <2>1, <2>2, <2>3, StepKeeps
<1> QED  BY <1>3, <1>4 DEF UpdateSession

\* A write of the row's status by h, on to stage next.
LEMMA StatusAgrees ==
  ASSUME AgreementInv, GateInv, NEW h \in Handlers, NEW s \in Sessions, task[h].sess = s,
         loop = h, loop' = h, session' = session, NEW next, Goto(h, next),
         \A x \in Sessions \ {s} : row'[x] = row[x],
         Fits(row'[s].status, session[s].state, next)
  PROVE  AgreementInv'
<1> USE ConstantsAssumption
<1>1. task'[h].sess = s /\ task'[h].stage = next
  BY DEF GateInv, TypeOK, Goto, Task
<1>2. Fits(row'[s].status, session'[s].state, task'[h].stage)  BY <1>1
<1>3. Halfway(s, task[h].stage)'  BY <1>2 DEF Halfway
<1>4. \A x \in Sessions \ {s} : Unmoved(x)  BY DEF Unmoved
<1> QED  BY <1>1, <1>3, <1>4, StepKeeps

-----------------------------------------------------------------------------
\* The steps.

LEMMA ChatAgrees ==
  ASSUME AgreementInv, GateInv, NEW h \in Handlers, ChatStep(h) PROVE AgreementInv'
<1> USE ConstantsAssumption
<1>1. /\ task \in [Handlers -> Task] /\ StageFits(h) /\ created \subseteq Sessions
      /\ session \in [Sessions -> SessionRow] /\ TypeOK /\ StageInv
  BY DEF GateInv, TypeOK, StageInv
<1>2. ASSUME UNCHANGED <<row, session>> PROVE \A x \in Sessions : Unmoved(x)
  BY <1>2 DEF Unmoved
<1>3. ASSUME SameColumns, row' = row PROVE \A x \in Sessions : Unmoved(x)
  BY <1>3 DEF Unmoved, SameColumns
<1>4. CASE (\E s \in Sessions : ChatCreate(h, s) \/ ChatResume(h, s)) \/ LLMFails(h)
  <2>1. UNCHANGED <<row, session>> /\ loop = None /\ loop' = None
    BY <1>4 DEF ChatCreate, ChatResume, LLMFails, Raise, Finish, store
  <2> QED  BY <1>2, <2>1, QuietKeeps
<1>5. ASSUME task[h].stage \in PlainStage, loop \in {None, h}, loop' \in {None, h},
             \A x \in Sessions : Unmoved(x),
             loop' = h => \E stage \in PlainStage :
               task'[h].stage = stage /\ task'[h].sess = task[h].sess
      PROVE  AgreementInv'
  <2>1. task[h].sess \in Sessions
    BY <1>1, <1>5 DEF StageFits, PlainStage, Tool
  <2> QED  BY <1>5, <2>1, PlainKeeps
<1>6. ASSUME NEW stage \in PlainStage, Goto(h, stage)
      PROVE  task'[h].stage = stage /\ task'[h].sess = task[h].sess
  BY <1>1, <1>6 DEF Goto, Task
<1>7. CASE LLMAnswers(h)
  <2>1. PICK next \in PlainStage : Goto(h, next)  BY <1>7 DEF LLMAnswers, PlainStage
  <2> QED
    BY <1>2, <1>5, <1>6, <1>7, <2>1 DEF LLMAnswers, PlainStage, store
<1>8. CASE NextToolCall(h)
  <2>1. PICK next \in PlainStage : Goto(h, next)  BY <1>8 DEF NextToolCall, PlainStage
  <2> QED  BY <1>2, <1>5, <1>6, <1>8, <2>1 DEF NextToolCall, Runs, PlainStage
<1>9. CASE Refresh(h)
  <2>1. /\ task[h].stage = "dispatch" /\ loop = h /\ loop' \in {None, h}
        /\ UNCHANGED <<row, session>>
    BY <1>9 DEF Refresh, RefreshUpTo, Runs, store
  <2>2. /\ task'[h].sess = task[h].sess
        /\ task'[h].stage \in {"plan_chat_turn", "set_conversation_messages"}
    BY <1>1, <1>9 DEF Refresh, RefreshUpTo, Task
  <2> QED  BY <1>2, <1>5, <2>1, <2>2 DEF PlainStage
<1>10. CASE RefreshFindsNone(h)
  <2>1. SameColumns /\ row' = row  BY <1>1, <1>10, FlagWrites DEF RefreshFindsNone
  <2> QED
    BY <1>3, <1>5, <1>10, <2>1 DEF RefreshFindsNone, Runs, Finish, PlainStage
<1>11. CASE StoreTranscript(h)
  <2>1. "reload" \in PlainStage  BY DEF PlainStage
  <2> QED
    BY <1>2, <1>5, <1>6, <1>11, <2>1 DEF StoreTranscript, Runs, PlainStage
<1>12. CASE Reload(h)
  <2>1. SameColumns /\ row' = row  BY <1>1, <1>12, FlagWrites DEF Reload
  <2>2. "touch_session" \in PlainStage  BY DEF PlainStage
  <2>3. task[h].stage \in PlainStage /\ loop = h
    BY <1>12 DEF Reload, Runs, PlainStage
  <2>4. CASE Goto(h, "touch_session") /\ UNCHANGED loop
    BY <1>3, <1>5, <1>6, <2>1, <2>2, <2>3, <2>4
  <2>5. CASE Finish(h)  BY <1>3, <1>5, <2>1, <2>3, <2>5 DEF Finish
  <2> QED  BY <1>12, <2>4, <2>5 DEF Reload
<1>13. CASE TouchSession(h)
  <2>1. SameColumns /\ row' = row  BY <1>1, <1>13, FlagWrites DEF TouchSession
  <2> QED
    BY <1>3, <1>5, <1>13, <2>1 DEF TouchSession, Runs, Finish, PlainStage
<1> QED
  BY <1>4, <1>7, <1>8, <1>9, <1>10, <1>11, <1>12, <1>13 DEF ChatStep

LEMMA ToolAgrees ==
  ASSUME AgreementInv, GateInv, NEW h \in Handlers, ToolStep(h) PROVE AgreementInv'
<1> USE ConstantsAssumption
<1>1. /\ task \in [Handlers -> Task] /\ StageFits(h) /\ created \subseteq Sessions
      /\ session \in [Sessions -> SessionRow] /\ row \in [Sessions -> VerificationRow]
  BY DEF GateInv, TypeOK, StageInv
<1>2. loop = h /\ task[h].stage \in Tool \cup {"mark_code_sent"}
  BY DEF ToolStep, UnknownTool, GateDenies, MalformedArguments, LookupShipments,
     RequestIdentityInfo, EscalateToHuman, StartRefused, CreateRow, CreateRowRaises,
     MarkCodeSent, Runs, Tool
<1>3. PICK s \in Sessions : task[h].sess = s
  BY <1>2, <1>1 DEF StageFits, Tool
<1>4. Halfway(s, task[h].stage)  BY <1>2, <1>3 DEF AgreementInv
<1>5. "dispatch" \in PlainStage /\ Tool \subseteq PlainStage  BY DEF PlainStage
<1>6. ASSUME task[h].stage \in Tool PROVE session[s].state \in StatesOf(row[s].status)
  BY <1>4, <1>5, <1>6, PlainFits DEF Halfway
<1>7. row[s].status \in RowStatus  BY <1>1 DEF VerificationRow
<1>8. ASSUME task[h].stage \in Tool, UNCHANGED <<row, session>>,
             \/ Goto(h, "dispatch") /\ loop' = loop
             \/ Finish(h)
      PROVE  AgreementInv'
  <2>1. \A x \in Sessions : Unmoved(x)  BY <1>8 DEF Unmoved
  <2>2. CASE Goto(h, "dispatch") /\ loop' = loop
    <3>1. task'[h].sess = s /\ task'[h].stage = "dispatch"
      BY <1>1, <1>3, <2>2 DEF Goto, Task
    <3> QED  BY <1>2, <1>3, <1>5, <1>8, <2>1, <2>2, <3>1, PlainKeeps
  <2>3. CASE Finish(h)
    BY <1>2, <1>3, <1>5, <1>8, <2>1, <2>3, PlainKeeps DEF Finish
  <2> QED  BY <1>8, <2>2, <2>3
<1>9. CASE UnknownTool(h) \/ LookupShipments(h) \/ StartRefused(h)
  BY <1>8, <1>9 DEF UnknownTool, LookupShipments, StartRefused, Runs, Tool
<1>10. CASE GateDenies(h) \/ MalformedArguments(h) \/ CreateRowRaises(h)
  BY <1>8, <1>10 DEF GateDenies, MalformedArguments, CreateRowRaises, Runs, Raise, store, Tool
<1>11. CASE RequestIdentityInfo(h)
  <2>1. session[s].state \in StatesOf(row[s].status)
    BY <1>6, <1>11 DEF RequestIdentityInfo, Runs, Tool
  <2>2. ASSUME TransitionAllowed(session[s].state, "collecting_identity", session[s].customer)
        PROVE  "collecting_identity" \in StatesOf(row[s].status)
    <3>1. session[s].state \in {"anonymous", "collecting_identity", "code_expired"}
      BY <2>2 DEF TransitionAllowed, VALID_TRANSITIONS, ESCALATABLE
    <3> QED  BY <1>7, <2>1, <3>1, StatesOfEach DEF RowStatus, GivenUp
  <2>3. TransitionAllowed(session[s].state, "collecting_identity", session[s].customer) =>
          Fits(row[s].status, "collecting_identity", "dispatch")
    BY <1>5, <2>2, PlainFits
  <2> QED  BY <1>2, <1>3, <1>11, <2>1, <2>3, UpdateAgrees DEF RequestIdentityInfo, Agrees
<1>12. CASE EscalateToHuman(h)
  <2>1. session[s].state \in StatesOf(row[s].status)
    BY <1>6, <1>12 DEF EscalateToHuman, Runs, Tool
  <2>2. "escalated_to_human" \in StatesOf(row[s].status)
    BY <1>7, StatesOfEach DEF RowStatus, GivenUp
  <2>3. Fits(row[s].status, "escalated_to_human", "dispatch")
    BY <1>5, <2>2, PlainFits
  <2> QED  BY <1>2, <1>3, <1>12, <2>1, <2>3, UpdateAgrees DEF EscalateToHuman, Agrees
<1>13. CASE MarkCodeSent(h)
  <2>1. row[s].status = "pending" /\ session[s].state \in StatesOf("absent")
    BY <1>4, <1>13 DEF MarkCodeSent, Runs, Halfway, Fits
  <2>2. Fits(row[s].status, "code_sent", "dispatch")
    BY <1>5, <2>1, PlainFits, StatesOfEach
  <2>3. ASSUME ~TransitionAllowed(session[s].state, "code_sent", session[s].customer)
        PROVE  Agrees(s)
    <3>1. session[s].state = "escalated_to_human"
      BY <2>1, <2>3, StatesOfEach DEF TransitionAllowed, VALID_TRANSITIONS, TargetStateAllows
    <3> QED  BY <2>1, <3>1, StatesOfEach DEF Agrees
  <2> QED  BY <1>2, <1>3, <1>13, <2>2, <2>3, UpdateAgrees DEF MarkCodeSent
<1>14. ASSUME NEW c \in customers, CreateRow(h, c) PROVE AgreementInv'
  <2>1. row[s].status = "absent" /\ session[s].state \in StatesOf("absent")
    BY <1>3, <1>6, <1>14 DEF CreateRow, Runs, Tool
  <2>2. /\ row'[s].status = "pending"
        /\ \A x \in Sessions \ {s} : row'[x] = row[x]
    BY <1>1, <1>3, <1>14 DEF CreateRow
  <2>3. Fits(row'[s].status, session[s].state, "mark_code_sent")
    BY <2>1, <2>2 DEF Fits
  <2> QED  BY <1>2, <1>3, <1>14, <2>2, <2>3, StatusAgrees DEF CreateRow
<1> QED  BY <1>9, <1>10, <1>11, <1>12, <1>13, <1>14 DEF ToolStep

LEMMA VerifyAgrees ==
  ASSUME AgreementInv, GateInv, NEW h \in Handlers, VerifyStep(h) PROVE AgreementInv'
<1> USE ConstantsAssumption
<1>1. /\ task \in [Handlers -> Task] /\ StageFits(h) /\ created \subseteq Sessions
      /\ session \in [Sessions -> SessionRow] /\ row \in [Sessions -> VerificationRow]
      /\ customers \subseteq Customers /\ RowInv /\ issued \subseteq created
  BY DEF GateInv, TypeOK, StageInv
<1>2. ASSUME NEW s \in Sessions, NEW right \in BOOLEAN, VerifyCode(h, s, right)
      PROVE  AgreementInv'
  <2>1. Agrees(s)  BY <1>2 DEF VerifyCode, AgreementInv
  <2>2. row[s].status = "pending" /\ session[s].state \in CodeStates
    BY <1>1, <1>2, <2>1, StatesOfEach
    DEF VerifyCode, Agrees, VerificationRow, RowStatus, GivenUp, CodeStates
  <2>3. CodeOutcome(s, right) \in
          {"mark_expired", "mark_exhausted", "increment_attempt", "accept_code"}
    <3>1. row[s].attempts \in Int /\ row[s].lapsed \in BOOLEAN
      BY <1>1 DEF VerificationRow, MaxAttempts
    <3> QED  BY <3>1 DEF CodeOutcome, MaxAttempts
  <2>4. task'[h].sess = s /\ task'[h].stage = CodeOutcome(s, right)
    BY <1>1, <1>2 DEF VerifyCode
  <2>5. UNCHANGED <<row, session>> /\ loop = None /\ loop' = h
    BY <1>2 DEF VerifyCode, store
  <2>6. Fits(row'[s].status, session'[s].state, task'[h].stage)
    BY <2>2, <2>3, <2>4, <2>5, StatesOfEach DEF Fits, CodeStates
  <2>7. Halfway(s, task[h].stage)'  BY <2>6 DEF Halfway
  <2>8. \A x \in Sessions \ {s} : Unmoved(x)  BY <2>5 DEF Unmoved
  <2> QED  BY <2>4, <2>5, <2>7, <2>8, StepKeeps
<1>3. CASE ~(\E s \in Sessions, right \in BOOLEAN : VerifyCode(h, s, right))
  <2>1. loop = h /\ task[h].stage \in VerifyStage
    BY <1>3 DEF VerifyStep, MarkRowExpired, MarkRowExhausted, ExpireSession, NoteExhausted,
       IncrementAttempt, AwaitCode, Respond, AcceptCode, VerifySession, NoteSucceeded, Runs,
       VerifyStage
  <2>2. PICK s \in Sessions : task[h].sess = s
    BY <1>1, <2>1 DEF StageFits, VerifyStage
  <2>3. Halfway(s, task[h].stage) /\ StageNeeds(row[s], task[h].stage)
    BY <1>1, <2>1, <2>2 DEF AgreementInv, StageFits, VerifyStage
  <2>4. row[s].status \in RowStatus  BY <1>1 DEF VerificationRow
  <2>5. CASE MarkRowExpired(h) \/ MarkRowExhausted(h)
    <3>1. session[s].state \in CodeStates
      BY <2>3, <2>5 DEF MarkRowExpired, MarkRowExhausted, Runs, Halfway, Fits
    <3>2. /\ Goto(h, "expire_session") /\ session' = session /\ loop' = loop
          /\ \A x \in Sessions \ {s} : row'[x] = row[x]
      BY <1>1, <2>2, <2>5 DEF MarkRowExpired, MarkRowExhausted, SetStatus
    <3>3. Fits(row'[s].status, session[s].state, "expire_session")  BY <3>1 DEF Fits
    <3> QED  BY <2>1, <2>2, <3>2, <3>3, StatusAgrees
  <2>6. CASE AcceptCode(h)
    <3>1. session[s].state \in CodeStates
      BY <2>3, <2>6 DEF AcceptCode, Runs, Halfway, Fits
    <3>2. /\ Goto(h, "verify_session") /\ session' = session /\ loop' = loop
          /\ \A x \in Sessions \ {s} : row'[x] = row[x]
      BY <1>1, <2>2, <2>6 DEF AcceptCode, SetStatus
    <3>3. Fits(row'[s].status, session[s].state, "verify_session")  BY <3>1 DEF Fits
    <3> QED  BY <2>1, <2>2, <3>2, <3>3, StatusAgrees
  <2>7. CASE IncrementAttempt(h)
    <3>1. row[s].status = "pending" /\ session[s].state \in CodeStates
      BY <2>3, <2>7 DEF IncrementAttempt, Runs, Halfway, Fits
    <3>2. /\ row'[s].status = row[s].status
          /\ \A x \in Sessions \ {s} : row'[x] = row[x]
      BY <1>1, <2>2, <2>7 DEF IncrementAttempt, VerificationRow
    <3>3. Fits(row'[s].status, session[s].state, "await_code")
      BY <3>1, <3>2, StatesOfEach DEF Fits, CodeStates
    <3> QED  BY <2>1, <2>2, <2>7, <3>2, <3>3, StatusAgrees DEF IncrementAttempt
  <2>8. CASE ExpireSession(h)
    <3>1. row[s].status \in GivenUp /\ session[s].state \in CodeStates
      BY <2>3, <2>8 DEF ExpireSession, Runs, Halfway, Fits, StageNeeds
    <3>2. TransitionAllowed(session[s].state, "code_expired", None)
      BY <3>1 DEF CodeStates, TransitionAllowed, VALID_TRANSITIONS, TargetStateAllows
    <3>3. Fits(row[s].status, "code_expired", "note_exhausted")
      BY <3>1, PlainFits, StatesOfEach DEF PlainStage
    <3> QED  BY <2>1, <2>2, <2>8, <3>2, <3>3, UpdateAgrees DEF ExpireSession
  <2>9. CASE AwaitCode(h)
    <3>1. row[s].status = "pending" /\ session[s].state \in CodeStates
      BY <2>3, <2>9 DEF AwaitCode, Runs, Halfway, Fits
    <3>2. TransitionAllowed(session[s].state, "awaiting_code", task[h].seen.customer)
      BY <3>1 DEF CodeStates, TransitionAllowed, VALID_TRANSITIONS, TargetStateAllows
    <3>3. \A next \in {"mark_exhausted", "respond"} :
            Fits(row[s].status, "awaiting_code", next)
      BY <3>1, StatesOfEach DEF Fits, CodeStates
    <3>4. PICK next \in {"mark_exhausted", "respond"} :
            UpdateSession(h, "awaiting_code", task[h].seen.customer, next)
      BY <2>9 DEF AwaitCode
    <3> QED  BY <2>1, <2>2, <3>2, <3>3, <3>4, UpdateAgrees
  <2>10. CASE VerifySession(h)
    <3>1. row[s].status = "verified" /\ session[s].state \in CodeStates
      BY <2>3, <2>10 DEF VerifySession, Runs, Halfway, Fits, StageNeeds
    <3>2. row[s].customer # None  BY <1>1, <3>1 DEF RowInv
    <3>3. TransitionAllowed(session[s].state, "verified", row[s].customer)
      BY <3>1, <3>2 DEF CodeStates, TransitionAllowed, VALID_TRANSITIONS, TargetStateAllows
    <3>4. Fits(row[s].status, "verified", "note_succeeded")
      BY <3>1, PlainFits, StatesOfEach DEF PlainStage
    <3> QED  BY <2>1, <2>2, <2>10, <3>3, <3>4, UpdateAgrees DEF VerifySession
  <2>11. CASE Respond(h) \/ NoteExhausted(h) \/ NoteSucceeded(h)
    <3>1. UNCHANGED <<row, session>> /\ loop' = None
      BY <2>11 DEF Respond, NoteExhausted, NoteSucceeded, AppendNote, Finish, store
    <3>2. task[h].stage \in PlainStage
      BY <2>11 DEF Respond, NoteExhausted, NoteSucceeded, Runs, PlainStage
    <3>3. \A x \in Sessions : Unmoved(x)  BY <3>1 DEF Unmoved
    <3> QED  BY <2>1, <2>2, <3>1, <3>2, <3>3, PlainKeeps
  <2> QED
    BY <1>3, <2>5, <2>6, <2>7, <2>8, <2>9, <2>10, <2>11 DEF VerifyStep
<1> QED  BY <1>2, <1>3

\* Only without faults: a crash leaves the tables where the handler left them.
LEMMA OutsideAgrees ==
  ASSUME AgreementInv, GateInv, ~Faults, OutsideStep PROVE AgreementInv'
<1>1. /\ session \in [Sessions -> SessionRow] /\ row \in [Sessions -> VerificationRow]
      /\ TypeOK /\ StageInv
  BY DEF GateInv, TypeOK
<1>2. ASSUME NEW s \in Sessions,
             \/ MarkSessionExpired(s) \/ SessionLapses(s)
             \/ \E ended \in BOOLEAN : PatchSession(s, ended)
      PROVE  AgreementInv'
  <2>1. SameColumns  BY <1>1, <1>2, FlagWrites
  <2>2. UNCHANGED <<row, task, loop>>
    BY <1>2 DEF MarkSessionExpired, SessionLapses, PatchSession
  <2>3. \A x \in Sessions : Unmoved(x)  BY <2>1, <2>2 DEF Unmoved, SameColumns
  <2> QED  BY <2>2, <2>3, QuietKeeps
<1>3. ASSUME NEW s \in Sessions, CodeLapses(s) PROVE AgreementInv'
  <2>1. \A x \in Sessions : Unmoved(x)
    BY <1>1, <1>3 DEF CodeLapses, Unmoved, VerificationRow
  <2> QED  BY <1>3, <2>1, QuietKeeps DEF CodeLapses
<1>4. ASSUME NEW c \in Customers, DeleteCustomer(c) PROVE AgreementInv'
  <2>1. \A x \in Sessions : Unmoved(x)
    BY <1>1, <1>4 DEF DeleteCustomer, Unmoved, SessionRow
  <2> QED  BY <1>4, <2>1, QuietKeeps DEF DeleteCustomer
<1> QED  BY <1>2, <1>3, <1>4 DEF OutsideStep, DatabaseFails, Crash

LEMMA AgreementPreserved ==
  ASSUME ~Faults, GateInv, AgreementInv, [Next]_vars PROVE AgreementInv'
<1>1. CASE UNCHANGED vars
  <2>1. \A x \in Sessions : Unmoved(x)  BY <1>1 DEF vars, Unmoved
  <2> QED  BY <1>1, <2>1, QuietKeeps DEF vars
<1> QED  BY <1>1, ChatAgrees, ToolAgrees, VerifyAgrees, OutsideAgrees DEF Next

\* Without crashes and database errors the two tables, written in separate
\* transactions, agree whenever the event loop is free: no order of tool calls, codes
\* and writes from outside leaves a session and its row telling different stories.
THEOREM TablesAlwaysAgree == ASSUME ~Faults PROVE Spec => []TablesAgree
<1> QED
  BY AgreementPreserved, GateInvariant, InitAgreement, AgreementIsEnough, PTL DEF Spec
=============================================================================
