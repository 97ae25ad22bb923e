------------------------ MODULE CalendarConfirmProofs ------------------------
(***************************************************************************)
(* Theorems about CalendarConfirm, for every set of tokens and actions and *)
(* every value of the times and bounds.                                    *)
(***************************************************************************)
EXTENDS CalendarConfirm, TLAPS

(***************************************************************************)
(* The inductive invariant.  Its parts say, in turn: what the map holds,   *)
(* what is known of a launched write, where the handler is, what a success *)
(* implies, what an unknown outcome implies, and what the audit trail says.*)
(***************************************************************************)

\* The map holds nothing but what was shown to the user, and nothing is shown
\* where the policy does not ask for a confirmation.
MapInv ==
  \A t \in Tokens :
    /\ pending[t] \in {NoAction, proposed[t]}
    /\ proposed[t] # NoAction => policy[proposed[t].type] = "confirm"

LaunchInv ==
  \A n \in Calls :
    /\ n \in Launched => /\ callTok[n] \in Tokens
                         /\ callAct[n] \in Actions
                         /\ callAct[n] = proposed[callTok[n]]
                         /\ policy[callAct[n].type] = "confirm"
                         /\ remote[n] # "none"
    /\ n \notin Launched => /\ callTok[n] = NoToken
                            /\ callAct[n] = NoAction
                            /\ remote[n] = "none"
                            /\ result[n] = "none"

\* While a write is waited for or wound up its action stays in the map.
HandlerInv ==
  pc \in {"calling", "succeeded", "failed"} =>
    /\ calls \in Calls
    /\ cur = callTok[calls]
    /\ pending[cur] # NoAction
    /\ pc = "calling" => result[calls] = "none"
    /\ pc = "succeeded" => result[calls] = "ok"
    /\ pc = "failed" => result[calls] = "err"

\* A success is not confirmable any more, except while it is wound up.
SuccessInv ==
  \A n \in Launched :
    result[n] = "ok" =>
      /\ remote[n] = "applied"
      /\ pending[callTok[n]] = NoAction \/ (pc = "succeeded" /\ n = calls)

\* Neither is a write whose outcome nobody has waited for.
UnknownInv ==
  \A n \in Launched :
    result[n] = "none" =>
      pending[callTok[n]] = NoAction \/ (pc = "calling" /\ n = calls)

Ends == {"executed", "cancelled"}

\* An executed event is about a success and closes its token; a cancelled one
\* closes a token under which nothing succeeded.  Either has one row.
EventInv(e) ==
  /\ e.result \in Ends => audit[e] = 1
  /\ e.result = "executed" =>
       /\ e.call \in Launched
       /\ callTok[e.call] = e.subject
       /\ result[e.call] = "ok"
       /\ pending[e.subject] = NoAction
       /\ e = Event(callAct[e.call].type, "confirm", "executed", e.subject,
                    e.call)
  /\ e.result = "cancelled" =>
       /\ e.subject \in Tokens
       /\ proposed[e.subject] # NoAction
       /\ pending[e.subject] = NoAction
       /\ \A n \in Launched : callTok[n] = e.subject => result[n] # "ok"
       /\ e = Event(proposed[e.subject].type, "confirm", "cancelled",
                    e.subject, 0)

AuditInv == \A e \in DOMAIN audit : EventInv(e)

IInv ==
  /\ TypeOK
  /\ MapInv
  /\ LaunchInv
  /\ HandlerInv
  /\ SuccessInv
  /\ UnknownInv
  /\ RetryOnlyAfterError
  /\ AuditInv
------------------------------------------------------------------------------
(* Type correctness.                                                       *)

AuditEvents == Events(Tokens \cup {NoToken}, 0 .. MaxCalls)

\* The events the handlers write are rows of the audit table.
LEMMA EventTyped ==
  ASSUME NEW type \in CalendarTypes, NEW decision \in Decisions,
         NEW res \in Results, NEW subject \in Tokens \cup {NoToken},
         NEW call \in 0 .. MaxCalls
  PROVE  Event(type, decision, res, subject, call) \in AuditEvents
  BY DEF Event, Events, AuditEvents, ActionTypes

\* What an audit insert does to the rows: those of the other events stay as
\* many as they are, and an event that is new has one row.
Adds(event) ==
  /\ DOMAIN audit' \subseteq DOMAIN audit \cup {event}
  /\ \A e \in DOMAIN audit' \ {event} : e \in DOMAIN audit /\ audit'[e] = audit[e]
  /\ event \in DOMAIN audit' /\ event \notin DOMAIN audit => audit'[event] = 1
  /\ audit \in [DOMAIN audit -> 1 .. MaxCopies] =>
       audit' \in [DOMAIN audit' -> 1 .. MaxCopies]

\* An audit insert adds a row of the one event it was given, or nothing.
LEMMA RecordAuditAdds ==
  ASSUME NEW event, RecordAudit(event)
  PROVE  Adds(event)
<1>1. CASE UNCHANGED audit
  BY <1>1 DEF Adds
<1>2. CASE Insert(event)
  BY <1>2, CopiesAssumption DEF Adds, Insert, Rows
<1> QED
  BY <1>1, <1>2 DEF RecordAudit

AuditOK ==
  /\ DOMAIN audit \subseteq AuditEvents
  /\ audit \in [DOMAIN audit -> 1 .. MaxCopies]

\* The table keeps its type.
LEMMA AuditTyped ==
  ASSUME TypeOK, NEW event \in AuditEvents, Adds(event)
  PROVE  AuditOK'
  BY DEF TypeOK, Adds, AuditEvents, AuditOK

\* Every parked action has a type that the policy knows.
LEMMA ActionTyped ==
  ASSUME NEW action \in Actions
  PROVE  action.type \in CalendarTypes
  BY DEF Actions, CreateActions, DeleteActions, CalendarTypes

\* Removing tokens keeps the map and the lifetimes what they are.
LEMMA RemoveTyped ==
  ASSUME TypeOK, NEW S, Remove(S)
  PROVE  /\ pending' \in [Tokens -> Actions \cup {NoAction}]
         /\ left' \in [Tokens -> -1 .. TTL]
  BY TimesAssumption DEF TypeOK, Remove

\* Proposing keeps the types.
LEMMA ProposeTyped ==
  ASSUME TypeOK, NEW action \in Actions, Propose(action)
  PROVE  TypeOK'
<1> DEFINE rejected == Event(action.type, "deny", "rejected", NoToken, 0)
<1>1. action.type \in CalendarTypes
  BY ActionTyped
<1>2. 0 \in 0 .. MaxCalls /\ 0 \in 0 .. RequestTimeout
  BY CallsAssumption, TimesAssumption
<1>3. CASE Reject(action.type)
  <2>1. rejected \in AuditEvents
    BY <1>1, <1>2, EventTyped DEF Decisions, Results
  <2>2. Adds(rejected)
    BY <1>3, RecordAuditAdds DEF Reject
  <2>3. AuditOK'
    BY <2>1, <2>2, AuditTyped DEF AuditOK
  <2> QED
    BY <1>2, <1>3, <2>3 DEF TypeOK, Propose, Reject, Return, AuditEvents, AuditOK
<1>4. CASE Park(action)
  <2>1. PICK t \in Tokens :
          /\ Put(t, action)
          /\ proposed' = [proposed EXCEPT ![t] = action]
          /\ RecordAudit(Event(action.type, "confirm", "proposed", t, 0))
    BY <1>4 DEF Park
  <2> DEFINE event == Event(action.type, "confirm", "proposed", t, 0)
  <2>2. event \in AuditEvents
    BY <1>1, <1>2, EventTyped DEF Decisions, Results
  <2>3. Adds(event)
    BY <2>1, RecordAuditAdds
  <2>4. AuditOK'
    BY <2>2, <2>3, AuditTyped
  <2>5. /\ pending' \in [Tokens -> Actions \cup {NoAction}]
        /\ left' \in [Tokens -> -1 .. TTL]
        /\ proposed' \in [Tokens -> Actions \cup {NoAction}]
    BY <2>1, TimesAssumption DEF TypeOK, Put
  <2> QED
    BY <1>2, <2>4, <2>5 DEF TypeOK, Propose, Return, AuditEvents, AuditOK
<1> QED
  BY <1>3, <1>4 DEF Propose

\* Init establishes the types.
LEMMA InitTyped == Init => TypeOK
<1> SUFFICES ASSUME Init PROVE TypeOK
  OBVIOUS
<1> QED
  BY TimesAssumption, CallsAssumption, DOMAIN << >> = {} DEF Init, TypeOK

\* Every step keeps the types.  The audit event of an outcome is typed because
\* the handler winds up a write that was launched with an action.
LEMMA NextTyped ==
  ASSUME TypeOK, LaunchInv, HandlerInv, [Next]_vars
  PROVE  TypeOK'
<1>a. 0 \in 0 .. RequestTimeout /\ RequestTimeout \in 0 .. RequestTimeout
  BY TimesAssumption
<1>b. 0 \in 0 .. MaxCalls
  BY CallsAssumption
<1>1. CASE Receive
  BY <1>1, <1>a DEF Receive, TypeOK
<1>2. CASE Ignore
  BY <1>2, <1>a DEF Ignore, Return, TypeOK
<1>3. CASE ProposeCreate \/ ProposeDelete
  BY <1>3, ProposeTyped DEF ProposeCreate, ProposeDelete, Actions
<1>4. ASSUME NEW t \in Tokens, ConfirmMissing(t) PROVE TypeOK'
  <2>1. Remove({t})
    BY <1>4 DEF ConfirmMissing
  <2> QED
    BY <1>4, <2>1, RemoveTyped, <1>a DEF ConfirmMissing, Return, TypeOK
<1>5. ASSUME NEW t \in Tokens, ConfirmStart(t) PROVE TypeOK'
  <2>1. calls + 1 \in Calls /\ calls' \in 0 .. MaxCalls
    BY <1>5, CallsAssumption DEF ConfirmStart, Calls, TypeOK
  <2>2. callTok' \in [Calls -> Tokens \cup {NoToken}]
    BY <1>5, <2>1 DEF ConfirmStart, TypeOK
  <2>3. callAct' \in [Calls -> Actions \cup {NoAction}]
    BY <1>5, <2>1 DEF ConfirmStart, TypeOK
  <2>4. remote' \in [Calls -> {"none", "waiting", "sent", "applied", "refused"}]
    BY <1>5, <2>1 DEF ConfirmStart, Outcome, TypeOK
  <2> QED
    BY <1>5, <2>1, <2>2, <2>3, <2>4 DEF ConfirmStart, TypeOK
<1>6. ASSUME NEW t \in Tokens, Cancel(t) PROVE TypeOK'
  <2>1. Remove({t})
    BY <1>6 DEF Cancel
  <2>2. AuditOK'
    <3>1. CASE Usable(t)
      <4> DEFINE event == Event(pending[t].type, "confirm", "cancelled", t, 0)
      <4>1. pending[t] \in Actions
        BY <3>1 DEF Usable, TypeOK
      <4>2. event \in AuditEvents
        BY <1>b, <4>1, ActionTyped, EventTyped DEF Decisions, Results
      <4>3. Adds(event)
        BY <1>6, <3>1, RecordAuditAdds DEF Cancel
      <4> QED
        BY <4>2, <4>3, AuditTyped
    <3>2. CASE ~ Usable(t)
      BY <1>6, <3>2 DEF Cancel, TypeOK, AuditEvents, AuditOK
    <3> QED
      BY <3>1, <3>2
  <2> QED
    BY <1>6, <2>1, <2>2, RemoveTyped, <1>a
    DEF Cancel, Return, TypeOK, AuditEvents, AuditOK
<1>7. CASE ListPending
  <2>1. Remove(Expired)
    BY <1>7 DEF ListPending
  <2> QED
    BY <1>7, <2>1, RemoveTyped, <1>a DEF ListPending, Return, TypeOK
<1>8. CASE CallReturnsOk \/ CallReturnsErr
  BY <1>8 DEF CallReturnsOk, CallReturnsErr, TypeOK
<1>9. CASE Finish
  <2>1. calls \in Launched /\ calls \in Calls
    BY <1>9 DEF Finish, ConfirmDone, ConfirmFailed, HandlerInv, Launched,
                Calls, TypeOK
  <2>2. callAct[calls].type \in CalendarTypes
    BY <2>1, ActionTyped DEF LaunchInv
  <2>3. PICK res \in {"executed", "failed"} :
          RecordAudit(Event(callAct[calls].type, "confirm", res, cur, calls))
    BY <1>9 DEF Finish, ConfirmDone, ConfirmFailed
  <2> DEFINE event == Event(callAct[calls].type, "confirm", res, cur, calls)
  <2>4. event \in AuditEvents
    BY <2>2, EventTyped DEF Decisions, Results, TypeOK
  <2>5. Adds(event)
    BY <2>3, RecordAuditAdds
  <2>6. AuditOK'
    BY <2>4, <2>5, AuditTyped
  <2>7. CASE ConfirmDone
    <3>1. Remove({cur})
      BY <2>7 DEF ConfirmDone
    <3> QED
      BY <2>7, <2>6, <3>1, RemoveTyped, <1>a
      DEF ConfirmDone, Return, TypeOK, AuditEvents, AuditOK
  <2>8. CASE ConfirmFailed
    BY <2>8, <2>6, <1>a DEF ConfirmFailed, Return, TypeOK, AuditEvents, AuditOK
  <2> QED
    BY <1>9, <2>7, <2>8 DEF Finish
<1>10. ASSUME NEW n \in Calls, ServerApplies(n) \/ ServerRefuses(n)
       PROVE  TypeOK'
  BY <1>10 DEF ServerApplies, ServerRefuses, TypeOK
<1>11. CASE Tick
  <2>1. left' \in [Tokens -> -1 .. TTL]
    BY <1>11, TimesAssumption DEF Tick, TypeOK
  <2>2. ctxLeft' \in 0 .. RequestTimeout
    BY <1>11, TimesAssumption DEF Tick, TypeOK
  <2> QED
    BY <1>11, <2>1, <2>2 DEF Tick, TypeOK
<1>12. CASE Crash
  <2>1. Remove(Tokens)
    BY <1>12 DEF Crash
  <2> QED
    BY <1>12, <2>1, RemoveTyped, <1>a DEF Crash, NeverSent, Return, TypeOK
<1>13. CASE RenewalEnds
  BY <1>13 DEF RenewalEnds, Outcome, TypeOK
<1>14. CASE UNCHANGED vars
  BY <1>14 DEF vars, TypeOK
<1> QED
  BY <1>1, <1>2, <1>3, <1>4, <1>5, <1>6, <1>7, <1>8, <1>9, <1>10, <1>11,
     <1>12, <1>13, <1>14 DEF Next, Handle
------------------------------------------------------------------------------
(* The steps that launch nothing, end nothing and show nothing new: what    *)
(* they do to the map is remove, and to the trail is add a `proposed',      *)
(* `rejected' or `failed' event.                                            *)

RemoteGrows ==
  \A m \in Calls :
    /\ remote'[m] = "none" <=> remote[m] = "none"
    /\ remote[m] = "applied" => remote'[m] = "applied"

QuietStep ==
  /\ UNCHANGED <<policy, calls, callTok, callAct, result, proposed>>
  /\ RemoteGrows
  /\ \A e \in DOMAIN audit' :
       e.result \in Ends => e \in DOMAIN audit /\ audit'[e] = audit[e]
  /\ \A t \in Tokens : pending'[t] \in {NoAction, pending[t]}
  /\ \/ pc' = pc /\ cur' = cur /\ pending' = pending
     \/ pc \in {"idle", "handling", "failed"} /\ pc' \in {"idle", "handling"}
     \/ pc' = "idle" /\ \A t \in Tokens : pending'[t] = NoAction

\* A quiet step keeps every part of the invariant.
LEMMA QuietKeeps ==
  ASSUME IInv, QuietStep, TypeOK'
  PROVE  IInv'
<1> USE DEF IInv
<1>1. MapInv'
  BY DEF QuietStep, RemoteGrows, MapInv
<1>2. LaunchInv'
  BY DEF QuietStep, RemoteGrows, LaunchInv, Launched
<1>3. HandlerInv'
  BY DEF QuietStep, RemoteGrows, HandlerInv
<1>a. ASSUME NEW n \in Launched
      PROVE  n \in Calls /\ callTok[n] \in Tokens
  <2>1. n \in Calls
    BY CallsAssumption DEF Launched, Calls, TypeOK
  <2> QED
    BY <2>1 DEF LaunchInv
<1>4. SuccessInv'
  <2> SUFFICES ASSUME NEW n \in Launched, result[n] = "ok"
               PROVE  /\ remote'[n] = "applied"
                      /\ \/ pending'[callTok[n]] = NoAction
                         \/ pc' = "succeeded" /\ n = calls
    BY DEF QuietStep, RemoteGrows, SuccessInv, Launched
  <2>1. n \in Calls /\ callTok[n] \in Tokens
    BY <1>a
  <2>2. /\ remote[n] = "applied"
        /\ pending[callTok[n]] = NoAction \/ (pc = "succeeded" /\ n = calls)
    BY DEF SuccessInv
  <2>3. remote'[n] = "applied"
    BY <2>1, <2>2 DEF QuietStep, RemoteGrows
  <2>4. pending'[callTok[n]] \in {NoAction, pending[callTok[n]]}
    BY <2>1 DEF QuietStep, RemoteGrows
  <2> QED
    BY <2>1, <2>2, <2>3, <2>4 DEF QuietStep, RemoteGrows
<1>5. UnknownInv'
  <2> SUFFICES ASSUME NEW n \in Launched, result[n] = "none"
               PROVE  \/ pending'[callTok[n]] = NoAction
                      \/ pc' = "calling" /\ n = calls
    BY DEF QuietStep, RemoteGrows, UnknownInv, Launched
  <2>1. n \in Calls /\ callTok[n] \in Tokens
    BY <1>a
  <2>2. pending[callTok[n]] = NoAction \/ (pc = "calling" /\ n = calls)
    BY DEF UnknownInv
  <2>3. pending'[callTok[n]] \in {NoAction, pending[callTok[n]]}
    BY <2>1 DEF QuietStep, RemoteGrows
  <2> QED
    BY <2>1, <2>2, <2>3 DEF QuietStep, RemoteGrows
<1>6. RetryOnlyAfterError'
  BY DEF QuietStep, RemoteGrows, RetryOnlyAfterError, Launched
<1>7. AuditInv'
  <2> SUFFICES ASSUME NEW e \in DOMAIN audit' PROVE EventInv(e)'
    BY DEF AuditInv
  <2>1. CASE e.result \notin Ends
    BY <2>1 DEF EventInv, Ends
  <2>2. CASE e.result \in Ends
    <3>a. e \in DOMAIN audit /\ audit'[e] = audit[e]
      BY <2>2 DEF QuietStep
    <3>1. EventInv(e)
      BY <3>a DEF AuditInv
    <3>2. Launched' = Launched
      BY DEF QuietStep, RemoteGrows, Launched
    <3>3. e.result = "executed" => e.subject \in Tokens
      BY <3>1, <1>a DEF EventInv
    <3>4. e.subject \in Tokens =>
            pending'[e.subject] \in {NoAction, pending[e.subject]}
      BY DEF QuietStep, RemoteGrows
    <3> QED
      BY <3>a, <3>1, <3>2, <3>3, <3>4 DEF EventInv, QuietStep
  <2> QED
    BY <2>1, <2>2
<1> QED
  BY <1>1, <1>2, <1>3, <1>4, <1>5, <1>6, <1>7
------------------------------------------------------------------------------
(* The other steps, one by one.                                            *)

\* What removing tokens does to the map.
LEMMA RemoveEffect ==
  ASSUME NEW S, Remove(S), NEW t \in Tokens
  PROVE  pending'[t] = IF t \in S THEN NoAction ELSE pending[t]
  BY DEF Remove

\* A launched write has a token, and its token was shown with its action.
LEMMA LaunchedFacts ==
  ASSUME IInv, NEW n \in Launched
  PROVE  /\ n \in Calls
         /\ callTok[n] \in Tokens
         /\ callAct[n] \in Actions
         /\ callAct[n] = proposed[callTok[n]]
         /\ proposed[callTok[n]] # NoAction
<1>1. n \in Calls
  BY CallsAssumption DEF IInv, Launched, Calls, TypeOK
<1> QED
  BY <1>1, NoActionAssumption DEF IInv, LaunchInv

\* A token whose action is confirmable or waits in the map while the handler is
\* not at its call has launched nothing but failures.
LEMMA OnlyFailures ==
  ASSUME IInv, pc \in {"idle", "handling"},
         NEW n \in Launched, pending[callTok[n]] # NoAction
  PROVE  result[n] = "err"
<1>1. result[n] \in {"none", "ok", "err"}
  BY LaunchedFacts DEF IInv, TypeOK
<1> QED
  BY <1>1 DEF IInv, SuccessInv, UnknownInv

\* Parking a proposal under a fresh token keeps the invariant: nothing that
\* happened before is about that token.
LEMMA ParkKeeps ==
  ASSUME IInv, TypeOK', NEW action \in Actions, Propose(action), Park(action)
  PROVE  IInv'
<1>1. PICK t \in Tokens :
        /\ proposed[t] = NoAction
        /\ Put(t, action)
        /\ proposed' = [proposed EXCEPT ![t] = action]
        /\ RecordAudit(Event(action.type, "confirm", "proposed", t, 0))
  BY DEF Park
<1>2. \A u \in Tokens \ {t} :
        pending'[u] = pending[u] /\ proposed'[u] = proposed[u]
  BY <1>1 DEF Put, IInv, TypeOK
<1>3. pending'[t] = action /\ proposed'[t] = action
  BY <1>1 DEF Put, IInv, TypeOK
<1>4. /\ UNCHANGED <<policy, calls, callTok, callAct, result, remote>>
      /\ pc = "handling"
      /\ pc' = "idle"
      /\ policy[action.type] = "confirm"
      /\ Launched' = Launched
  BY DEF Propose, Park, Return, Launched
<1>5. ASSUME NEW n \in Launched
      PROVE  callTok[n] \in Tokens \ {t}
  BY <1>1, LaunchedFacts
<1>6. MapInv'
  BY <1>2, <1>3, <1>4 DEF IInv, MapInv
<1>7. LaunchInv'
  BY <1>2, <1>4, <1>5 DEF IInv, LaunchInv
<1>8. HandlerInv'
  BY <1>4 DEF HandlerInv
<1>9. SuccessInv'
  BY <1>2, <1>4, <1>5 DEF IInv, SuccessInv
<1>10. UnknownInv'
  BY <1>2, <1>4, <1>5 DEF IInv, UnknownInv
<1>11. RetryOnlyAfterError'
  BY <1>4 DEF IInv, RetryOnlyAfterError
<1>12. AuditInv'
  <2> SUFFICES ASSUME NEW e \in DOMAIN audit' PROVE EventInv(e)'
    BY DEF AuditInv
  <2>a. Adds(Event(action.type, "confirm", "proposed", t, 0))
    BY <1>1, RecordAuditAdds
  <2>1. CASE e = Event(action.type, "confirm", "proposed", t, 0)
    BY <2>1 DEF Event, EventInv, Ends
  <2>2. CASE e # Event(action.type, "confirm", "proposed", t, 0)
    <3>a. e \in DOMAIN audit /\ audit'[e] = audit[e]
      BY <2>a, <2>2 DEF Adds
    <3>1. EventInv(e)
      BY <3>a DEF IInv, AuditInv
    <3>2. e.result = "executed" => e.subject \in Tokens \ {t}
      BY <1>5, <3>1 DEF EventInv
    <3>3. e.result = "cancelled" => e.subject \in Tokens \ {t}
      BY <1>1, <3>1 DEF EventInv
    <3> QED
      BY <1>2, <1>4, <3>a, <3>1, <3>2, <3>3 DEF EventInv
  <2> QED
    BY <2>1, <2>2
<1> QED
  BY <1>6, <1>7, <1>8, <1>9, <1>10, <1>11, <1>12 DEF IInv

\* Launching a write keeps it: what was launched under this token before has
\* failed, and the trail does not say that the token is closed.
LEMMA ConfirmStartKeeps ==
  ASSUME IInv, TypeOK', NEW t \in Tokens, ConfirmStart(t)
  PROVE  IInv'
<1> DEFINE new == calls + 1
<1>1. /\ new \in Calls
      /\ new \notin Launched
      /\ calls' = new
      /\ Launched' = Launched \cup {new}
      /\ \A n \in Launched : n \in Calls /\ n < new /\ n # new
  BY CallsAssumption DEF ConfirmStart, IInv, TypeOK, Calls, Launched
<1>2. /\ callTok'[new] = t
      /\ callAct'[new] = pending[t]
      /\ remote'[new] \in {"waiting", "sent", "refused"}
      /\ \A n \in Calls \ {new} : /\ callTok'[n] = callTok[n]
                                 /\ callAct'[n] = callAct[n]
                                 /\ remote'[n] = remote[n]
  BY <1>1 DEF ConfirmStart, Outcome, IInv, TypeOK
<1>3. /\ UNCHANGED <<policy, pending, result, proposed, audit>>
      /\ pc = "handling"
      /\ pc' = "calling"
      /\ cur' = t
  BY DEF ConfirmStart
<1>4. /\ pending[t] # NoAction
      /\ pending[t] = proposed[t]
      /\ pending[t] \in Actions
      /\ policy[pending[t].type] = "confirm"
  BY DEF ConfirmStart, Usable, IInv, MapInv, TypeOK
<1>5. result[new] = "none"
  BY <1>1 DEF IInv, LaunchInv
<1>6. MapInv'
  BY <1>3 DEF IInv, MapInv
<1>7. LaunchInv'
  <2>1. ASSUME NEW n \in Calls, n \in Launched'
        PROVE  /\ callTok'[n] \in Tokens
               /\ callAct'[n] \in Actions
               /\ callAct'[n] = proposed'[callTok'[n]]
               /\ policy'[callAct'[n].type] = "confirm"
               /\ remote'[n] # "none"
    BY <1>1, <1>2, <1>3, <1>4, <2>1 DEF IInv, LaunchInv
  <2>2. ASSUME NEW n \in Calls, n \notin Launched'
        PROVE  /\ callTok'[n] = NoToken
               /\ callAct'[n] = NoAction
               /\ remote'[n] = "none"
               /\ result'[n] = "none"
    BY <1>1, <1>2, <1>3, <2>2 DEF IInv, LaunchInv
  <2> QED
    BY <2>1, <2>2 DEF LaunchInv
<1>8. HandlerInv'
  BY <1>1, <1>2, <1>3, <1>4, <1>5 DEF HandlerInv
<1>9. SuccessInv'
  BY <1>1, <1>2, <1>3, <1>5 DEF IInv, SuccessInv
<1>10. UnknownInv'
  BY <1>1, <1>2, <1>3 DEF IInv, UnknownInv
<1>11. RetryOnlyAfterError'
  <2> SUFFICES ASSUME NEW m \in Launched', NEW n \in Launched',
                      m < n, callTok'[m] = callTok'[n]
               PROVE  result[m] = "err"
    BY <1>3 DEF RetryOnlyAfterError
  <2>1. m \in Launched
    BY <1>1 DEF Launched, IInv, TypeOK
  <2>2. CASE n \in Launched
    BY <1>1, <1>2, <2>1, <2>2 DEF IInv, RetryOnlyAfterError
  <2>3. CASE n = new
    BY <1>1, <1>2, <1>3, <1>4, <2>1, <2>3, OnlyFailures
  <2> QED
    BY <1>1, <2>2, <2>3
<1>12. AuditInv'
  <2> SUFFICES ASSUME NEW e \in DOMAIN audit PROVE EventInv(e)'
    BY <1>3 DEF AuditInv
  <2>1. EventInv(e)
    BY DEF IInv, AuditInv
  <2> QED
    BY <1>1, <1>2, <1>3, <1>5, <2>1 DEF EventInv
<1> QED
  BY <1>6, <1>7, <1>8, <1>9, <1>10, <1>11, <1>12 DEF IInv

\* The end of the external call keeps it, whatever the call returns.
LEMMA CallReturnsKeeps ==
  ASSUME IInv, TypeOK', CallReturnsOk \/ CallReturnsErr
  PROVE  IInv'
<1>1. PICK r \in {"ok", "err"} :
        /\ result' = [result EXCEPT ![calls] = r]
        /\ pc' = IF r = "ok" THEN "succeeded" ELSE "failed"
        /\ r = "ok" => remote[calls] = "applied"
  BY DEF CallReturnsOk, CallReturnsErr
<1>2. /\ pc = "calling"
      /\ UNCHANGED <<policy, pending, cur, calls, callTok, callAct, remote,
                     proposed, audit>>
      /\ Launched' = Launched
  BY DEF CallReturnsOk, CallReturnsErr, Launched
<1>3. /\ calls \in Calls
      /\ calls \in Launched
      /\ cur = callTok[calls]
      /\ pending[cur] # NoAction
      /\ result[calls] = "none"
  BY <1>2 DEF IInv, HandlerInv, TypeOK, Calls, Launched
<1>4. /\ result'[calls] = r
      /\ \A n \in Calls \ {calls} : result'[n] = result[n]
  BY <1>1, <1>3 DEF IInv, TypeOK
<1>5. \A n \in Launched : n \in Calls /\ n <= calls
  <2> SUFFICES ASSUME NEW n \in Launched PROVE n \in Calls /\ n <= calls
    OBVIOUS
  <2>1. n <= calls
    BY DEF Launched
  <2> QED
    BY <2>1, LaunchedFacts
<1>6. MapInv'
  BY <1>2 DEF IInv, MapInv
<1>7. LaunchInv'
  BY <1>2, <1>3, <1>4 DEF IInv, LaunchInv
<1>8. HandlerInv'
  BY <1>1, <1>2, <1>3, <1>4 DEF HandlerInv
<1>9. SuccessInv'
  BY <1>1, <1>2, <1>3, <1>4, <1>5 DEF IInv, SuccessInv
<1>10. UnknownInv'
  BY <1>1, <1>2, <1>3, <1>4, <1>5 DEF IInv, UnknownInv
<1>11. RetryOnlyAfterError'
  <2> SUFFICES ASSUME NEW m \in Launched, NEW n \in Launched,
                      m < n, callTok[m] = callTok[n]
               PROVE  result'[m] = "err"
    BY <1>2 DEF RetryOnlyAfterError
  <2>1. m \in Calls /\ m # calls
    BY <1>3, <1>5 DEF IInv, TypeOK, Calls, Launched
  <2> QED
    BY <1>4, <2>1 DEF IInv, RetryOnlyAfterError
<1>12. AuditInv'
  <2> SUFFICES ASSUME NEW e \in DOMAIN audit PROVE EventInv(e)'
    BY <1>2 DEF AuditInv
  <2>1. EventInv(e)
    BY DEF IInv, AuditInv
  <2>2. e.result = "executed" => result'[e.call] = "ok"
    BY <1>3, <1>4, <1>5, <2>1 DEF EventInv
  <2>3. e.result = "cancelled" => e.subject # cur
    BY <1>3, <2>1 DEF EventInv
  <2> QED
    BY <1>2, <1>3, <1>4, <1>5, <2>1, <2>2, <2>3 DEF EventInv
<1> QED
  BY <1>6, <1>7, <1>8, <1>9, <1>10, <1>11, <1>12 DEF IInv

\* Winding up a success keeps it: the token leaves the map, and the trail says
\* that it was executed.
LEMMA ConfirmDoneKeeps ==
  ASSUME IInv, TypeOK', ConfirmDone
  PROVE  IInv'
<1> DEFINE event == Event(callAct[calls].type, "confirm", "executed", cur, calls)
<1>1. /\ pc = "succeeded"
      /\ pc' = "idle"
      /\ Remove({cur})
      /\ RecordAudit(event)
      /\ UNCHANGED <<policy, calls, callTok, callAct, result, remote, proposed>>
      /\ Launched' = Launched
  BY DEF ConfirmDone, Return, Launched
<1>2. /\ calls \in Launched
      /\ cur = callTok[calls]
      /\ cur \in Tokens
      /\ result[calls] = "ok"
  <2>1. /\ calls \in Launched
        /\ cur = callTok[calls]
        /\ result[calls] = "ok"
    BY <1>1 DEF IInv, HandlerInv, TypeOK, Calls, Launched
  <2> QED
    BY <2>1, LaunchedFacts
<1>3. /\ pending'[cur] = NoAction
      /\ \A t \in Tokens : pending'[t] \in {NoAction, pending[t]}
  BY <1>1, <1>2, RemoveEffect
<1>4. \A n \in Launched : callTok[n] \in Tokens
  BY LaunchedFacts
<1>5. MapInv'
  BY <1>1, <1>3 DEF IInv, MapInv
<1>6. LaunchInv'
  BY <1>1 DEF IInv, LaunchInv
<1>7. HandlerInv'
  BY <1>1 DEF HandlerInv
<1>8. SuccessInv'
  BY <1>1, <1>2, <1>3, <1>4 DEF IInv, SuccessInv
<1>9. UnknownInv'
  BY <1>1, <1>3, <1>4 DEF IInv, UnknownInv
<1>10. RetryOnlyAfterError'
  BY <1>1 DEF IInv, RetryOnlyAfterError
<1>11. AuditInv'
  <2> SUFFICES ASSUME NEW e \in DOMAIN audit' PROVE EventInv(e)'
    BY DEF AuditInv
  <2>a. Adds(event)
    BY <1>1, RecordAuditAdds
  <2>1. CASE e = event
    <3>2. /\ e.result = "executed"
          /\ e.call = calls
          /\ e.subject = cur
      BY <2>1 DEF Event
    <3>3. e \notin DOMAIN audit
      BY <1>1, <3>2 DEF IInv, AuditInv, EventInv, HandlerInv
    <3>4. audit'[e] = 1
      BY <2>a, <2>1, <3>3 DEF Adds
    <3> QED
      BY <1>1, <1>2, <1>3, <2>1, <3>2, <3>4 DEF EventInv
  <2>2. CASE e # event
    <3>a. e \in DOMAIN audit /\ audit'[e] = audit[e]
      BY <2>a, <2>2 DEF Adds
    <3>1. EventInv(e)
      BY <3>a DEF IInv, AuditInv
    <3>2. e.result = "executed" => e.subject \in Tokens
      BY <1>4, <3>1 DEF EventInv
    <3> QED
      BY <1>1, <1>3, <3>a, <3>1, <3>2 DEF EventInv
  <2> QED
    BY <2>1, <2>2
<1> QED
  BY <1>5, <1>6, <1>7, <1>8, <1>9, <1>10, <1>11 DEF IInv

\* Cancelling an open proposal keeps it: what was launched under it has failed.
LEMMA CancelKeeps ==
  ASSUME IInv, TypeOK', NEW t \in Tokens, Cancel(t), Usable(t)
  PROVE  IInv'
<1> DEFINE event == Event(pending[t].type, "confirm", "cancelled", t, 0)
<1>1. /\ pc = "handling"
      /\ pc' = "idle"
      /\ Remove({t})
      /\ RecordAudit(event)
      /\ UNCHANGED <<policy, calls, callTok, callAct, result, remote, proposed>>
      /\ Launched' = Launched
  BY DEF Cancel, Return, Launched
<1>2. pending[t] # NoAction /\ pending[t] = proposed[t]
  BY DEF Usable, IInv, MapInv
<1>3. /\ pending'[t] = NoAction
      /\ \A u \in Tokens : pending'[u] \in {NoAction, pending[u]}
  BY <1>1, RemoveEffect
<1>4. \A n \in Launched : callTok[n] \in Tokens
  BY LaunchedFacts
<1>5. \A n \in Launched : callTok[n] = t => result[n] # "ok"
  BY <1>1, <1>2, OnlyFailures
<1>6. MapInv'
  BY <1>1, <1>3 DEF IInv, MapInv
<1>7. LaunchInv'
  BY <1>1 DEF IInv, LaunchInv
<1>8. HandlerInv'
  BY <1>1 DEF HandlerInv
<1>9. SuccessInv'
  BY <1>1, <1>3, <1>4 DEF IInv, SuccessInv
<1>10. UnknownInv'
  BY <1>1, <1>3, <1>4 DEF IInv, UnknownInv
<1>11. RetryOnlyAfterError'
  BY <1>1 DEF IInv, RetryOnlyAfterError
<1>12. AuditInv'
  <2> SUFFICES ASSUME NEW e \in DOMAIN audit' PROVE EventInv(e)'
    BY DEF AuditInv
  <2>a. Adds(event)
    BY <1>1, RecordAuditAdds
  <2>1. CASE e = event
    <3>2. e.result = "cancelled" /\ e.subject = t
      BY <2>1 DEF Event
    <3>3. e \notin DOMAIN audit
      BY <1>2, <3>2 DEF IInv, AuditInv, EventInv
    <3>4. audit'[e] = 1
      BY <2>a, <2>1, <3>3 DEF Adds
    <3> QED
      BY <1>1, <1>2, <1>3, <1>5, <2>1, <3>2, <3>4 DEF EventInv
  <2>2. CASE e # event
    <3>a. e \in DOMAIN audit /\ audit'[e] = audit[e]
      BY <2>a, <2>2 DEF Adds
    <3>1. EventInv(e)
      BY <3>a DEF IInv, AuditInv
    <3>2. e.result = "executed" => e.subject \in Tokens
      BY <1>4, <3>1 DEF EventInv
    <3> QED
      BY <1>1, <1>3, <3>a, <3>1, <3>2 DEF EventInv
  <2> QED
    BY <2>1, <2>2
<1> QED
  BY <1>6, <1>7, <1>8, <1>9, <1>10, <1>11, <1>12 DEF IInv
------------------------------------------------------------------------------
(* The invariant.                                                          *)

\* Init establishes the invariant.
LEMMA InitInv == Init => IInv
<1> SUFFICES ASSUME Init PROVE IInv
  OBVIOUS
<1>1. TypeOK
  BY InitTyped
<1>2. Launched = {}
  BY DEF Init, Launched
<1> QED
  BY <1>1, <1>2, DOMAIN << >> = {}
  DEF Init, IInv, MapInv, LaunchInv, HandlerInv, SuccessInv, UnknownInv,
      RetryOnlyAfterError, AuditInv

\* Every step keeps the invariant.
LEMMA NextInv == IInv /\ [Next]_vars => IInv'
<1> SUFFICES ASSUME IInv, [Next]_vars PROVE IInv'
  OBVIOUS
<1>a. TypeOK'
  BY NextTyped DEF IInv
<1>b. ASSUME QuietStep PROVE IInv'
  BY <1>a, <1>b, QuietKeeps
<1>1. CASE Receive
  BY <1>1, <1>b DEF Receive, QuietStep, RemoteGrows
<1>2. CASE Ignore
  BY <1>2, <1>b DEF Ignore, Return, QuietStep, RemoteGrows
<1>3. ASSUME NEW action \in Actions, Propose(action) PROVE IInv'
  <2>1. CASE Reject(action.type)
    <3> DEFINE event == Event(action.type, "deny", "rejected", NoToken, 0)
    <3>1. Adds(event)
      BY <2>1, RecordAuditAdds DEF Reject
    <3>2. event.result \notin Ends
      BY DEF Event, Ends
    <3> QED
      BY <1>3, <1>b, <2>1, <3>1, <3>2
      DEF Adds, Propose, Reject, Return, QuietStep, RemoteGrows
  <2>2. CASE Park(action)
    BY <1>3, <1>a, <2>2, ParkKeeps
  <2> QED
    BY <1>3, <2>1, <2>2 DEF Propose
<1>4. ASSUME NEW t \in Tokens, ConfirmMissing(t) PROVE IInv'
  <2>1. \A u \in Tokens : pending'[u] \in {NoAction, pending[u]}
    BY <1>4, RemoveEffect DEF ConfirmMissing
  <2> QED
    BY <1>4, <1>b, <2>1 DEF ConfirmMissing, Return, QuietStep, RemoteGrows
<1>5. ASSUME NEW t \in Tokens, ConfirmStart(t) PROVE IInv'
  BY <1>5, <1>a, ConfirmStartKeeps
<1>6. ASSUME NEW t \in Tokens, Cancel(t) PROVE IInv'
  <2>1. CASE Usable(t)
    BY <1>6, <1>a, <2>1, CancelKeeps
  <2>2. CASE ~ Usable(t)
    <3>1. \A u \in Tokens : pending'[u] \in {NoAction, pending[u]}
      BY <1>6, RemoveEffect DEF Cancel
    <3> QED
      BY <1>6, <1>b, <2>2, <3>1 DEF Cancel, Return, QuietStep, RemoteGrows
  <2> QED
    BY <2>1, <2>2
<1>7. CASE ListPending
  <2>1. \A u \in Tokens : pending'[u] \in {NoAction, pending[u]}
    BY <1>7, RemoveEffect DEF ListPending
  <2> QED
    BY <1>7, <1>b, <2>1 DEF ListPending, Return, QuietStep, RemoteGrows
<1>8. CASE CallReturnsOk \/ CallReturnsErr
  BY <1>8, <1>a, CallReturnsKeeps
<1>9. CASE Finish
  <2>1. CASE ConfirmDone
    BY <1>a, <2>1, ConfirmDoneKeeps
  <2>2. CASE ConfirmFailed
    <3> DEFINE event == Event(callAct[calls].type, "confirm", "failed", cur,
                              calls)
    <3>1. Adds(event)
      BY <2>2, RecordAuditAdds DEF ConfirmFailed
    <3>2. event.result \notin Ends
      BY DEF Event, Ends
    <3> QED
      BY <1>b, <2>2, <3>1, <3>2
      DEF Adds, ConfirmFailed, Return, QuietStep, RemoteGrows
  <2> QED
    BY <1>9, <2>1, <2>2 DEF Finish
<1>10. ASSUME NEW n \in Calls, ServerApplies(n) \/ ServerRefuses(n)
       PROVE  IInv'
  <2>1. RemoteGrows
    BY <1>10 DEF RemoteGrows, ServerApplies, ServerRefuses, IInv, TypeOK
  <2>2. UNCHANGED <<policy, pending, pc, cur, calls, callTok, callAct, result,
                    proposed, audit>>
    BY <1>10 DEF ServerApplies, ServerRefuses
  <2>3. QuietStep
    BY <2>1, <2>2 DEF QuietStep
  <2> QED
    BY <1>b, <2>3
<1>11. CASE Tick
  BY <1>11, <1>b DEF Tick, QuietStep, RemoteGrows
<1>12. CASE Crash
  <2>1. \A u \in Tokens : pending'[u] = NoAction
    BY <1>12, RemoveEffect DEF Crash
  <2> QED
    BY <1>12, <1>b, <2>1
    DEF Crash, NeverSent, Return, QuietStep, RemoteGrows, IInv, TypeOK
<1>13. CASE RenewalEnds
  <2>1. RemoteGrows
    BY <1>13 DEF RemoteGrows, RenewalEnds, Renewing, Outcome, IInv, TypeOK
  <2>2. UNCHANGED <<policy, pending, pc, cur, calls, callTok, callAct, result,
                    proposed, audit>>
    BY <1>13 DEF RenewalEnds
  <2>3. QuietStep
    BY <2>1, <2>2 DEF QuietStep
  <2> QED
    BY <1>b, <2>3
<1>14. CASE UNCHANGED vars
  BY <1>14, <1>b DEF vars, QuietStep, RemoteGrows
<1> QED
  BY <1>1, <1>2, <1>3, <1>4, <1>5, <1>6, <1>7, <1>8, <1>9, <1>10, <1>11,
     <1>12, <1>13, <1>14 DEF Next, Handle, ProposeCreate, ProposeDelete, Actions

\* The inductive invariant holds in every state the gate can reach.
THEOREM Invariance == Spec => []IInv
  BY InitInv, NextInv, PTL DEF Spec
------------------------------------------------------------------------------
(* The properties.                                                         *)

\* The gate's variables keep their types.
THEOREM TypeCorrect == Spec => []TypeOK
  BY Invariance, PTL DEF IInv

\* Every write carries what the user was shown under its token, and no write is
\* made where the policy does not ask for a confirmation.
THEOREM WritesAsProposed == Spec => []CallsAsProposed
<1>1. IInv => CallsAsProposed
  BY LaunchedFacts DEF IInv, LaunchInv, CallsAsProposed
<1> QED
  BY <1>1, Invariance, PTL

\* A write is repeated under its token only after it returned an error.
THEOREM NoBlindRetry == Spec => []RetryOnlyAfterError
  BY Invariance, PTL DEF IInv

\* `executed' in the audit trail means that Google applied the write.
THEOREM ExecutedIsTrue == Spec => []ExecutedWasApplied
<1>1. IInv => ExecutedWasApplied
  BY DEF IInv, AuditInv, EventInv, SuccessInv, ExecutedWasApplied
<1> QED
  BY <1>1, Invariance, PTL

\* The audit trail of a token ends with at most one row.
THEOREM TrailIsConsistent == Spec => []TrailEndsOnce
<1>1. IInv => TrailEndsOnce
  <2> SUFFICES ASSUME IInv, NEW e \in DOMAIN audit, NEW f \in DOMAIN audit,
                      e.result \in Ends, f.result \in Ends,
                      e.subject = f.subject
               PROVE  e = f /\ audit[e] = 1
    BY DEF TrailEndsOnce, Ends
  <2>1. EventInv(e) /\ EventInv(f)
    BY DEF IInv, AuditInv
  <2>a. audit[e] = 1
    BY <2>1 DEF EventInv
  <2>2. CASE e.result = "executed" /\ f.result = "executed"
    <3>1. /\ e.call \in Launched /\ result[e.call] = "ok"
          /\ f.call \in Launched /\ result[f.call] = "ok"
          /\ callTok[e.call] = callTok[f.call]
      BY <2>1, <2>2 DEF EventInv
    <3>2. ~ (e.call < f.call) /\ ~ (f.call < e.call)
      BY <3>1 DEF IInv, RetryOnlyAfterError
    <3>3. e.call = f.call
      BY <3>1, <3>2 DEF IInv, TypeOK, Launched
    <3> QED
      BY <2>1, <2>2, <2>a, <3>3 DEF EventInv
  <2>3. CASE e.result = "cancelled" /\ f.result = "cancelled"
    BY <2>1, <2>3, <2>a DEF EventInv
  <2>4. CASE e.result # f.result
    BY <2>1, <2>4 DEF EventInv, Ends
  <2> QED
    BY <2>2, <2>3, <2>4 DEF Ends
<1> QED
  BY <1>1, Invariance, PTL

\* What one step may do to tokens that were shown and are not confirmable.
ClosedStep ==
  \A t \in Tokens :
    proposed[t] # NoAction /\ ~ Usable(t) =>
      /\ ~ Usable(t)'
      /\ \A n \in Calls : callTok'[n] = t => callTok[n] = t

\* A step that only removes from the map or ages it opens nothing.
LEMMA ShrinkingClosed ==
  ASSUME callTok' = callTok,
         \A t \in Tokens : Usable(t)' => Usable(t)
  PROVE  ClosedStep
  BY DEF ClosedStep

\* Removing tokens from the map makes none of them confirmable.
LEMMA RemoveCloses ==
  ASSUME TypeOK, NEW S, Remove(S)
  PROVE  \A t \in Tokens : Usable(t)' => Usable(t)
  BY DEF Remove, Usable, TypeOK

\* A token never reopens.
THEOREM TokensStayClosed == Spec => ClosedForever
<1>1. IInv /\ [Next]_vars => [ClosedStep]_vars
  <2> SUFFICES ASSUME IInv, Next PROVE ClosedStep
    OBVIOUS
  <2>a. TypeOK
    BY DEF IInv
  <2>b. ASSUME UNCHANGED <<pending, left, callTok>> PROVE ClosedStep
    BY <2>b DEF ClosedStep, Usable
  <2>1. ASSUME NEW action \in Actions, Propose(action) PROVE ClosedStep
    <3>1. CASE Reject(action.type)
      BY <2>1, <2>b, <3>1 DEF Propose, Reject
    <3>2. CASE Park(action)
      <4>1. PICK t \in Tokens : proposed[t] = NoAction /\ Put(t, action)
        BY <3>2 DEF Park
      <4>2. \A u \in Tokens \ {t} : Usable(u)' <=> Usable(u)
        BY <2>a, <4>1 DEF Put, Usable, TypeOK
      <4>3. callTok' = callTok
        BY <2>1 DEF Propose
      <4> QED
        BY <4>1, <4>2, <4>3 DEF ClosedStep
    <3> QED
      BY <2>1, <3>1, <3>2 DEF Propose
  <2>2. ASSUME NEW t \in Tokens, ConfirmStart(t) PROVE ClosedStep
    <3>1. \A n \in Calls : callTok'[n] \in {callTok[n], t}
      BY <2>a, <2>2 DEF ConfirmStart, TypeOK
    <3>2. Usable(t) /\ UNCHANGED <<pending, left>>
      BY <2>2 DEF ConfirmStart
    <3> QED
      BY <3>1, <3>2 DEF ClosedStep, Usable
  <2>3. ASSUME NEW S, Remove(S), UNCHANGED callTok PROVE ClosedStep
    BY <2>a, <2>3, RemoveCloses, ShrinkingClosed
  <2>4. CASE Tick
    <3>1. \A t \in Tokens : Usable(t)' => Usable(t)
      BY <2>a, <2>4 DEF Tick, Usable, TypeOK
    <3> QED
      BY <2>4, <3>1, ShrinkingClosed DEF Tick
  <2>5. CASE Receive \/ Ignore \/ RenewalEnds \/ CallReturnsOk \/ CallReturnsErr
    BY <2>5, <2>b
    DEF Receive, Ignore, RenewalEnds, CallReturnsOk, CallReturnsErr
  <2>6. CASE Finish
    BY <2>6, <2>b, <2>3 DEF Finish, ConfirmDone, ConfirmFailed
  <2>7. ASSUME NEW n \in Calls, ServerApplies(n) \/ ServerRefuses(n)
        PROVE  ClosedStep
    BY <2>7, <2>b DEF ServerApplies, ServerRefuses
  <2>8. ASSUME NEW t \in Tokens, ConfirmMissing(t) \/ Cancel(t)
        PROVE  ClosedStep
    BY <2>8, <2>3 DEF ConfirmMissing, Cancel
  <2>9. CASE ListPending \/ Crash
    BY <2>9, <2>3 DEF ListPending, Crash
  <2> QED
    BY <2>1, <2>2, <2>4, <2>5, <2>6, <2>7, <2>8, <2>9
    DEF Next, Handle, ProposeCreate, ProposeDelete, Actions
<1>2. [ClosedStep]_vars <=>
        [\A t \in Tokens :
           proposed[t] # NoAction /\ ~ Usable(t) =>
             /\ ~ Usable(t)'
             /\ \A n \in Calls : callTok'[n] = t => callTok[n] = t]_vars
  BY DEF ClosedStep
<1> QED
  BY <1>1, <1>2, Invariance, PTL DEF Spec, ClosedForever
==============================================================================
