--------------------------- MODULE CalendarConfirm ---------------------------
(***************************************************************************)
(* The confirmation gate in front of Google Calendar                       *)
(* (src/internal/core/calendar.go).  A create or a delete is only proposed *)
(* by its command: it is parked under a random token in a map that lives   *)
(* in memory, and /confirm <token> performs it.  One message is handled at *)
(* a time (the loop of src/internal/adapters/telegram/bot.go), under one   *)
(* deadline that transcription, intent parsing, the external call and the  *)
(* audit insert share.                                                     *)
(*                                                                         *)
(* Time is counted in ticks.  Instead of absolute times the model keeps    *)
(* what is left of each lifetime: left[t] of a proposal, ctxLeft of the    *)
(* message being handled.                                                  *)
(***************************************************************************)
EXTENDS Governance, Integers

CONSTANTS
  Tokens,          \* the values the token generator returns
  Drafts,          \* the drafts a user may ask to create
  Targets,         \* the event ids a user may ask to delete
  NoToken,         \* the subject of an event about no token
  NoAction,        \* the value of pending[t] when the map has no t
  TTL,             \* ticks a proposal stays confirmable (10 min in the code)
  RequestTimeout,  \* ticks one message may take (90 s in the code)
  MaxCalls,        \* bound on the external writes of a behaviour
  MaxCopies,       \* bound up to which equal rows of the audit table are counted
  AuditMayFail     \* may the insert of an audit event fail for no reason of ours?

ASSUME TokensAssumption == NoToken \notin Tokens
ASSUME TimesAssumption == TTL \in Nat /\ RequestTimeout \in Nat
ASSUME CallsAssumption == MaxCalls \in Nat
ASSUME CopiesAssumption == MaxCopies \in Nat /\ MaxCopies >= 2
ASSUME AuditAssumption == AuditMayFail \in BOOLEAN

\* External writes are numbered in the order in which they are launched.
Calls == 1 .. MaxCalls

CreateActions == [type : {"calendar.create"}, what : Drafts]

DeleteActions == [type : {"calendar.delete"}, what : Targets]

Actions == CreateActions \cup DeleteActions

ASSUME NoActionAssumption == NoAction \notin Actions

VARIABLES
  policy,    \* the permission engine, fixed when the assistant is built
  pending,   \* pendingCalendarStore.actions
  left,      \* ticks before a pending action expires; -1 once it has
  pc,        \* where the handler of the current message is
  cur,       \* the token the handler is confirming
  ctxLeft,   \* ticks before the deadline of the current message
  calls,     \* number of external writes launched so far
  callTok,   \* the token under which a write was launched
  callAct,   \* the action it was launched with
  result,    \* what the client returned to the handler: ok, err or nothing
  remote,    \* what became of the write at Google
  proposed,  \* history: what was shown to the user under a token
  audit      \* the audit_events table: a bag, for two of its rows may be equal

vars == <<policy, pending, left, pc, cur, ctxLeft, calls, callTok, callAct,
          result, remote, proposed, audit>>

TypeOK ==
  /\ policy \in [CalendarTypes -> Decisions]
  /\ pending \in [Tokens -> Actions \cup {NoAction}]
  /\ left \in [Tokens -> -1 .. TTL]
  /\ pc \in {"idle", "handling", "calling", "succeeded", "failed"}
  /\ cur \in Tokens \cup {NoToken}
  /\ ctxLeft \in 0 .. RequestTimeout
  /\ calls \in 0 .. MaxCalls
  /\ callTok \in [Calls -> Tokens \cup {NoToken}]
  /\ callAct \in [Calls -> Actions \cup {NoAction}]
  /\ result \in [Calls -> {"none", "ok", "err"}]
  /\ remote \in [Calls -> {"none", "waiting", "sent", "applied", "refused"}]
  /\ proposed \in [Tokens -> Actions \cup {NoAction}]
  /\ DOMAIN audit \subseteq Events(Tokens \cup {NoToken}, 0 .. MaxCalls)
  /\ audit \in [DOMAIN audit -> 1 .. MaxCopies]

Init ==
  /\ policy \in [CalendarTypes -> Decisions]
  /\ pending = [t \in Tokens |-> NoAction]
  /\ left = [t \in Tokens |-> -1]
  /\ pc = "idle"
  /\ cur = NoToken
  /\ ctxLeft = 0
  /\ calls = 0
  /\ callTok = [n \in Calls |-> NoToken]
  /\ callAct = [n \in Calls |-> NoAction]
  /\ result = [n \in Calls |-> "none"]
  /\ remote = [n \in Calls |-> "none"]
  /\ proposed = [t \in Tokens |-> NoAction]
  /\ audit = << >>
------------------------------------------------------------------------------
(* The map of pending actions.                                             *)

\* pendingCalendarStore.get finds t: it is in the map and its expiry time is
\* not in the past (an action is still confirmable at that very time).
Usable(t) == pending[t] # NoAction /\ left[t] >= 0

\* pendingCalendarStore.put.
Put(t, action) ==
  /\ pending' = [pending EXCEPT ![t] = action]
  /\ left' = [left EXCEPT ![t] = TTL]

\* Remove a set of tokens from the map: delete, and the purge of expired
\* entries that get and list do on the way.
Remove(S) ==
  /\ pending' = [t \in Tokens |-> IF t \in S THEN NoAction ELSE pending[t]]
  /\ left' = [t \in Tokens |-> IF t \in S THEN -1 ELSE left[t]]

Expired == {t \in Tokens : ~ Usable(t)}

\* Every insert is a row of its own, also of an event that is there already.
Rows(event) == IF event \in DOMAIN audit THEN audit[event] ELSE 0

Insert(event) ==
  audit' = [e \in DOMAIN audit \cup {event} |->
              IF e = event /\ Rows(e) < MaxCopies THEN Rows(e) + 1 ELSE Rows(e)]

\* recordAudit: the insert runs under the deadline of the message, so it fails
\* once the deadline has passed; a failure is logged and otherwise ignored.
RecordAudit(event) ==
  \/ /\ ctxLeft > 0
     /\ Insert(event)
  \/ /\ ctxLeft = 0 \/ AuditMayFail
     /\ UNCHANGED audit

\* The handler returns: handleMessage sends the reply and the loop is free.
Return == pc' = "idle" /\ cur' = NoToken /\ ctxLeft' = 0
------------------------------------------------------------------------------
(* The handlers.                                                           *)

\* handleMessage starts on a message: its deadline starts now, and what comes
\* before the handler (download, transcription, intent parsing) consumes it.
Receive ==
  /\ pc = "idle"
  /\ pc' = "handling"
  /\ ctxLeft' = RequestTimeout
  /\ UNCHANGED <<policy, pending, left, cur, calls, callTok, callAct, result,
                 remote, proposed, audit>>

\* Every message that changes none of the state modelled here: other commands,
\* malformed proposals, an empty token, a token generator that fails.
Ignore ==
  /\ pc = "handling"
  /\ Return
  /\ UNCHANGED <<policy, pending, left, calls, callTok, callAct, result,
                 remote, proposed, audit>>

\* proposeCalendarCreateDraft and proposeCalendarDelete end early when the
\* policy does not ask for a confirmation, be it because it denies the action
\* or because it would let it pass unconfirmed.
Reject(type) ==
  /\ policy[type] # "confirm"
  /\ RecordAudit(Event(type, "deny", "rejected", NoToken, 0))
  /\ UNCHANGED <<pending, left, proposed>>

\* Seeded fault: the generator may return a token that is in use.
ParkOnAnyToken(action) ==
  /\ policy[action.type] = "confirm"
  /\ \E t \in Tokens :
       /\ Put(t, action)
       /\ proposed' = [proposed EXCEPT ![t] = action]
       /\ RecordAudit(Event(action.type, "confirm", "proposed", t, 0))

\* Otherwise the action is parked under a token not returned before (40 random
\* bits, never compared with the tokens in use) and shown to the user.
Park(action) ==
  /\ policy[action.type] = "confirm"
  /\ \E t \in Tokens :
       /\ proposed[t] = NoAction
       /\ Put(t, action)
       /\ proposed' = [proposed EXCEPT ![t] = action]
       /\ RecordAudit(Event(action.type, "confirm", "proposed", t, 0))

Propose(action) ==
  /\ pc = "handling"
  /\ Reject(action.type) \/ Park(action)
  /\ Return
  /\ UNCHANGED <<policy, calls, callTok, callAct, result, remote>>

ProposeCreate == \E action \in CreateActions : Propose(action)

ProposeDelete == \E action \in DeleteActions : Propose(action)

\* handleConfirm for a token that is unknown or has expired.
ConfirmMissing(t) ==
  /\ pc = "handling"
  /\ ~ Usable(t)
  /\ Remove({t})
  /\ Return
  /\ UNCHANGED <<policy, calls, callTok, callAct, result, remote,
                 proposed, audit>>

\* The client sends a write under the deadline of the message: nothing goes out
\* once it has passed.
Outcome == IF ctxLeft > 0 THEN "sent" ELSE "refused"

\* handleConfirm up to the external call, which it makes with the copy of the
\* pending action it has just read.  The entry stays in the map meanwhile.  The
\* client may first have to wait for a new access token.
ConfirmStart(t) ==
  /\ pc = "handling"
  /\ Usable(t)
  /\ calls < MaxCalls
  /\ calls' = calls + 1
  /\ callTok' = [callTok EXCEPT ![calls + 1] = t]
  /\ callAct' = [callAct EXCEPT ![calls + 1] = pending[t]]
  /\ \E first \in {"waiting", Outcome} :
       remote' = [remote EXCEPT ![calls + 1] = first]
  /\ pc' = "calling"
  /\ cur' = t
  /\ UNCHANGED <<policy, pending, left, ctxLeft, result, proposed,
                 audit>>

\* The client waits for a new access token.  The request for it is made with the
\* context of main and without a limit of time.
Renewing == pc = "calling" /\ remote[calls] = "waiting"

\* The token arrives and the write is sent, or the renewal fails.
RenewalEnds ==
  /\ Renewing
  /\ \E then \in {Outcome, "refused"} :
       remote' = [remote EXCEPT ![calls] = then]
  /\ UNCHANGED <<policy, pending, left, pc, cur, ctxLeft, calls, callTok,
                 callAct, result, proposed, audit>>

\* Seeded fault: a response that is not an error counts as a success.
AnyResponseIsOk ==
  /\ pc = "calling"
  /\ result' = [result EXCEPT ![calls] = "ok"]
  /\ pc' = "succeeded"
  /\ UNCHANGED <<policy, pending, left, cur, ctxLeft, calls, callTok, callAct,
                 remote, proposed, audit>>

\* CreateEvent or DeleteEvent returns without an error.
CallReturnsOk ==
  /\ pc = "calling"
  /\ remote[calls] = "applied"
  /\ result' = [result EXCEPT ![calls] = "ok"]
  /\ pc' = "succeeded"
  /\ UNCHANGED <<policy, pending, left, cur, ctxLeft, calls, callTok, callAct,
                 remote, proposed, audit>>

\* It returns an error: Google refused, the connection broke, the deadline
\* passed, or the created event came back in a form that does not convert.
\* The write may have been applied, or may yet be.  A renewal is waited for,
\* whatever the deadline.
CallReturnsErr ==
  /\ pc = "calling"
  /\ ~ Renewing
  /\ result' = [result EXCEPT ![calls] = "err"]
  /\ pc' = "failed"
  /\ UNCHANGED <<policy, pending, left, cur, ctxLeft, calls, callTok, callAct,
                 remote, proposed, audit>>

\* Seeded fault: the executed action stays in the map.
ConfirmKeepsPending ==
  /\ pc = "succeeded"
  /\ RecordAudit(Event(callAct[calls].type, "confirm", "executed", cur, calls))
  /\ Return
  /\ UNCHANGED <<policy, pending, left, calls, callTok, callAct, result, remote,
                 proposed>>

\* The rest of handleConfirm after a success.
ConfirmDone ==
  /\ pc = "succeeded"
  /\ Remove({cur})
  /\ RecordAudit(Event(callAct[calls].type, "confirm", "executed", cur, calls))
  /\ Return
  /\ UNCHANGED <<policy, calls, callTok, callAct, result, remote,
                 proposed>>

\* Seeded fault: a failed write renews the life of its proposal.
FailureRenews ==
  /\ pc = "failed"
  /\ Put(cur, callAct[calls])
  /\ RecordAudit(Event(callAct[calls].type, "confirm", "failed", cur, calls))
  /\ Return
  /\ UNCHANGED <<policy, calls, callTok, callAct, result, remote, proposed>>

\* The rest of handleConfirm after an error: the proposal stays confirmable.
ConfirmFailed ==
  /\ pc = "failed"
  /\ RecordAudit(Event(callAct[calls].type, "confirm", "failed", cur, calls))
  /\ Return
  /\ UNCHANGED <<policy, pending, left, calls, callTok, callAct, result,
                 remote, proposed>>

\* Seeded fault: a cancelled action stays in the map until it expires.
CancelKeepsPending(t) ==
  /\ pc = "handling"
  /\ IF Usable(t)
     THEN RecordAudit(Event(pending[t].type, "confirm", "cancelled", t, 0))
     ELSE UNCHANGED audit
  /\ Return
  /\ UNCHANGED <<policy, pending, left, calls, callTok, callAct, result, remote,
                 proposed>>

\* handleCancel: whatever get finds is removed; only an action that had not
\* expired counts as cancelled and is audited.
Cancel(t) ==
  /\ pc = "handling"
  /\ Remove({t})
  /\ IF Usable(t)
     THEN RecordAudit(Event(pending[t].type, "confirm", "cancelled", t, 0))
     ELSE UNCHANGED audit
  /\ Return
  /\ UNCHANGED <<policy, calls, callTok, callAct, result, remote,
                 proposed>>

\* handlePending: listing purges what has expired.
ListPending ==
  /\ pc = "handling"
  /\ Remove(Expired)
  /\ Return
  /\ UNCHANGED <<policy, calls, callTok, callAct, result, remote,
                 proposed, audit>>
------------------------------------------------------------------------------
(* The surroundings: Google Calendar, the clock, the process.              *)

\* Google applies a write it has received, at once or after the client gave up.
ServerApplies(n) ==
  /\ remote[n] = "sent"
  /\ remote' = [remote EXCEPT ![n] = "applied"]
  /\ UNCHANGED <<policy, pending, left, pc, cur, ctxLeft, calls, callTok,
                 callAct, result, proposed, audit>>

\* Google refuses it (no such event any more, quota, credentials) or never
\* receives it.
ServerRefuses(n) ==
  /\ remote[n] = "sent"
  /\ remote' = [remote EXCEPT ![n] = "refused"]
  /\ UNCHANGED <<policy, pending, left, pc, cur, ctxLeft, calls, callTok,
                 callAct, result, proposed, audit>>

\* Seeded fault: lifetimes run below the expired mark.
TickWraps ==
  /\ left' = [t \in Tokens |-> left[t] - 1]
  /\ UNCHANGED <<policy, pending, pc, cur, ctxLeft, calls, callTok, callAct,
                 result, remote, proposed, audit>>

\* Seeded fault: the request context has no deadline.
TickWithoutDeadline ==
  /\ left' = [t \in Tokens |-> IF left[t] >= 0 THEN left[t] - 1 ELSE -1]
  /\ UNCHANGED <<policy, pending, pc, cur, ctxLeft, calls, callTok, callAct,
                 result, remote, proposed, audit>>

Tick ==
  /\ left' = [t \in Tokens |-> IF left[t] >= 0 THEN left[t] - 1 ELSE -1]
  /\ ctxLeft' = IF ctxLeft > 0 THEN ctxLeft - 1 ELSE 0
  /\ UNCHANGED <<policy, pending, pc, cur, calls, callTok, callAct, result,
                 remote, proposed, audit>>

\* A write that waited for a token dies with the process.
NeverSent ==
  remote' = [n \in Calls |-> IF remote[n] = "waiting" THEN "refused"
                             ELSE remote[n]]

\* Seeded fault: the map survives the process.
CrashKeepsPending ==
  /\ NeverSent
  /\ Return
  /\ UNCHANGED <<policy, pending, left, calls, callTok, callAct, result,
                 proposed, audit>>

\* The process ends (a crash, or a shutdown, which does not wait for the
\* handler) and starts again: the map is gone, the database is not.
Crash ==
  /\ Remove(Tokens)
  /\ NeverSent
  /\ Return
  /\ UNCHANGED <<policy, calls, callTok, callAct, result, proposed, audit>>

Handle ==
  \/ Ignore
  \/ ProposeCreate
  \/ ProposeDelete
  \/ \E t \in Tokens : ConfirmMissing(t) \/ ConfirmStart(t) \/ Cancel(t)
  \/ ListPending

Finish == ConfirmDone \/ ConfirmFailed

Next ==
  \/ Receive
  \/ Handle
  \/ RenewalEnds
  \/ CallReturnsOk
  \/ CallReturnsErr
  \/ Finish
  \/ \E n \in Calls : ServerApplies(n) \/ ServerRefuses(n)
  \/ Tick
  \/ Crash

Spec == Init /\ [][Next]_vars
------------------------------------------------------------------------------
(* Properties.                                                             *)

Launched == 1 .. calls

\* Every write was launched with exactly what the user was shown under its
\* token (proposeCalendarCreateDraft, proposeCalendarDelete), and only where
\* the policy asks for a confirmation.
CallsAsProposed ==
  \A n \in Launched :
    /\ callAct[n] = proposed[callTok[n]]
    /\ policy[callAct[n].type] = "confirm"

\* A second write under one token is made only if the earlier ones returned an
\* error to handleConfirm: never after a success, and never because a crash
\* left the outcome of the first unknown.
RetryOnlyAfterError ==
  \A m, n \in Launched :
    m < n /\ callTok[m] = callTok[n] => result[m] = "err"

\* An `executed' event is written for a write that Google applied and that its
\* subject's token launched (recordAudit in handleConfirm).
ExecutedWasApplied ==
  \A e \in DOMAIN audit :
    e.result = "executed" =>
      /\ e.call \in Launched
      /\ callTok[e.call] = e.subject
      /\ remote[e.call] = "applied"

\* The audit trail of a token ends once: audit_events has at most one row that
\* says it was executed or cancelled, not one of each and neither twice
\* (handleConfirm, handleCancel).
TrailEndsOnce ==
  \A e, f \in DOMAIN audit :
    /\ e.result \in {"executed", "cancelled"}
    /\ f.result \in {"executed", "cancelled"}
    /\ e.subject = f.subject
    => e = f /\ audit[e] = 1

\* Once a token that was shown to the user is no longer confirmable it never
\* becomes so again, and no further write is launched under it.
ClosedForever ==
  [][\A t \in Tokens :
       proposed[t] # NoAction /\ ~ Usable(t) =>
         /\ ~ Usable(t)'
         /\ \A n \in Calls : callTok'[n] = t => callTok[n] = t]_vars

\* A failed write that the user may still retry has left an event in the audit
\* trail: docs/ARCHITECTURE_GOVERNANCE.md:102 says that the confirm flow emits
\* audit events.  (That the proposal is still there excludes a crash.)
FailureAudited ==
  \A n \in Launched :
    /\ result[n] = "err"
    /\ pc = "idle"
    /\ Usable(callTok[n])
    => \E e \in DOMAIN audit : e.call = n /\ e.result = "failed"

\* The gate implements the promise of ConfirmedWrites.
Life(t) ==
  IF proposed[t] = NoAction THEN "unissued"
  ELSE IF \E n \in Calls : callTok[n] = t /\ result[n] = "ok" THEN "executed"
  ELSE IF Usable(t) \/ (pc = "calling" /\ cur = t) THEN "open"
  ELSE "dropped"

Gate == INSTANCE ConfirmedWrites WITH
  Contents <- Actions,
  NoContent <- NoAction,
  NoCall <- 0,
  life <- [t \in Tokens |-> Life(t)],
  content <- proposed,
  writes <- callTok,
  sent <- callAct,
  applied <- {n \in Calls : remote[n] = "applied"},
  underway <- IF pc = "calling" THEN calls ELSE 0

ImplementsGate == Gate!Spec
==============================================================================
