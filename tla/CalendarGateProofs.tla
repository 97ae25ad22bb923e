-------------------------- MODULE CalendarGateProofs --------------------------
(***************************************************************************)
(* CalendarConfirm implements ConfirmedWrites: its initial states map to   *)
(* an initial state of the promise and each of its steps to a step of it   *)
(* or to a stutter.                                                        *)
(***************************************************************************)
EXTENDS CalendarConfirmProofs

\* The tokens under which a write has succeeded.
Executed(t) == \E n \in Calls : callTok[n] = t /\ result[n] = "ok"

\* The tokens the handler or the user may still make a write under.
Open(t) == Usable(t) \/ (pc = "calling" /\ cur = t)

Underway == IF pc = "calling" THEN calls ELSE 0

\* The life of a token by cases.
LEMMA LifeCases ==
  ASSUME NEW t \in Tokens
  PROVE  Life(t) = IF proposed[t] = NoAction THEN "unissued"
                   ELSE IF Executed(t) THEN "executed"
                   ELSE IF Open(t) THEN "open"
                   ELSE "dropped"
  BY DEF Life, Executed, Open

\* An initial state is an initial state of the promise.
LEMMA InitImplements == Init => Gate!Init
<1> SUFFICES ASSUME Init PROVE Gate!Init
  OBVIOUS
<1>1. [t \in Tokens |-> Life(t)] = [t \in Tokens |-> "unissued"]
  BY DEF Init, Life
<1>2. {n \in Calls : remote[n] = "applied"} = {}
  BY DEF Init
<1> QED
  BY <1>1, <1>2 DEF Init, Gate!Init

\* A step that leaves the calls and what was shown alone, and at most closes
\* tokens, is a Drop or a stutter.
LEMMA ClosingImplements ==
  ASSUME UNCHANGED <<callTok, callAct, result, proposed>>,
         \A n \in Calls : remote'[n] = "applied" <=> remote[n] = "applied",
         \A t \in Tokens : Open(t)' => Open(t),
         Underway' \in {Underway, 0}
  PROVE  [Gate!Next]_Gate!vars
<1> DEFINE Closed == {t \in Tokens : Life(t) = "open" /\ Life(t)' = "dropped"}
<1>1. \A t \in Tokens : Executed(t)' <=> Executed(t)
  BY DEF Executed
<1>2. \A t \in Tokens :
        Life(t)' = IF t \in Closed THEN "dropped" ELSE Life(t)
  <2> TAKE t \in Tokens
  <2>1. Life(t)' = IF proposed[t] = NoAction THEN "unissued"
                   ELSE IF Executed(t) THEN "executed"
                   ELSE IF Open(t)' THEN "open"
                   ELSE "dropped"
    BY <1>1 DEF Life, Executed, Open
  <2> QED
    BY <2>1, LifeCases
<1>3. Gate!Drop(Closed)
  BY <1>2 DEF Gate!Drop, Underway
<1> QED
  BY <1>3 DEF Gate!Next

\* Parking a proposal is an Issue.
LEMMA ParkImplements ==
  ASSUME IInv, NEW action \in Actions, Propose(action), Park(action)
  PROVE  Gate!Next
<1>1. PICK t \in Tokens :
        /\ proposed[t] = NoAction
        /\ Put(t, action)
        /\ proposed' = [proposed EXCEPT ![t] = action]
  BY DEF Park
<1>2. /\ UNCHANGED <<calls, callTok, callAct, result, remote>>
      /\ pc = "handling" /\ pc' = "idle"
  BY DEF Propose, Return
<1>3. proposed'[t] # NoAction /\ Usable(t)'
  BY <1>1, NoActionAssumption, TimesAssumption
  DEF IInv, TypeOK, Put, Usable
<1>4. ~ Executed(t)'
  <2> SUFFICES ASSUME NEW n \in Calls, callTok[n] = t, result[n] = "ok"
               PROVE  FALSE
    BY <1>2 DEF Executed
  <2>1. n \in Launched
    BY DEF IInv, LaunchInv
  <2> QED
    BY <1>1, <2>1, LaunchedFacts
<1>5. Life(t) = "unissued" /\ Life(t)' = "open"
  BY <1>1, <1>3, <1>4 DEF Life, Executed
<1>6. ASSUME NEW u \in Tokens \ {t} PROVE Life(u)' = Life(u)
  <2>1. proposed'[u] = proposed[u] /\ (Usable(u)' <=> Usable(u))
    BY <1>1 DEF IInv, TypeOK, Put, Usable
  <2> QED
    BY <1>2, <2>1 DEF Life
<1>7. Gate!Issue(t, action)
  BY <1>1, <1>2, <1>5, <1>6 DEF Gate!Issue
<1> QED
  BY <1>7 DEF Gate!Next

\* Starting a confirmation is a Launch.
LEMMA ConfirmStartImplements ==
  ASSUME IInv, NEW t \in Tokens, ConfirmStart(t)
  PROVE  Gate!Next
<1> DEFINE new == calls + 1
<1>1. new \in Calls /\ new \notin Launched /\ new # 0
  BY CallsAssumption DEF ConfirmStart, IInv, TypeOK, Calls, Launched
<1>2. /\ callTok' = [callTok EXCEPT ![new] = t]
      /\ callAct' = [callAct EXCEPT ![new] = pending[t]]
      /\ \E first \in {"waiting", "sent", "refused"} :
           remote' = [remote EXCEPT ![new] = first]
      /\ UNCHANGED <<pending, left, result, proposed>>
      /\ pc = "handling" /\ pc' = "calling"
      /\ cur' = t /\ calls' = new
      /\ Usable(t)
  BY DEF ConfirmStart, Outcome
<1>3. /\ callTok[new] = NoToken
      /\ result[new] = "none"
      /\ remote[new] = "none"
  BY <1>1 DEF IInv, LaunchInv
<1>4. pending[t] = proposed[t] /\ proposed[t] # NoAction
  BY <1>2 DEF Usable, IInv, MapInv
<1>5. ~ Executed(t)
  <2> SUFFICES ASSUME NEW n \in Calls, callTok[n] = t, result[n] = "ok"
               PROVE  FALSE
    BY DEF Executed
  <2>1. n \in Launched
    BY DEF IInv, LaunchInv
  <2> QED
    BY <1>2, <2>1, OnlyFailures DEF Usable
<1>6. Life(t) = "open"
  BY <1>2, <1>4, <1>5, LifeCases DEF Open
<1>7. ASSUME NEW u \in Tokens PROVE Life(u)' = Life(u)
  <2>1. Executed(u)' <=> Executed(u)
    BY <1>1, <1>2, <1>3 DEF Executed, IInv, TypeOK
  <2>2. Usable(u)' <=> Usable(u)
    BY <1>2 DEF Usable
  <2>3. Open(u)' <=> Open(u)
    BY <1>2, <2>2 DEF Open
  <2>4. Life(u)' = IF proposed[u] = NoAction THEN "unissued"
                   ELSE IF Executed(u)' THEN "executed"
                   ELSE IF Open(u)' THEN "open"
                   ELSE "dropped"
    BY <1>2 DEF Life, Executed, Open
  <2> QED
    BY <2>1, <2>3, <2>4, LifeCases
<1>8. {n \in Calls : remote[n] = "applied"}'
        = {n \in Calls : remote[n] = "applied"}
  BY <1>1, <1>2, <1>3 DEF IInv, TypeOK
<1>9. Gate!Launch(t, new)
  BY <1>2, <1>3, <1>4, <1>6, <1>7, <1>8 DEF Gate!Launch
<1> QED
  BY <1>1, <1>9 DEF Gate!Next

\* The end of a call is a Succeed or a Fail.
LEMMA CallReturnsImplements ==
  ASSUME IInv, CallReturnsOk \/ CallReturnsErr
  PROVE  Gate!Next
<1>1. /\ pc = "calling"
      /\ calls \in Calls /\ calls \in Launched /\ calls # 0
      /\ cur = callTok[calls]
      /\ result[calls] = "none"
      /\ pending[cur] # NoAction
  BY DEF CallReturnsOk, CallReturnsErr, IInv, HandlerInv, TypeOK, Calls,
         Launched
<1>2. cur \in Tokens /\ proposed[cur] # NoAction
  BY <1>1, LaunchedFacts
<1>3. /\ UNCHANGED <<pending, left, cur, calls, callTok, callAct, remote, proposed>>
      /\ pc' # "calling"
  BY DEF CallReturnsOk, CallReturnsErr
<1>4. ASSUME NEW u \in Tokens \ {cur} PROVE Life(u)' = Life(u)
  <2>1. \A n \in Calls : callTok[n] = u => result'[n] = result[n]
    BY <1>1 DEF CallReturnsOk, CallReturnsErr, IInv, TypeOK
  <2>2. Executed(u)' <=> Executed(u)
    BY <1>3, <2>1 DEF Executed
  <2>3. Open(u)' <=> Open(u)
    BY <1>1, <1>3 DEF Open, Usable
  <2>4. Life(u)' = IF proposed[u] = NoAction THEN "unissued"
                   ELSE IF Executed(u)' THEN "executed"
                   ELSE IF Open(u)' THEN "open"
                   ELSE "dropped"
    BY <1>3 DEF Life, Executed, Open
  <2> QED
    BY <2>2, <2>3, <2>4, LifeCases
<1>5. Life(cur)' = IF Executed(cur)' THEN "executed"
                   ELSE IF Usable(cur)' THEN "open"
                   ELSE "dropped"
  BY <1>2, <1>3 DEF Life, Executed
<1>6. CASE CallReturnsOk
  <2>1. remote[calls] = "applied" /\ result'[calls] = "ok"
    BY <1>1, <1>6 DEF CallReturnsOk, IInv, TypeOK
  <2>2. Executed(cur)'
    BY <1>1, <1>3, <2>1 DEF Executed
  <2>3. Life(cur)' = "executed"
    BY <1>5, <2>2
  <2>4. Gate!Succeed(cur)
    BY <1>1, <1>2, <1>3, <1>4, <2>1, <2>3 DEF Gate!Succeed
  <2> QED
    BY <1>2, <2>4 DEF Gate!Next
<1>7. CASE CallReturnsErr
  <2>1. ~ Executed(cur)
    <3> SUFFICES ASSUME NEW n \in Calls, callTok[n] = cur, result[n] = "ok"
                 PROVE  FALSE
      BY DEF Executed
    <3>1. n \in Launched
      BY DEF IInv, LaunchInv
    <3> QED
      BY <1>1, <3>1 DEF IInv, SuccessInv
  <2>2. \A n \in Calls : result'[n] = "ok" => result[n] = "ok"
    BY <1>1, <1>7 DEF CallReturnsErr, IInv, TypeOK
  <2>3. ~ Executed(cur)'
    BY <1>3, <2>1, <2>2 DEF Executed
  <2>4. Life(cur) = "open" /\ Life(cur)' \in {"open", "dropped"}
    BY <1>1, <1>2, <1>5, <2>1, <2>3, LifeCases DEF Open
  <2>5. Gate!Fail(cur)
    BY <1>1, <1>2, <1>3, <1>4, <2>4 DEF Gate!Fail
  <2> QED
    BY <1>2, <2>5 DEF Gate!Next
<1> QED
  BY <1>6, <1>7

\* What Google does with a write is an Apply or a stutter.
LEMMA ServerImplements ==
  ASSUME IInv, NEW n \in Calls, ServerApplies(n) \/ ServerRefuses(n)
  PROVE  [Gate!Next]_Gate!vars
<1>1. UNCHANGED <<pending, left, pc, cur, calls, callTok, callAct, result,
                  proposed>>
  BY DEF ServerApplies, ServerRefuses
<1>2. \A t \in Tokens : Life(t)' = Life(t)
  BY <1>1 DEF Life, Usable
<1>3. CASE ServerApplies(n)
  <2>1. callTok[n] # NoToken
    BY <1>3, TokensAssumption DEF ServerApplies, IInv, LaunchInv
  <2>2. remote[n] # "applied"
    BY <1>3 DEF ServerApplies
  <2>3. {m \in Calls : remote[m] = "applied"}'
          = {m \in Calls : remote[m] = "applied"} \cup {n}
    BY <1>3 DEF ServerApplies, IInv, TypeOK
  <2>4. Gate!Apply(n)
    BY <1>1, <1>2, <2>1, <2>2, <2>3 DEF Gate!Apply
  <2> QED
    BY <2>4 DEF Gate!Next
<1>4. CASE ServerRefuses(n)
  <2>1. {m \in Calls : remote[m] = "applied"}'
          = {m \in Calls : remote[m] = "applied"}
    BY <1>4 DEF ServerRefuses, IInv, TypeOK
  <2> QED
    BY <1>1, <1>2, <2>1 DEF Gate!vars
<1> QED
  BY <1>3, <1>4

\* Every step is a step of the promise or a stutter.
LEMMA StepImplements == IInv /\ [Next]_vars => [Gate!Next]_Gate!vars
<1> SUFFICES ASSUME IInv, [Next]_vars PROVE [Gate!Next]_Gate!vars
  OBVIOUS
<1>a. TypeOK
  BY DEF IInv
<1>b. ASSUME UNCHANGED <<callTok, callAct, result, remote, proposed, left>>,
             UNCHANGED pending, UNCHANGED <<calls, cur>>, pc' = pc
      PROVE  [Gate!Next]_Gate!vars
  BY <1>b, ClosingImplements DEF Open, Usable, Underway
<1>c. ASSUME UNCHANGED <<calls, callTok, callAct, result, proposed>>,
             \A n \in Calls : remote'[n] = "applied" <=> remote[n] = "applied",
             \A t \in Tokens : Usable(t)' => Usable(t), pc' # "calling"
      PROVE  [Gate!Next]_Gate!vars
  BY <1>c, ClosingImplements DEF Open, Underway
<1>1. CASE Receive \/ Ignore
  BY <1>1, <1>c DEF Receive, Ignore, Return, Usable
<1>2. ASSUME NEW action \in Actions, Propose(action)
      PROVE  [Gate!Next]_Gate!vars
  <2>1. CASE Reject(action.type)
    BY <1>2, <1>c, <2>1 DEF Propose, Reject, Return, Usable
  <2>2. CASE Park(action)
    BY <1>2, <2>2, ParkImplements
  <2> QED
    BY <1>2, <2>1, <2>2 DEF Propose
<1>3. ASSUME NEW t \in Tokens, ConfirmMissing(t) \/ Cancel(t)
      PROVE  [Gate!Next]_Gate!vars
  <2>1. \A u \in Tokens : Usable(u)' => Usable(u)
    BY <1>a, <1>3, RemoveCloses DEF ConfirmMissing, Cancel
  <2> QED
    BY <1>3, <1>c, <2>1 DEF ConfirmMissing, Cancel, Return
<1>4. ASSUME NEW t \in Tokens, ConfirmStart(t) PROVE [Gate!Next]_Gate!vars
  BY <1>4, ConfirmStartImplements
<1>5. CASE ListPending \/ Crash
  <2>1. \A u \in Tokens : Usable(u)' => Usable(u)
    BY <1>a, <1>5, RemoveCloses DEF ListPending, Crash
  <2> QED
    BY <1>5, <1>c, <2>1 DEF ListPending, Crash, NeverSent, Return
<1>6. CASE CallReturnsOk \/ CallReturnsErr
  BY <1>6, CallReturnsImplements
<1>7. CASE Finish
  <2>1. \A u \in Tokens : Usable(u)' => Usable(u)
    BY <1>a, <1>7, RemoveCloses DEF Finish, ConfirmDone, ConfirmFailed, Usable
  <2> QED
    BY <1>7, <1>c, <2>1 DEF Finish, ConfirmDone, ConfirmFailed, Return
<1>8. ASSUME NEW n \in Calls, ServerApplies(n) \/ ServerRefuses(n)
      PROVE  [Gate!Next]_Gate!vars
  BY <1>8, ServerImplements
<1>9. CASE Tick
  <2>1. \A u \in Tokens : Usable(u)' => Usable(u)
    BY <1>a, <1>9 DEF Tick, Usable, TypeOK
  <2>2. \A u \in Tokens : Open(u)' => Open(u)
    BY <1>9, <2>1 DEF Open, Tick
  <2> QED
    BY <1>9, <2>2, ClosingImplements DEF Tick, Underway
<1>10. CASE RenewalEnds
  <2>1. \A n \in Calls : remote'[n] = "applied" <=> remote[n] = "applied"
    BY <1>a, <1>10 DEF RenewalEnds, Renewing, Outcome, TypeOK
  <2>2. UNCHANGED <<pending, left, pc, cur, calls, callTok, callAct, result,
                    proposed>>
    BY <1>10 DEF RenewalEnds
  <2> QED
    BY <2>1, <2>2, ClosingImplements DEF Open, Usable, Underway
<1>11. CASE UNCHANGED vars
  BY <1>11, <1>b DEF vars
<1> QED
  BY <1>1, <1>2, <1>3, <1>4, <1>5, <1>6, <1>7, <1>8, <1>9, <1>10, <1>11
  DEF Next, Handle, ProposeCreate, ProposeDelete, Actions

\* The confirmation gate keeps the promise.
THEOREM GateKeepsPromise == Spec => ImplementsGate
  BY InitImplements, StepImplements, Invariance, PTL
  DEF Spec, ImplementsGate, Gate!Spec
===============================================================================
