---------------------------- MODULE RobeBotProofs ----------------------------
(***************************************************************************)
(* Theorems about RobeBot, for any number of messages, any capacity of the *)
(* channel and any number of crashes.  The running program uses the gate   *)
(* only as CalendarConfirm allows, so that what is proved of the gate      *)
(* alone holds of the program; a message makes at most one write, however  *)
(* often it is delivered; and a crash loses at most a channel full.        *)
(***************************************************************************)
EXTENDS RobeBot, CalendarGateProofs, FiniteSetTheorems

(***************************************************************************)
(* The inductive invariant, beside that of the gate.  A process sees the   *)
(* updates in ascending order: what it handles is before what waits in the *)
(* channel, that is before what the poll has returned.                     *)
(***************************************************************************)

Ascending(s) == \A j, k \in 1 .. Len(s) : j < k => s[j] < s[k]

CountersInv ==
  /\ sent \in Seq(Commands)
  /\ confirmed \in Nat
  /\ fetched \in Nat
  /\ current \in Nat

BatchInv ==
  /\ batch \in Seq(Nat)
  /\ Ascending(batch)
  /\ \A k \in 1 .. Len(batch) : fetched < batch[k] /\ batch[k] <= Len(sent)

BufferInv ==
  /\ buffer \in Seq(Nat)
  /\ Ascending(buffer)
  /\ \A k \in 1 .. Len(buffer) :
       buffer[k] \in 1 .. Len(sent) /\ buffer[k] <= fetched

\* An update this process has taken from the channel before.
Behind(i) == i <= fetched /\ \A k \in 1 .. Len(buffer) : i < buffer[k]

CurrentInv == pc # "idle" => current \in 1 .. Len(sent) /\ Behind(current)

\* A write was launched by the confirmation that names its token.
CauseInv ==
  /\ callUpdate \in [Calls -> Nat]
  /\ \A n \in Launched :
       /\ callUpdate[n] \in 1 .. Len(sent)
       /\ sent[callUpdate[n]].cmd = "confirm"
       /\ sent[callUpdate[n]].arg = callTok[n]

\* While a token may still be confirmed again, the confirmations that have
\* launched a write under it are not going to be handled again.
SpentInv ==
  \A n \in Launched :
    \/ pending[callTok[n]] = NoAction
    \/ /\ Behind(callUpdate[n])
       /\ pc = "handling" => callUpdate[n] < current

\* An update is taken once by each process that sees it.
TakenInv ==
  /\ crashes \in Nat
  /\ taken \in [Updates -> Nat]
  /\ \A i \in Updates :
       /\ taken[i] <= 1 + crashes
       /\ ~ Behind(i) => taken[i] <= crashes

BotInv ==
  /\ CountersInv
  /\ BatchInv
  /\ BufferInv
  /\ CurrentInv
  /\ CauseInv
  /\ SpentInv
  /\ OneWritePerUpdate
  /\ TakenInv
------------------------------------------------------------------------------
(* The program takes steps of the gate.                                    *)

\* The message being handled asks for something a user can ask for.
LEMMA AskedTyped ==
  ASSUME CountersInv, CurrentInv, pc # "idle"
  PROVE  /\ Asked \in Commands
         /\ Asked.cmd \in {"create", "delete"} => Asked.arg \in Actions
         /\ Asked.cmd \in {"confirm", "cancel"} => Asked.arg \in Tokens
<1>1. Asked \in Commands
  BY DEF Asked, CountersInv, CurrentInv
<1> QED
  BY <1>1 DEF Commands

\* What the loop does with that message is a step of the handlers.
LEMMA DispatchHandles ==
  ASSUME CountersInv, CurrentInv, pc = "handling", Dispatch
  PROVE  Handle
<1>1. /\ Asked.cmd \in {"create", "delete"} => Asked.arg \in Actions
      /\ Asked.cmd \in {"confirm", "cancel"} => Asked.arg \in Tokens
  BY AskedTyped
<1>2. ASSUME NEW action \in Actions, Propose(action)
      PROVE  ProposeCreate \/ ProposeDelete
  BY <1>2 DEF ProposeCreate, ProposeDelete, Actions
<1> QED
  BY <1>1, <1>2 DEF Dispatch, Handle

\* Every step of the program is a step of the gate or leaves it alone.
LEMMA BotStepIsStep ==
  ASSUME CountersInv, CurrentInv, [BotNext]_allVars
  PROVE  [Next]_vars
<1>1. ASSUME NEW command \in Commands, SendMessage(command)
      PROVE  UNCHANGED vars
  BY <1>1 DEF SendMessage
<1>2. CASE Poll \/ Push
  BY <1>2 DEF Poll, Push
<1>3. CASE Take
  BY <1>3 DEF Take, Next
<1>4. CASE Answer
  BY <1>4, DispatchHandles DEF Answer, Next
<1>5. CASE Confirm
  <2>1. Asked.arg \in Tokens
    BY <1>5, AskedTyped DEF Confirm
  <2> QED
    BY <1>5, <2>1 DEF Confirm, Next, Handle
<1>6. CASE CallReturns \/ Complete \/ World \/ Restart
  BY <1>6 DEF CallReturns, Complete, World, Restart, Next
<1>7. CASE UNCHANGED allVars
  BY <1>7 DEF allVars
<1> QED
  BY <1>1, <1>2, <1>3, <1>4, <1>5, <1>6, <1>7 DEF BotNext
------------------------------------------------------------------------------
(* Steps of the poller and of the loop.                                    *)

\* The writes launched so far stay spent if their tokens are not put back and
\* what this process has seen stays behind it.
LEMMA SpentKeeps ==
  ASSUME BotInv,
         UNCHANGED <<calls, callTok, callUpdate>>,
         \A n \in Launched :
           pending'[callTok[n]] \in {NoAction, pending[callTok[n]]},
         \A i \in Nat : Behind(i) =>
           Behind(i)' /\ (pc' = "handling" => i < current' \/ UNCHANGED <<pc, current>>)
  PROVE  SpentInv'
<1> SUFFICES ASSUME NEW n \in Launched, pending'[callTok[n]] # NoAction
             PROVE  /\ Behind(callUpdate[n])'
                    /\ pc' = "handling" => callUpdate[n] < current'
  BY DEF SpentInv, Launched
<1>1. callUpdate[n] \in Nat
  BY DEF BotInv, CauseInv
<1>2. pending[callTok[n]] # NoAction
  OBVIOUS
<1>3. Behind(callUpdate[n]) /\ (pc = "handling" => callUpdate[n] < current)
  BY <1>2 DEF BotInv, SpentInv
<1> QED
  BY <1>1, <1>3

\* The causes of the writes are not touched by a step that launches none.
LEMMA CausesKeep ==
  ASSUME BotInv, UNCHANGED <<calls, callTok, callUpdate, sent>>
  PROVE  CauseInv' /\ OneWritePerUpdate'
  BY DEF BotInv, CauseInv, OneWritePerUpdate, Launched

\* A message that is sent comes after all others.
LEMMA SendKeeps ==
  ASSUME BotInv, NEW command \in Commands, SendMessage(command)
  PROVE  BotInv'
<1>1. /\ UNCHANGED vars
      /\ UNCHANGED <<confirmed, fetched, batch, buffer, current, taken,
                     callUpdate, crashes>>
      /\ sent' = Append(sent, command)
  BY DEF SendMessage
<1>2. /\ sent \in Seq(Commands) /\ sent' \in Seq(Commands)
      /\ Len(sent') = Len(sent) + 1
      /\ \A i \in 1 .. Len(sent) : sent'[i] = sent[i]
  BY <1>1 DEF BotInv, CountersInv
<1>3. 1 .. Len(sent) \subseteq 1 .. Len(sent')
  BY <1>2
<1>4. CountersInv' /\ BatchInv' /\ BufferInv' /\ CurrentInv'
  BY <1>1, <1>2, <1>3
  DEF BotInv, CountersInv, BatchInv, BufferInv, CurrentInv, Ascending, Behind, vars
<1>5. CauseInv'
  BY <1>1, <1>2, <1>3 DEF BotInv, CauseInv, Launched, vars
<1>6. SpentInv' /\ OneWritePerUpdate' /\ TakenInv'
  BY <1>1 DEF BotInv, SpentInv, OneWritePerUpdate, TakenInv, Launched, Behind, vars
<1> QED
  BY <1>4, <1>5, <1>6 DEF BotInv

\* A poll returns, in order, what comes after all that was fetched.
LEMMA PollKeeps ==
  ASSUME BotInv, Poll
  PROVE  BotInv'
<1> DEFINE first == IF fetched > confirmed THEN fetched + 1 ELSE confirmed + 1
<1>1. /\ UNCHANGED vars
      /\ UNCHANGED <<sent, fetched, buffer, current, taken, callUpdate, crashes>>
      /\ confirmed' \in {confirmed, fetched}
      /\ batch' \in {Unfetched, << >>}
  BY DEF Poll
<1>2. /\ sent \in Seq(Commands) /\ fetched \in Nat /\ confirmed \in Nat
      /\ first \in Nat /\ fetched < first
  BY DEF BotInv, CountersInv
<1>3. BatchInv'
  <2>1. CASE batch' = << >>
    BY <1>1, <2>1 DEF BatchInv, Ascending
  <2>2. CASE batch' = Unfetched
    <3> DEFINE n == Len(sent) - first + 1
    <3>1. batch' = [i \in 1 .. n |-> first + i - 1]
      BY <2>2 DEF Unfetched
    <3>2. n \in Int /\ Len(sent) \in Nat
      BY <1>2
    <3>3. CASE n <= 0
      <4>1. batch' = << >>
        BY <3>1, <3>2, <3>3
      <4> QED
        BY <2>1, <4>1
    <3>4. CASE n > 0
      <4> HIDE DEF n, first
      <4>1. batch' \in Seq(Nat) /\ Len(batch') = n
        BY <1>2, <3>1, <3>2, <3>4
      <4>2. \A k \in 1 .. n : batch'[k] = first + k - 1
        BY <3>1
      <4>3. \A k \in 1 .. n : first + k - 1 <= Len(sent)
        BY <1>2, <3>2 DEF n
      <4> QED
        BY <1>1, <1>2, <3>2, <4>1, <4>2, <4>3 DEF BatchInv, Ascending
    <3> QED
      BY <3>2, <3>3, <3>4
  <2> QED
    BY <1>1, <2>1, <2>2
<1>4. CountersInv' /\ BufferInv' /\ CurrentInv'
  BY <1>1, <1>2
  DEF BotInv, CountersInv, BufferInv, CurrentInv, Ascending, Behind, vars
<1>5. CauseInv' /\ SpentInv' /\ OneWritePerUpdate' /\ TakenInv'
  BY <1>1
  DEF BotInv, CauseInv, SpentInv, OneWritePerUpdate, TakenInv, Launched, Behind, vars
<1> QED
  BY <1>3, <1>4, <1>5 DEF BotInv

\* Facts about ascending sequences: what is left of one without its first
\* element, and one with a larger element at its end.
LEMMA AscendingTail ==
  ASSUME NEW s \in Seq(Nat), s # << >>, Ascending(s)
  PROVE  /\ Tail(s) \in Seq(Nat)
         /\ Ascending(Tail(s))
         /\ \A k \in 1 .. Len(Tail(s)) :
              k + 1 \in 1 .. Len(s) /\ Tail(s)[k] = s[k + 1] /\ s[1] < Tail(s)[k]
<1>1. Len(s) \in Nat /\ Len(s) >= 1
  OBVIOUS
<1>2. Tail(s) \in Seq(Nat) /\ Len(Tail(s)) = Len(s) - 1
  OBVIOUS
<1>3. \A k \in 1 .. Len(Tail(s)) : k + 1 \in 1 .. Len(s) /\ Tail(s)[k] = s[k + 1]
  BY <1>1, <1>2
<1>4. ASSUME NEW j \in 1 .. Len(Tail(s)), NEW k \in 1 .. Len(Tail(s)), j < k
      PROVE  Tail(s)[j] < Tail(s)[k]
  <2>1. j + 1 \in 1 .. Len(s) /\ k + 1 \in 1 .. Len(s) /\ j + 1 < k + 1
    BY <1>1, <1>2, <1>4
  <2>2. s[j + 1] < s[k + 1]
    BY <2>1 DEF Ascending
  <2> QED
    BY <1>3, <2>2
<1>5. ASSUME NEW k \in 1 .. Len(Tail(s)) PROVE s[1] < Tail(s)[k]
  <2>1. 1 \in 1 .. Len(s) /\ k + 1 \in 1 .. Len(s) /\ 1 < k + 1
    BY <1>1, <1>2, <1>5
  <2>2. s[1] < s[k + 1]
    BY <2>1 DEF Ascending
  <2> QED
    BY <1>3, <2>2
<1> QED
  BY <1>2, <1>3, <1>4, <1>5 DEF Ascending

LEMMA AscendingAppend ==
  ASSUME NEW s \in Seq(Nat), Ascending(s), NEW x \in Nat,
         \A k \in 1 .. Len(s) : s[k] < x
  PROVE  /\ Append(s, x) \in Seq(Nat)
         /\ Ascending(Append(s, x))
         /\ \A k \in 1 .. Len(Append(s, x)) :
              \/ k \in 1 .. Len(s) /\ Append(s, x)[k] = s[k]
              \/ Append(s, x)[k] = x
<1> DEFINE a == Append(s, x)
<1>1. Len(s) \in Nat /\ a \in Seq(Nat) /\ Len(a) = Len(s) + 1
  OBVIOUS
<1>2. /\ \A k \in 1 .. Len(s) : a[k] = s[k]
      /\ a[Len(s) + 1] = x
  BY <1>1
<1>3. \A k \in 1 .. Len(a) : k \in 1 .. Len(s) \/ k = Len(s) + 1
  BY <1>1
<1>4. ASSUME NEW j \in 1 .. Len(a), NEW k \in 1 .. Len(a), j < k
      PROVE  a[j] < a[k]
  <2>1. j \in 1 .. Len(s)
    BY <1>1, <1>4
  <2>2. CASE k \in 1 .. Len(s)
    BY <1>2, <1>4, <2>1, <2>2 DEF Ascending
  <2>3. CASE k = Len(s) + 1
    BY <1>2, <2>1, <2>3
  <2> QED
    BY <1>3, <2>2, <2>3
<1> QED
  BY <1>1, <1>2, <1>3, <1>4 DEF Ascending

\* The first update of the batch becomes the last one of the channel.
LEMMA PushKeeps ==
  ASSUME BotInv, Push
  PROVE  BotInv'
<1> PICK first : first = batch[1]
  OBVIOUS
<1>1. /\ UNCHANGED vars
      /\ UNCHANGED <<sent, confirmed, current, taken, callUpdate, crashes>>
      /\ batch # << >>
      /\ buffer' = Append(buffer, first)
      /\ fetched' = first
      /\ batch' = Tail(batch)
  BY DEF Push
<1>2. /\ sent \in Seq(Commands) /\ fetched \in Nat
      /\ batch \in Seq(Nat) /\ Ascending(batch)
      /\ \A k \in 1 .. Len(batch) : fetched < batch[k] /\ batch[k] <= Len(sent)
      /\ buffer \in Seq(Nat) /\ Ascending(buffer)
      /\ \A k \in 1 .. Len(buffer) :
           buffer[k] \in 1 .. Len(sent) /\ buffer[k] <= fetched
  BY DEF BotInv, CountersInv, BatchInv, BufferInv
<1>3. first \in Nat /\ fetched < first /\ first \in 1 .. Len(sent)
  BY <1>1, <1>2
<1>4. \A k \in 1 .. Len(buffer) : buffer[k] \in Nat /\ buffer[k] < first
  BY <1>2, <1>3
<1>5. BatchInv'
  <2>1. /\ batch' \in Seq(Nat)
        /\ Ascending(batch')
        /\ \A k \in 1 .. Len(batch') :
             k + 1 \in 1 .. Len(batch) /\ batch'[k] = batch[k + 1] /\ first < batch'[k]
    BY <1>1, <1>2, AscendingTail
  <2>2. \A k \in 1 .. Len(batch') : first < batch'[k] /\ batch'[k] <= Len(sent)
    BY <1>2, <2>1
  <2> QED
    BY <1>1, <2>1, <2>2 DEF BatchInv, Ascending
<1>6. /\ buffer' \in Seq(Nat)
      /\ Ascending(buffer')
      /\ \A k \in 1 .. Len(buffer') :
           \/ k \in 1 .. Len(buffer) /\ buffer'[k] = buffer[k]
           \/ buffer'[k] = first
  BY <1>1, <1>2, <1>3, <1>4, AscendingAppend
<1>7. BufferInv'
  <2>1. ASSUME NEW k \in 1 .. Len(buffer')
        PROVE  buffer'[k] \in 1 .. Len(sent) /\ buffer'[k] <= first
    <3>1. CASE k \in 1 .. Len(buffer) /\ buffer'[k] = buffer[k]
      <4>1. /\ buffer[k] \in 1 .. Len(sent)
            /\ buffer[k] \in Nat /\ buffer[k] < first
        BY <1>2, <1>4, <3>1
      <4> QED
        BY <1>3, <3>1, <4>1
    <3>2. CASE buffer'[k] = first
      BY <1>3, <3>2
    <3> QED
      BY <1>6, <3>1, <3>2
  <2> QED
    BY <1>1, <1>6, <2>1 DEF BufferInv, Ascending
<1>8. \A i \in Nat : Behind(i) => Behind(i)'
  BY <1>1, <1>2, <1>3, <1>6 DEF Behind
<1>9. CountersInv' /\ CurrentInv'
  BY <1>1, <1>3, <1>8 DEF BotInv, CountersInv, CurrentInv, vars
<1>10. CauseInv' /\ OneWritePerUpdate'
  BY <1>1, CausesKeep DEF vars
<1>11. SpentInv'
  BY <1>1, <1>8, SpentKeeps DEF vars
<1>12. TakenInv'
  <2>1. Updates \subseteq Nat
    BY DEF Updates
  <2> QED
    BY <1>1, <1>8, <2>1 DEF BotInv, TakenInv
<1> QED
  BY <1>5, <1>7, <1>9, <1>10, <1>11, <1>12 DEF BotInv

\* The update taken from the channel was not behind, and is now.
LEMMA TakeKeeps ==
  ASSUME BotInv, Take
  PROVE  BotInv'
<1> PICK first : first = buffer[1]
  OBVIOUS
<1>1. /\ UNCHANGED <<pending, calls, callTok>>
      /\ UNCHANGED <<sent, confirmed, fetched, batch, callUpdate, crashes>>
      /\ buffer # << >>
      /\ buffer' = Tail(buffer)
      /\ taken' = [taken EXCEPT ![first] = @ + 1]
      /\ \/ current' = 0 /\ pc' = "idle"
         \/ current' = first /\ pc' = "handling"
  BY DEF Take, Receive, vars
<1>2. /\ sent \in Seq(Commands) /\ fetched \in Nat
      /\ buffer \in Seq(Nat) /\ Ascending(buffer)
      /\ \A k \in 1 .. Len(buffer) :
           buffer[k] \in 1 .. Len(sent) /\ buffer[k] <= fetched
  BY DEF BotInv, CountersInv, BufferInv
<1>3. /\ Len(buffer) \in Nat /\ 1 \in 1 .. Len(buffer)
      /\ first \in Nat /\ first \in 1 .. Len(sent) /\ first <= fetched
  BY <1>1, <1>2
<1>4. /\ buffer' \in Seq(Nat)
      /\ Ascending(buffer')
      /\ \A k \in 1 .. Len(buffer') :
           /\ k + 1 \in 1 .. Len(buffer) /\ buffer'[k] = buffer[k + 1]
           /\ first < buffer'[k]
  BY <1>1, <1>2, AscendingTail
<1>6. BufferInv' /\ BatchInv'
  BY <1>1, <1>2, <1>4 DEF BotInv, BufferInv, BatchInv, Ascending
<1>7. Behind(first)' /\ ~ Behind(first)
  BY <1>1, <1>3, <1>4 DEF Behind
<1>8. \A i \in Nat : Behind(i) => Behind(i)' /\ i < first
  BY <1>1, <1>3, <1>4 DEF Behind
<1>9. CountersInv' /\ CurrentInv'
  BY <1>1, <1>3, <1>7 DEF BotInv, CountersInv, CurrentInv
<1>10. CauseInv' /\ OneWritePerUpdate'
  BY <1>1, CausesKeep
<1>11. SpentInv'
  BY <1>1, <1>8, SpentKeeps
<1>12. TakenInv'
  <2>1. Updates \subseteq Nat
    BY DEF Updates
  <2>2. \A i \in Updates :
          /\ taken[i] \in Nat /\ taken[i] <= 1 + crashes
          /\ taken'[i] = IF i = first THEN taken[i] + 1 ELSE taken[i]
    BY <1>1 DEF BotInv, TakenInv
  <2>3. crashes \in Nat /\ taken' \in [Updates -> Nat]
    <3>1. crashes \in Nat /\ taken \in [Updates -> Nat]
      BY DEF BotInv, TakenInv
    <3>2. first \in Updates => taken[first] + 1 \in Nat
      BY <2>2
    <3> QED
      BY <1>1, <3>1, <3>2
  <2>4. ASSUME NEW i \in Updates
        PROVE  taken'[i] <= 1 + crashes /\ (~ Behind(i)' => taken'[i] <= crashes)
    <3>1. i \in Nat /\ (~ Behind(i) => taken[i] <= crashes)
      BY <2>1 DEF BotInv, TakenInv
    <3>2. CASE i = first
      BY <1>7, <2>2, <2>3, <3>1, <3>2
    <3>3. CASE i # first
      BY <1>8, <2>2, <3>1, <3>3
    <3> QED
      BY <3>2, <3>3
  <2> QED
    BY <1>1, <2>3, <2>4 DEF TakenInv
<1> QED
  BY <1>6, <1>9, <1>10, <1>11, <1>12 DEF BotInv
------------------------------------------------------------------------------
(* Steps of the handlers and of the surroundings.                          *)

\* What the handlers of the gate do to the tokens of writes, when they return:
\* none of these tokens is put back into the map.
LEMMA HandlersReturn ==
  ASSUME IInv, BotInv, Answer \/ Complete
  PROVE  /\ UNCHANGED <<calls, callTok>>
         /\ pc' = "idle"
         /\ \A n \in Launched :
              pending'[callTok[n]] \in {NoAction, pending[callTok[n]]}
<1>1. \A n \in Launched :
        /\ callTok[n] \in Tokens
        /\ proposed[callTok[n]] # NoAction
  BY LaunchedFacts, NoActionAssumption DEF IInv, LaunchInv
<1>2. pending \in [Tokens -> Actions \cup {NoAction}]
  BY DEF IInv, TypeOK
<1>3. ASSUME NEW action, Propose(action)
      PROVE  \A n \in Launched : pending'[callTok[n]] = pending[callTok[n]]
  <2>1. CASE Reject(action.type)
    BY <2>1 DEF Reject
  <2>2. CASE Park(action)
    BY <1>1, <1>2, <2>2 DEF Park, Put
  <2> QED
    BY <1>3, <2>1, <2>2 DEF Propose
<1>4. ASSUME NEW S, Remove(S)
      PROVE  \A n \in Launched :
               pending'[callTok[n]] \in {NoAction, pending[callTok[n]]}
  BY <1>1, <1>4, RemoveEffect
<1>5. CASE Answer
  <2>1. CASE Ignore
    BY <2>1 DEF Ignore, Return
  <2>2. CASE Propose(Asked.arg)
    BY <1>3, <2>2 DEF Propose, Return
  <2>3. CASE ConfirmMissing(Asked.arg)
    BY <1>4, <2>3 DEF ConfirmMissing, Return
  <2>4. CASE Cancel(Asked.arg)
    BY <1>4, <2>4 DEF Cancel, Return
  <2>5. CASE ListPending
    BY <1>4, <2>5 DEF ListPending, Return
  <2> QED
    BY <1>5, <2>1, <2>2, <2>3, <2>4, <2>5 DEF Answer, Dispatch
<1>6. CASE Complete
  <2>1. CASE ConfirmDone
    BY <1>4, <2>1 DEF ConfirmDone, Return
  <2>2. CASE ConfirmFailed
    BY <2>2 DEF ConfirmFailed, Return
  <2> QED
    BY <1>6, <2>1, <2>2 DEF Complete, Finish
<1> QED
  BY <1>5, <1>6

\* The handler returns: what it changed of the map only closes tokens.
LEMMA ReturnKeeps ==
  ASSUME IInv, BotInv, Answer \/ Complete
  PROVE  BotInv'
<1>1. /\ UNCHANGED <<sent, confirmed, fetched, batch, buffer, taken, callUpdate,
                     crashes>>
      /\ current' = 0
  BY DEF Answer, Complete
<1>2. /\ UNCHANGED <<calls, callTok>>
      /\ pc' = "idle"
      /\ \A n \in Launched :
           pending'[callTok[n]] \in {NoAction, pending[callTok[n]]}
  BY HandlersReturn
<1>3. CountersInv' /\ BatchInv' /\ BufferInv' /\ CurrentInv' /\ TakenInv'
  BY <1>1, <1>2
  DEF BotInv, CountersInv, BatchInv, BufferInv, CurrentInv, TakenInv, Ascending,
      Behind
<1>4. \A i \in Nat : Behind(i) => Behind(i)'
  BY <1>1 DEF Behind
<1>5. SpentInv'
  BY <1>1, <1>2, <1>4, SpentKeeps
<1>6. CauseInv' /\ OneWritePerUpdate'
  BY <1>1, <1>2, CausesKeep
<1> QED
  BY <1>3, <1>5, <1>6 DEF BotInv

\* A confirmation launches a write under a token that is in the map, so none of
\* the writes before was launched by the same message.
LEMMA ConfirmKeeps ==
  ASSUME IInv, BotInv, Confirm
  PROVE  BotInv'
<1> DEFINE new == calls + 1
<1>1. /\ pc = "handling" /\ pc' = "calling"
      /\ Asked.cmd = "confirm"
      /\ pending[Asked.arg] # NoAction
      /\ calls' = new /\ calls < MaxCalls
      /\ callTok' = [callTok EXCEPT ![new] = Asked.arg]
      /\ callUpdate' = [callUpdate EXCEPT ![new] = current]
      /\ UNCHANGED <<pending, sent, confirmed, fetched, batch, buffer, current,
                     taken, crashes>>
  BY DEF Confirm, ConfirmStart, Usable
<1>2. /\ calls \in Nat /\ new \in Calls /\ new \notin Launched
      /\ callTok \in [Calls -> Tokens \cup {NoToken}]
      /\ callUpdate \in [Calls -> Nat]
      /\ Launched \subseteq Calls
      /\ Launched' = Launched \cup {new}
  BY <1>1, CallsAssumption DEF IInv, TypeOK, BotInv, CauseInv, Launched, Calls
<1>3. /\ callTok'[new] = Asked.arg /\ callUpdate'[new] = current
      /\ \A n \in Launched :
           callTok'[n] = callTok[n] /\ callUpdate'[n] = callUpdate[n]
  BY <1>1, <1>2
<1>4. current \in Nat /\ current \in 1 .. Len(sent) /\ Behind(current)
  BY <1>1 DEF BotInv, CountersInv, CurrentInv
<1>5. CountersInv' /\ BatchInv' /\ BufferInv' /\ CurrentInv' /\ TakenInv'
  BY <1>1, <1>4
  DEF BotInv, CountersInv, BatchInv, BufferInv, CurrentInv, TakenInv, Ascending,
      Behind
<1>6. CauseInv'
  <2>1. callUpdate' \in [Calls -> Nat]
    BY <1>1, <1>2, <1>4
  <2>2. ASSUME NEW n \in Launched'
        PROVE  /\ callUpdate'[n] \in 1 .. Len(sent)
               /\ sent[callUpdate'[n]].cmd = "confirm"
               /\ sent[callUpdate'[n]].arg = callTok'[n]
    <3>1. CASE n = new
      BY <1>1, <1>3, <1>4, <3>1 DEF Asked
    <3>2. CASE n \in Launched
      BY <1>3, <3>2 DEF BotInv, CauseInv
    <3> QED
      BY <1>2, <3>1, <3>2
  <2> QED
    BY <1>1, <2>1, <2>2 DEF CauseInv
<1>7. SpentInv'
  <2>1. \A i : Behind(i) => Behind(i)'
    BY <1>1 DEF Behind
  <2>2. ASSUME NEW n \in Launched'
        PROVE  pending'[callTok'[n]] = NoAction \/ Behind(callUpdate'[n])
    <3>1. CASE n = new
      BY <1>3, <1>4, <3>1
    <3>2. CASE n \in Launched
      BY <1>1, <1>3, <3>2 DEF BotInv, SpentInv
    <3> QED
      BY <1>2, <3>1, <3>2
  <2> QED
    BY <1>1, <2>2 DEF SpentInv, Behind
<1>8. OneWritePerUpdate'
  <2>1. ASSUME NEW n \in Launched PROVE callUpdate[n] # current
    <3>1. CASE callTok[n] = Asked.arg
      <4>1. callUpdate[n] < current
        BY <1>1, <3>1 DEF BotInv, SpentInv
      <4> QED
        BY <1>4, <4>1
    <3>2. CASE callTok[n] # Asked.arg
      BY <3>2 DEF BotInv, CauseInv, Asked
    <3> QED
      BY <3>1, <3>2
  <2>2. ASSUME NEW m \in Launched', NEW n \in Launched',
               callUpdate'[m] = callUpdate'[n]
        PROVE  m = n
    <3>1. CASE m \in Launched /\ n \in Launched
      BY <1>3, <2>2, <3>1 DEF BotInv, OneWritePerUpdate
    <3>2. CASE m = new \/ n = new
      BY <1>2, <1>3, <2>1, <2>2, <3>2
    <3> QED
      BY <1>2, <3>1, <3>2
  <2> QED
    BY <2>2 DEF OneWritePerUpdate
<1> QED
  BY <1>5, <1>6, <1>7, <1>8 DEF BotInv

\* The answer to a write, the clock and Google touch nothing of all this.
LEMMA WorldKeeps ==
  ASSUME BotInv, CallReturns \/ World \/ UNCHANGED allVars
  PROVE  BotInv'
<1>1. /\ UNCHANGED botVars
      /\ UNCHANGED <<pending, calls, callTok>>
      /\ pc' \in {"idle", "handling"} => pc' = pc
      /\ pc = "idle" => pc' = "idle"
  BY DEF CallReturns, RenewalEnds, Renewing, CallReturnsOk, CallReturnsErr, World,
         Tick, ServerApplies, ServerRefuses, allVars, vars
<1>2. CountersInv' /\ BatchInv' /\ BufferInv' /\ CurrentInv' /\ TakenInv'
  BY <1>1
  DEF BotInv, CountersInv, BatchInv, BufferInv, CurrentInv, TakenInv, Ascending,
      Behind, botVars
<1>3. CauseInv' /\ SpentInv' /\ OneWritePerUpdate'
  BY <1>1
  DEF BotInv, CauseInv, SpentInv, OneWritePerUpdate, Launched, Behind, botVars
<1> QED
  BY <1>2, <1>3 DEF BotInv

\* A crash empties the map, which spends every write, and the next process has
\* seen nothing.
LEMMA RestartKeeps ==
  ASSUME IInv, BotInv, Restart
  PROVE  BotInv'
<1>1. /\ UNCHANGED <<calls, callTok, sent, confirmed, taken, callUpdate>>
      /\ crashes' = crashes + 1
      /\ fetched' = 0 /\ batch' = << >> /\ buffer' = << >> /\ current' = 0
      /\ pc' = "idle"
      /\ \A t \in Tokens : pending'[t] = NoAction
  BY DEF Restart, Crash, Return, Remove
<1>2. CountersInv' /\ BatchInv' /\ BufferInv' /\ CurrentInv'
  BY <1>1
  DEF BotInv, CountersInv, BatchInv, BufferInv, CurrentInv, Ascending
<1>3. SpentInv'
  BY <1>1, LaunchedFacts DEF SpentInv, Launched
<1>4. CauseInv' /\ OneWritePerUpdate'
  BY <1>1, CausesKeep
<1>5. TakenInv'
  <2>1. crashes \in Nat /\ \A i \in Updates : taken[i] \in Nat /\ taken[i] <= 1 + crashes
    BY DEF BotInv, TakenInv
  <2> QED
    BY <1>1, <2>1 DEF BotInv, TakenInv
<1> QED
  BY <1>2, <1>3, <1>4, <1>5 DEF BotInv
------------------------------------------------------------------------------
(* The invariant, and what follows from it.                                *)

\* An initial state of the program is one of the gate.
LEMMA BotInitInv == BotInit => IInv /\ BotInv
<1> SUFFICES ASSUME BotInit PROVE IInv /\ BotInv
  OBVIOUS
<1>1. IInv
  BY InitInv DEF BotInit
<1>2. calls = 0 /\ pc = "idle"
  BY DEF BotInit, Init
<1>3. CountersInv /\ BatchInv /\ BufferInv /\ CurrentInv /\ TakenInv
  BY <1>2
  DEF BotInit, CountersInv, BatchInv, BufferInv, CurrentInv, TakenInv, Ascending
<1>4. CauseInv /\ SpentInv /\ OneWritePerUpdate
  BY <1>2 DEF BotInit, CauseInv, SpentInv, OneWritePerUpdate, Launched
<1> QED
  BY <1>1, <1>3, <1>4 DEF BotInv

LEMMA BotNextInv ==
  IInv /\ BotInv /\ [BotNext]_allVars => [Next]_vars /\ IInv' /\ BotInv'
<1> SUFFICES ASSUME IInv, BotInv, [BotNext]_allVars
             PROVE  [Next]_vars /\ IInv' /\ BotInv'
  OBVIOUS
<1>1. [Next]_vars
  BY BotStepIsStep DEF BotInv
<1>2. IInv'
  BY <1>1, NextInv
<1>3. BotInv'
  BY SendKeeps, PollKeeps, PushKeeps, TakeKeeps, ReturnKeeps, ConfirmKeeps,
     WorldKeeps, RestartKeeps
  DEF BotNext
<1> QED
  BY <1>1, <1>2, <1>3

\* The invariant of the gate and that of the program hold together.
THEOREM BotInvariance == BotSpec => [](IInv /\ BotInv)
  BY BotInitInv, BotNextInv, PTL DEF BotSpec

\* Whatever the running program does, it is a behaviour of the gate: every
\* theorem about Spec holds of BotSpec.
THEOREM BotIsGate == BotSpec => ImplementsConfirm
<1>1. BotInit => Init
  BY DEF BotInit
<1> QED
  BY <1>1, BotNextInv, BotInvariance, PTL DEF BotSpec, Spec, ImplementsConfirm

\* The program keeps the promise of ConfirmedWrites to its user, through the
\* gate.
THEOREM BotKeepsPromise == BotSpec => ImplementsGate
  BY BotIsGate, GateKeepsPromise DEF ImplementsConfirm

\* No message makes two writes, however often it is delivered.
THEOREM OneWriteEach == BotSpec => []OneWritePerUpdate
<1>1. BotInv => OneWritePerUpdate
  BY DEF BotInv
<1> QED
  BY <1>1, BotInvariance, PTL

\* A message is handled at most once by each process.
THEOREM RedeliveryIsRare == BotSpec => []RedeliveryNeedsCrash
<1>1. BotInv => RedeliveryNeedsCrash
  BY DEF BotInv, TakenInv, RedeliveryNeedsCrash
<1> QED
  BY <1>1, BotInvariance, PTL
------------------------------------------------------------------------------
(***************************************************************************)
(* What a crash may lose.  A poll returns the updates after the last one   *)
(* that this process has pushed or that Telegram has forgotten, without a  *)
(* gap; so nothing is skipped but what was in the channel of a process     *)
(* that died.                                                              *)
(***************************************************************************)

\* The last update that is out of Telegram's hands.
Reached == IF fetched > confirmed THEN fetched ELSE confirmed

\* The updates up to there that the loop has not taken and will not take.
Missing == {i \in Updates : i <= Reached /\ taken[i] = 0 /\ ~ Waiting(i)}

NoGapInv == \A k \in 1 .. Len(batch) : batch[k] = Reached + k

RoomInv == Len(buffer) <= BufferSize

MissingInv == Cardinality(Missing) <= crashes * BufferSize

LossInv == NoGapInv /\ RoomInv /\ MissingInv

\* Sets of updates are finite.
LEMMA UpdatesFinite ==
  ASSUME NEW S \in SUBSET Updates
  PROVE  /\ IsFiniteSet(S)
         /\ Cardinality(S) \in Nat
         /\ \A T \in SUBSET S : Cardinality(T) <= Cardinality(S)
<1>1. MaxUpdates \in Nat
  BY BotAssumption
<1>2. IsFiniteSet(Updates)
  BY <1>1, FS_Interval DEF Updates
<1>3. IsFiniteSet(S)
  BY <1>2, FS_Subset
<1>. QED BY <1>3, FS_CardinalityType, FS_Subset

\* A step that loses nothing more.
LEMMA NothingMoreMissing ==
  ASSUME MissingInv, crashes \in Nat, UNCHANGED crashes, Missing' \subseteq Missing
  PROVE  MissingInv'
<1>1. Missing \in SUBSET Updates
  BY DEF Missing
<1>2. /\ Cardinality(Missing') <= Cardinality(Missing)
      /\ Cardinality(Missing') \in Nat /\ Cardinality(Missing) \in Nat
  BY <1>1, UpdatesFinite
<1>3. crashes * BufferSize \in Nat
  BY BotAssumption
<1>. QED BY <1>2, <1>3 DEF MissingInv

\* A poll moves nothing out of Telegram's hands but what it has pushed before.
LEMMA PollLosesNothing ==
  ASSUME BotInv, LossInv, Poll
  PROVE  LossInv'
<1>1. /\ sent \in Seq(Commands) /\ fetched \in Nat /\ confirmed \in Nat
      /\ crashes \in Nat
  BY DEF BotInv, CountersInv, TakenInv
<1>2. /\ confirmed' = IF fetched > confirmed THEN fetched ELSE confirmed
      /\ batch' \in {Unfetched, << >>}
      /\ UNCHANGED <<fetched, buffer, taken, crashes>>
  BY DEF Poll
<1>3. Reached' = Reached /\ Reached \in Nat
  BY <1>1, <1>2 DEF Reached
<1>4. Unfetched = [i \in 1 .. Len(sent) - Reached |-> Reached + i]
  <2>1. \A i \in Int : Len(sent) - (Reached + 1) + 1 = Len(sent) - Reached
                       /\ (Reached + 1) + i - 1 = Reached + i
    BY <1>1, <1>3
  <2>2. CASE fetched > confirmed
    BY <1>1, <2>2 DEF Unfetched, Reached
  <2>3. CASE ~ (fetched > confirmed)
    BY <1>1, <2>3 DEF Unfetched, Reached
  <2>. QED BY <2>2, <2>3
<1>5. NoGapInv'
  <2>1. CASE batch' = << >>
    BY <2>1 DEF NoGapInv
  <2>2. CASE batch' = Unfetched
    <3>1. Len(sent) - Reached \in Int /\ DOMAIN Unfetched = 1 .. Len(sent) - Reached
      BY <1>1, <1>3, <1>4
    <3>2. \A k \in 1 .. Len(sent) - Reached : Unfetched[k] = Reached + k
      BY <1>4
    <3>3. 1 .. Len(Unfetched) \subseteq 1 .. Len(sent) - Reached
      <4>. DEFINE n == Len(sent) - Reached
      <4>1. n \in Int /\ Unfetched = [i \in 1 .. n |-> Reached + i]
        BY <3>1, <1>4
      <4>. HIDE DEF n
      <4>2. CASE n \in Nat
        <5>1. \A i \in 1 .. n : Reached + i \in Nat
          BY <1>3, <4>2
        <5>2. Len(Unfetched) = n
          BY <4>1, <4>2, <5>1
        <5>. QED BY <5>2 DEF n
      <4>3. CASE n \notin Nat
        <5>1. 1 .. n = 1 .. 0
          BY <4>1, <4>3
        <5>2. Unfetched = [i \in 1 .. 0 |-> Reached + i]
          BY <4>1, <5>1
        <5>3. \A i \in 1 .. 0 : Reached + i \in Nat
          OBVIOUS
        <5>4. Len(Unfetched) = 0
          BY <5>2, <5>3
        <5>. QED BY <5>1, <5>4 DEF n
      <4>. QED BY <4>2, <4>3
    <3>. QED BY <1>3, <2>2, <3>2, <3>3 DEF NoGapInv
  <2>. QED BY <1>2, <2>1, <2>2
<1>6. Missing' = Missing
  BY <1>2, <1>3 DEF Missing, Waiting
<1>7. MissingInv'
  BY <1>1, <1>2, <1>6, NothingMoreMissing DEF LossInv
<1>. QED BY <1>2, <1>5, <1>7 DEF LossInv, RoomInv

\* The next update of the batch is the one after the last reached, and it
\* waits in the channel.
LEMMA PushLosesNothing ==
  ASSUME BotInv, LossInv, Push
  PROVE  LossInv'
<1>1. /\ batch \in Seq(Nat) /\ buffer \in Seq(Nat)
      /\ fetched \in Nat /\ confirmed \in Nat /\ crashes \in Nat
  BY DEF BotInv, CountersInv, BatchInv, BufferInv, TakenInv
<1>2. /\ batch # << >> /\ Len(buffer) < BufferSize
      /\ buffer' = Append(buffer, Head(batch))
      /\ fetched' = Head(batch)
      /\ batch' = Tail(batch)
      /\ UNCHANGED <<confirmed, taken, crashes>>
  BY DEF Push
<1>3. Reached \in Nat
  BY <1>1 DEF Reached
<1>4. 1 \in 1 .. Len(batch) /\ Head(batch) = batch[1]
  BY <1>1, <1>2
<1>5. Head(batch) = Reached + 1
  BY <1>4 DEF LossInv, NoGapInv
<1>6. Reached' = Reached + 1
  BY <1>1, <1>2, <1>3, <1>5 DEF Reached
<1>7. NoGapInv'
  <2>1. \A k \in 1 .. Len(Tail(batch)) :
          k + 1 \in 1 .. Len(batch) /\ Tail(batch)[k] = batch[k + 1]
    BY <1>1, <1>2
  <2>2. \A k \in 1 .. Len(Tail(batch)) : Tail(batch)[k] = Reached + (k + 1)
    BY <2>1 DEF LossInv, NoGapInv
  <2>3. \A k \in 1 .. Len(Tail(batch)) : Tail(batch)[k] = Reached + 1 + k
    BY <1>3, <2>2
  <2>. QED BY <1>2, <1>6, <2>3 DEF NoGapInv
<1>8. RoomInv'
  <2>1. BufferSize \in Nat
    BY BotAssumption
  <2>. QED BY <1>1, <1>2, <1>3, <1>5, <2>1 DEF RoomInv
<1>9. \A i : Waiting(i) \/ i = Reached + 1 => Waiting(i)'
  <2>1. /\ Len(buffer') = Len(buffer) + 1 /\ Len(buffer) \in Nat
        /\ buffer'[Len(buffer) + 1] = Reached + 1
        /\ \A k \in 1 .. Len(buffer) : buffer'[k] = buffer[k]
    BY <1>1, <1>2, <1>3, <1>5
  <2>. QED BY <2>1 DEF Waiting
<1>10. Missing' \subseteq Missing
  <2>1. SUFFICES ASSUME NEW i \in Missing'
                 PROVE  i \in Missing
    OBVIOUS
  <2>2. /\ i \in Updates /\ i <= Reached + 1 /\ taken[i] = 0
        /\ ~ Waiting(i)'
    BY <1>2, <1>6 DEF Missing
  <2>3. i \in Nat
    BY <2>2 DEF Updates
  <2>4. ~ Waiting(i) /\ i # Reached + 1
    BY <1>9, <2>2
  <2>. QED BY <1>3, <2>2, <2>3, <2>4 DEF Missing
<1>11. MissingInv'
  BY <1>1, <1>2, <1>10, NothingMoreMissing DEF LossInv
<1>. QED BY <1>7, <1>8, <1>11 DEF LossInv

\* The update that leaves the channel is the one that is taken.
LEMMA TakeLosesNothing ==
  ASSUME BotInv, LossInv, Take
  PROVE  LossInv'
<1>. PICK first : first = buffer[1]
  OBVIOUS
<1>1. /\ buffer \in Seq(Nat) /\ crashes \in Nat /\ taken \in [Updates -> Nat]
  BY DEF BotInv, BufferInv, TakenInv
<1>2. /\ buffer # << >> /\ buffer' = Tail(buffer)
      /\ taken' = [taken EXCEPT ![first] = @ + 1]
      /\ UNCHANGED <<confirmed, fetched, batch, crashes>>
  BY <1>1 DEF Take
<1>3. Reached' = Reached
  BY <1>2 DEF Reached
<1>4. NoGapInv'
  BY <1>2, <1>3 DEF LossInv, NoGapInv
<1>5. RoomInv'
  <2>1. Len(Tail(buffer)) = Len(buffer) - 1 /\ Len(buffer) \in Nat
    BY <1>1, <1>2
  <2>2. BufferSize \in Nat
    BY BotAssumption
  <2>. QED BY <1>2, <2>1, <2>2 DEF LossInv, RoomInv
<1>6. \A i : Waiting(i) => Waiting(i)' \/ i = first
  <2>1. SUFFICES ASSUME NEW k \in 1 .. Len(buffer), k # 1
                 PROVE  \E j \in 1 .. Len(buffer') : buffer'[j] = buffer[k]
    BY DEF Waiting
  <2>2. k - 1 \in 1 .. Len(Tail(buffer)) /\ Tail(buffer)[k - 1] = buffer[k]
    BY <1>1, <1>2, <2>1
  <2>. QED BY <1>2, <2>2
<1>7. Missing' \subseteq Missing
  <2>1. SUFFICES ASSUME NEW i \in Missing'
                 PROVE  i \in Missing
    OBVIOUS
  <2>2. i \in Updates /\ i <= Reached /\ taken'[i] = 0 /\ ~ Waiting(i)'
    BY <1>3 DEF Missing
  <2>3. taken[i] \in Nat /\ (i = first => taken'[i] = taken[i] + 1)
        /\ (i # first => taken'[i] = taken[i])
    BY <1>1, <1>2, <2>2
  <2>4. i # first /\ taken[i] = 0
    BY <2>2, <2>3
  <2>. QED BY <1>6, <2>2, <2>4 DEF Missing
<1>8. MissingInv'
  BY <1>1, <1>2, <1>7, NothingMoreMissing DEF LossInv
<1>. QED BY <1>4, <1>5, <1>8 DEF LossInv

\* What a crash loses is what waited in the channel.
LEMMA RestartLosesChannel ==
  ASSUME BotInv, LossInv, Restart
  PROVE  LossInv'
<1>. DEFINE inChannel == {i \in Updates : Waiting(i)}
<1>1. /\ buffer \in Seq(Nat) /\ crashes \in Nat /\ confirmed \in Nat
      /\ fetched \in Nat
  BY DEF BotInv, BufferInv, TakenInv, CountersInv
<1>2. /\ crashes' = crashes + 1 /\ fetched' = 0 /\ batch' = << >> /\ buffer' = << >>
      /\ UNCHANGED <<confirmed, taken>>
  BY DEF Restart
<1>3. BufferSize \in Nat \ {0}
  BY BotAssumption
<1>4. NoGapInv' /\ RoomInv'
  BY <1>2, <1>3 DEF NoGapInv, RoomInv
<1>5. Missing' \subseteq Missing \cup inChannel
  <2>1. Reached' <= Reached
    BY <1>1, <1>2 DEF Reached
  <2>2. Reached' \in Nat /\ Reached \in Nat
    BY <1>1, <1>2 DEF Reached
  <2>3. SUFFICES ASSUME NEW i \in Missing', ~ Waiting(i)
                 PROVE  i \in Missing
    BY DEF Missing
  <2>4. i \in Updates /\ i <= Reached' /\ taken[i] = 0
    BY <1>2 DEF Missing
  <2>5. i \in Nat
    BY <2>4 DEF Updates
  <2>. QED BY <2>1, <2>2, <2>3, <2>4, <2>5 DEF Missing
<1>6. Cardinality(inChannel) <= BufferSize
  <2>. DEFINE places == {k \in 1 .. Len(buffer) : buffer[k] \in Updates}
              at == [k \in places |-> buffer[k]]
  <2>1. Len(buffer) \in Nat /\ Len(buffer) <= BufferSize
    BY <1>1 DEF LossInv, RoomInv
  <2>2. /\ IsFiniteSet(1 .. Len(buffer))
        /\ Cardinality(1 .. Len(buffer)) = Len(buffer)
    <3>. DEFINE n == Len(buffer)
    <3>1. n \in Nat
      BY <2>1
    <3>. HIDE DEF n
    <3>2. /\ IsFiniteSet(1 .. n)
          /\ Cardinality(1 .. n) = IF 1 > n THEN 0 ELSE n - 1 + 1
      <4>1. 1 \in Int /\ n \in Int
        BY <3>1
      <4>. QED BY <4>1, FS_Interval
    <3>3. Cardinality(1 .. n) = n
      BY <3>1, <3>2
    <3>. QED BY <3>2, <3>3 DEF n
  <2>3. /\ IsFiniteSet(places) /\ Cardinality(places) <= Len(buffer)
        /\ Cardinality(places) \in Nat
    BY <2>2, FS_Subset, FS_CardinalityType
  <2>4. at \in Surjection(places, inChannel)
    BY DEF Surjection, Waiting
  <2>5. Cardinality(inChannel) <= Cardinality(places) /\ Cardinality(inChannel) \in Nat
    <3>. HIDE DEF at, places
    <3>1. PICK f \in Surjection(places, inChannel) : TRUE
      BY <2>4
    <3>2. Cardinality(inChannel) \in Nat
      BY UpdatesFinite
    <3>3. Cardinality(inChannel) <= Cardinality(places)
      BY <2>3, <3>1, FS_Surjection
    <3>. QED BY <3>2, <3>3
  <2>. QED BY <1>3, <2>1, <2>3, <2>5
<1>7. Missing \in SUBSET Updates /\ inChannel \in SUBSET Updates
  BY DEF Missing
<1>. HIDE DEF inChannel
<1>8. Cardinality(Missing') <= Cardinality(Missing) + Cardinality(inChannel)
  <2>1. /\ IsFiniteSet(Missing) /\ IsFiniteSet(inChannel)
        /\ Missing \cup inChannel \in SUBSET Updates
        /\ Missing \cap inChannel \in SUBSET Updates
    BY <1>7, UpdatesFinite
  <2>2. Cardinality(Missing \cup inChannel)
          = Cardinality(Missing) + Cardinality(inChannel)
              - Cardinality(Missing \cap inChannel)
    BY <2>1, FS_Union
  <2>3. Cardinality(Missing') <= Cardinality(Missing \cup inChannel)
    BY <1>5, <2>1, UpdatesFinite
  <2>4. /\ Cardinality(Missing) \in Nat /\ Cardinality(inChannel) \in Nat
        /\ Cardinality(Missing \cap inChannel) \in Nat
        /\ Cardinality(Missing \cup inChannel) \in Nat
    BY <1>7, <2>1, UpdatesFinite
  <2>5. Cardinality(Missing') \in Nat
    <3>1. Missing' \in SUBSET Updates
      BY <1>5, <1>7
    <3>. QED BY <3>1, UpdatesFinite
  <2>. QED BY <2>2, <2>3, <2>4, <2>5
<1>9. MissingInv'
  <2>1. Cardinality(Missing) <= crashes * BufferSize
    BY DEF LossInv, MissingInv
  <2>2. (crashes + 1) * BufferSize = crashes * BufferSize + BufferSize
    BY <1>1, <1>3
  <2>3. /\ Cardinality(Missing) \in Nat /\ Cardinality(inChannel) \in Nat
        /\ crashes * BufferSize \in Nat
    BY <1>1, <1>3, <1>7, UpdatesFinite
  <2>4. Cardinality(Missing') \in Nat
    <3>1. Missing' \in SUBSET Updates
      BY <1>5, <1>7
    <3>. QED BY <3>1, UpdatesFinite
  <2>5. Cardinality(Missing') <= crashes * BufferSize + BufferSize
    BY <1>3, <1>6, <1>8, <2>1, <2>3, <2>4
  <2>. QED BY <1>2, <2>2, <2>5 DEF MissingInv
<1>. QED BY <1>4, <1>9 DEF LossInv

\* Nothing is lost before the first message.
LEMMA LossStarts == BotInit => LossInv
<1>. SUFFICES ASSUME BotInit PROVE LossInv
  OBVIOUS
<1>1. /\ confirmed = 0 /\ fetched = 0 /\ batch = << >> /\ buffer = << >>
      /\ crashes = 0
  BY DEF BotInit
<1>2. BufferSize \in Nat
  BY BotAssumption
<1>3. Missing = {}
  <2>1. Reached = 0
    BY <1>1 DEF Reached
  <2>2. \A i \in Updates : i \in Nat /\ i >= 1
    BY DEF Updates
  <2>. QED BY <2>1, <2>2 DEF Missing
<1>4. Cardinality(Missing) = 0
  BY <1>3, FS_EmptySet
<1>5. 0 * BufferSize = 0
  BY <1>2
<1>. QED BY <1>1, <1>2, <1>4, <1>5 DEF LossInv, NoGapInv, RoomInv, MissingInv

\* Every step of the program keeps the account of what is missing.
LEMMA LossSteps == BotInv /\ LossInv /\ [BotNext]_allVars => LossInv'
<1>. SUFFICES ASSUME BotInv, LossInv, [BotNext]_allVars PROVE LossInv'
  OBVIOUS
<1>1. ASSUME UNCHANGED <<confirmed, fetched, batch, buffer, taken, crashes>>
      PROVE  LossInv'
  BY <1>1 DEF LossInv, NoGapInv, RoomInv, MissingInv, Missing, Reached, Waiting
<1>2. CASE \E command \in Commands : SendMessage(command)
  BY <1>1, <1>2 DEF SendMessage
<1>3. CASE Answer \/ Confirm \/ CallReturns \/ Complete \/ World
  BY <1>1, <1>3 DEF Answer, Confirm, CallReturns, Complete, World, botVars
<1>4. CASE UNCHANGED allVars
  BY <1>1, <1>4 DEF allVars, botVars
<1>. QED BY <1>2, <1>3, <1>4, PollLosesNothing, PushLosesNothing, TakeLosesNothing,
       RestartLosesChannel DEF BotNext

\* The account holds of every state of the running program.
LEMMA LossHolds == BotSpec => [](BotInv /\ LossInv)
BY LossStarts, LossSteps, BotInvariance, PTL DEF BotSpec

\* However early a poll acknowledges, a crash loses at most a channel full of
\* updates, and without one the loop misses none.
THEOREM LossIsBoundedHolds == BotSpec => []LossIsBounded
<1>1. BotInv /\ LossInv => LossIsBounded
  <2>. SUFFICES ASSUME BotInv, LossInv PROVE LossIsBounded
    OBVIOUS
  <2>. DEFINE lost == {i \in Updates : Lost(i)}
  <2>1. fetched \in Nat /\ confirmed \in Nat /\ crashes \in Nat
    BY DEF BotInv, CountersInv, TakenInv
  <2>2. confirmed <= Reached /\ Reached \in Nat
    BY <2>1 DEF Reached
  <2>3. lost \subseteq Missing
    <3>1. \A i \in Updates : i \in Nat
      BY DEF Updates
    <3>. QED BY <2>1, <2>2, <3>1 DEF Lost, Missing
  <2>4. Missing \in SUBSET Updates
    BY DEF Missing
  <2>. HIDE DEF lost
  <2>5. /\ Cardinality(lost) <= Cardinality(Missing)
        /\ Cardinality(lost) \in Nat /\ Cardinality(Missing) \in Nat
    BY <2>3, <2>4, UpdatesFinite
  <2>6. crashes * BufferSize \in Nat
    BY <2>1, BotAssumption
  <2>7. Cardinality(lost) <= crashes * BufferSize
    BY <2>5, <2>6 DEF LossInv, MissingInv
  <2>. QED BY <2>7 DEF LossIsBounded, lost
<1>. QED BY <1>1, LossHolds, PTL

\* Before the first crash nothing is missing: what is before the update at the
\* head of the channel has been taken, once.
LEMMA BeforeHeadTaken ==
  ASSUME BotInv, LossInv, crashes = 0, buffer # << >>,
         NEW j \in Updates, j < Head(buffer)
  PROVE  taken[j] = 1
<1>1. /\ buffer \in Seq(Nat) /\ fetched \in Nat /\ confirmed \in Nat
      /\ Ascending(buffer) /\ j \in Nat
  BY DEF BotInv, BufferInv, CountersInv, Updates
<1>2. 1 \in 1 .. Len(buffer) /\ Head(buffer) = buffer[1] /\ Head(buffer) \in Nat
  BY <1>1
<1>3. j <= Reached
  <2>1. buffer[1] <= fetched
    BY <1>2 DEF BotInv, BufferInv
  <2>. QED BY <1>1, <1>2, <2>1 DEF Reached
<1>4. ~ Waiting(j)
  <2>1. SUFFICES ASSUME NEW k \in 1 .. Len(buffer), buffer[k] = j PROVE FALSE
    BY DEF Waiting
  <2>2. buffer[1] < buffer[k] \/ k = 1
    BY <1>1, <1>2 DEF Ascending
  <2>. QED BY <1>1, <1>2, <2>1, <2>2
<1>5. Missing = {}
  <2>1. Missing \in SUBSET Updates
    BY DEF Missing
  <2>2. IsFiniteSet(Missing) /\ Cardinality(Missing) \in Nat
    BY <2>1, UpdatesFinite
  <2>3. Cardinality(Missing) <= 0
    BY BotAssumption DEF LossInv, MissingInv
  <2>4. Cardinality(Missing) = 0
    BY <2>2, <2>3
  <2>. QED BY <2>2, <2>4, FS_EmptySet
<1>6. taken[j] # 0
  BY <1>3, <1>4, <1>5 DEF Missing
<1>7. taken[j] \in Nat /\ taken[j] <= 1
  BY DEF BotInv, TakenInv
<1>. QED BY <1>6, <1>7

\* Until the process first dies, updates are taken in order and none is skipped.
THEOREM InOrderHolds == BotSpec => InOrder
<1>. DEFINE Ordered == crashes = 0 =>
       \A i, j \in Updates : taken'[i] > taken[i] /\ j < i => taken[j] = 1
<1>1. BotInv /\ LossInv /\ [BotNext]_allVars => [Ordered]_allVars
  <2>1. SUFFICES ASSUME BotInv, LossInv, BotNext, crashes = 0,
                        NEW i \in Updates, NEW j \in Updates,
                        taken'[i] > taken[i], j < i
                 PROVE  taken[j] = 1
    OBVIOUS
  <2>2. taken \in [Updates -> Nat]
    BY <2>1 DEF BotInv, TakenInv
  <2>3. CASE UNCHANGED taken
    BY <2>1, <2>2, <2>3
  <2>4. CASE Take
    <3>1. buffer # << >> /\ taken' = [taken EXCEPT ![Head(buffer)] = @ + 1]
      BY <2>4 DEF Take
    <3>2. i = Head(buffer)
      BY <2>1, <2>2, <3>1
    <3>. QED BY <2>1, <3>1, <3>2, BeforeHeadTaken
  <2>5. UNCHANGED taken \/ Take
    BY <2>1 DEF BotNext, SendMessage, Poll, Push, Answer, Confirm, CallReturns,
       Complete, World, Restart, botVars
  <2>. QED BY <2>3, <2>4, <2>5
<1>. QED BY <1>1, LossHolds, PTL DEF BotSpec, InOrder
------------------------------------------------------------------------------
(* Types.                                                                  *)

\* Whatever names an update names one that was sent, and the bounds are kept.
SentInv ==
  /\ Len(sent) <= MaxUpdates
  /\ confirmed <= Len(sent) /\ fetched <= Len(sent) /\ current <= Len(sent)
  /\ \A n \in Calls : callUpdate[n] <= Len(sent)
  /\ crashes <= MaxCrashes

\* It holds at the start.
LEMMA SentStarts == BotInit => SentInv
BY BotAssumption DEF BotInit, SentInv

\* Every step keeps it.
LEMMA SentSteps == BotInv /\ SentInv /\ [BotNext]_allVars => SentInv'
<1>. SUFFICES ASSUME BotInv, SentInv, [BotNext]_allVars PROVE SentInv'
  OBVIOUS
<1>1. /\ sent \in Seq(Commands) /\ Len(sent) \in Nat
      /\ fetched \in Nat /\ confirmed \in Nat /\ current \in Nat /\ crashes \in Nat
      /\ batch \in Seq(Nat) /\ buffer \in Seq(Nat)
      /\ callUpdate \in [Calls -> Nat]
  BY DEF BotInv, CountersInv, BatchInv, BufferInv, CauseInv, TakenInv
<1>2. MaxUpdates \in Nat /\ MaxCrashes \in Nat
  BY BotAssumption
<1>3. ASSUME NEW command \in Commands, SendMessage(command)
      PROVE  SentInv'
  <2>1. Len(sent') = Len(sent) + 1 /\ Len(sent) < MaxUpdates
    BY <1>1, <1>3 DEF SendMessage
  <2>2. UNCHANGED <<confirmed, fetched, current, callUpdate, crashes>>
    BY <1>3 DEF SendMessage
  <2>. QED BY <1>1, <1>2, <2>1, <2>2 DEF SentInv
<1>4. CASE Poll
  BY <1>1, <1>4 DEF Poll, SentInv
<1>5. CASE Push
  <2>1. 1 \in 1 .. Len(batch) /\ Head(batch) = batch[1]
    BY <1>1, <1>5 DEF Push
  <2>2. Head(batch) <= Len(sent)
    BY <2>1 DEF BotInv, BatchInv
  <2>. QED BY <1>5, <2>2 DEF Push, SentInv
<1>6. CASE Take
  <2>1. 1 \in 1 .. Len(buffer) /\ Head(buffer) = buffer[1]
    BY <1>1, <1>6 DEF Take
  <2>2. Head(buffer) <= Len(sent)
    BY <1>1, <2>1 DEF BotInv, BufferInv
  <2>3. current' \in {0, Head(buffer)}
    BY <1>6 DEF Take
  <2>4. UNCHANGED <<sent, confirmed, fetched, callUpdate, crashes>>
    BY <1>6 DEF Take
  <2>. QED BY <1>1, <2>2, <2>3, <2>4 DEF SentInv
<1>7. CASE Answer \/ Complete
  <2>1. current' = 0 /\ UNCHANGED <<sent, confirmed, fetched, callUpdate, crashes>>
    BY <1>7 DEF Answer, Complete
  <2>. QED BY <1>1, <2>1 DEF SentInv
<1>8. CASE Confirm
  <2>1. /\ \A n \in Calls : callUpdate'[n] \in {callUpdate[n], current}
        /\ UNCHANGED <<sent, confirmed, fetched, current, crashes>>
    BY <1>1, <1>8 DEF Confirm
  <2>. QED BY <1>1, <2>1 DEF SentInv
<1>9. CASE CallReturns \/ World \/ UNCHANGED allVars
  <2>1. UNCHANGED botVars
    BY <1>9 DEF CallReturns, World, allVars
  <2>. QED BY <2>1 DEF botVars, SentInv
<1>10. CASE Restart
  <2>1. /\ crashes < MaxCrashes /\ crashes' = crashes + 1
        /\ fetched' = 0 /\ current' = 0
        /\ UNCHANGED <<sent, confirmed, callUpdate>>
    BY <1>10 DEF Restart
  <2>. QED BY <1>1, <1>2, <2>1 DEF SentInv
<1>. QED BY <1>3, <1>4, <1>5, <1>6, <1>7, <1>8, <1>9, <1>10 DEF BotNext

\* A sequence of numbers is one of updates if each of them is one.
LEMMA UpdatesInSeq ==
  ASSUME NEW s \in Seq(Nat), \A k \in 1 .. Len(s) : s[k] \in Updates
  PROVE  s \in Seq(Updates)
OBVIOUS

\* The variables of the transport have their types: the channel never holds more
\* than its capacity, nor anything that was not sent.
THEOREM BotTyped == BotSpec => []BotTypeOK
<1>1. BotSpec => []SentInv
  BY SentStarts, SentSteps, BotInvariance, PTL DEF BotSpec
<1>2. BotInv /\ LossInv /\ SentInv => BotTypeOK
  <2>. SUFFICES ASSUME BotInv, LossInv, SentInv PROVE BotTypeOK
    OBVIOUS
  <2>1. MaxUpdates \in Nat /\ MaxCrashes \in Nat
    BY BotAssumption
  <2>2. /\ sent \in Seq(Commands) /\ Len(sent) \in Nat
        /\ fetched \in Nat /\ confirmed \in Nat /\ current \in Nat /\ crashes \in Nat
        /\ callUpdate \in [Calls -> Nat] /\ taken \in [Updates -> Nat]
        /\ batch \in Seq(Nat) /\ buffer \in Seq(Nat)
    BY DEF BotInv, CountersInv, BatchInv, BufferInv, CauseInv, TakenInv
  <2>3. batch \in Seq(Updates)
    <3>1. \A k \in 1 .. Len(batch) : batch[k] \in Nat
      BY <2>2
    <3>2. \A k \in 1 .. Len(batch) : fetched < batch[k] /\ batch[k] <= Len(sent)
      BY DEF BotInv, BatchInv
    <3>3. \A k \in 1 .. Len(batch) : batch[k] \in Updates
      BY <2>1, <2>2, <3>1, <3>2 DEF SentInv, Updates
    <3>. QED BY <2>2, <3>3, UpdatesInSeq
  <2>4. buffer \in Seq(Updates)
    <3>1. \A k \in 1 .. Len(buffer) : buffer[k] \in 1 .. Len(sent)
      BY DEF BotInv, BufferInv
    <3>2. \A k \in 1 .. Len(buffer) : buffer[k] \in Updates
      BY <2>1, <2>2, <3>1 DEF SentInv, Updates
    <3>. QED BY <2>2, <3>2, UpdatesInSeq
  <2>5. callUpdate \in [Calls -> 0 .. MaxUpdates]
    BY <2>1, <2>2 DEF SentInv
  <2>6. /\ confirmed \in 0 .. MaxUpdates /\ fetched \in 0 .. MaxUpdates
        /\ current \in 0 .. MaxUpdates /\ crashes \in 0 .. MaxCrashes
    BY <2>1, <2>2 DEF SentInv
  <2>7. Len(buffer) <= BufferSize /\ Len(sent) <= MaxUpdates
    BY DEF LossInv, RoomInv, SentInv
  <2>. QED BY <2>2, <2>3, <2>4, <2>5, <2>6, <2>7 DEF BotTypeOK
<1>. QED BY <1>1, <1>2, LossHolds, PTL
==============================================================================
