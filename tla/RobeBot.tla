------------------------------- MODULE RobeBot -------------------------------
(***************************************************************************)
(* The running program: updates come from Telegram through the long poll   *)
(* of the client library into a channel, the loop of Start takes them one  *)
(* at a time, and handleMessage runs the handler of HandleText that the    *)
(* text asks for (src/internal/adapters/telegram/bot.go, wired in          *)
(* src/cmd/robe-server/main.go with the default permission engine).        *)
(*                                                                         *)
(* Polling and handling are concurrent: a poll tells Telegram that all it  *)
(* fetched before has been received, however little of it was handled, and *)
(* what waits in the channel is gone with the process.  Updates that were  *)
(* not acknowledged are delivered again to the next process.               *)
(*                                                                         *)
(* Updates are numbered 1, 2, ... in the order in which they were sent.    *)
(***************************************************************************)
EXTENDS CalendarConfirm, Sequences, FiniteSets

CONSTANTS
  MaxUpdates,   \* bound on the messages sent to the bot
  BufferSize,   \* capacity of the updates channel (100 in the library)
  MaxCrashes    \* bound on the crashes of a behaviour

ASSUME BotAssumption ==
  /\ MaxUpdates \in Nat
  /\ BufferSize \in Nat \ {0}
  /\ MaxCrashes \in Nat

Updates == 1 .. MaxUpdates

\* What a message asks for: HandleText by its first word, or by the intent the
\* model finds in it.  `foreign' is a message of another Telegram user or an
\* update without a message; `other' changes no state modelled here.
Commands ==
  [cmd : {"create", "delete"}, arg : Actions]
    \cup [cmd : {"confirm", "cancel"}, arg : Tokens]
    \cup [cmd : {"pending", "other", "foreign"}, arg : {NoToken}]

VARIABLES
  sent,       \* the messages sent so far
  confirmed,  \* Telegram no longer keeps the updates up to this one
  fetched,    \* the last update this process pushed into the channel
  batch,      \* updates of the last poll that wait for room in the channel
  buffer,     \* the updates channel
  current,    \* the update being handled; 0 when there is none
  taken,      \* history: how often the loop took each update
  callUpdate, \* history: the update that launched an external write
  crashes     \* history: how often the process died

botVars == <<sent, confirmed, fetched, batch, buffer, current, taken,
             callUpdate, crashes>>

allVars == <<vars, botVars>>

BotTypeOK ==
  /\ sent \in Seq(Commands) /\ Len(sent) <= MaxUpdates
  /\ confirmed \in 0 .. MaxUpdates
  /\ fetched \in 0 .. MaxUpdates
  /\ batch \in Seq(Updates)
  /\ buffer \in Seq(Updates) /\ Len(buffer) <= BufferSize
  /\ current \in 0 .. MaxUpdates
  /\ taken \in [Updates -> Nat]
  /\ callUpdate \in [Calls -> 0 .. MaxUpdates]
  /\ crashes \in 0 .. MaxCrashes

\* main passes no WithPermissionEngine: the default engine decides.
BotInit ==
  /\ Init
  /\ policy = [type \in CalendarTypes |-> DefaultDecide(type)]
  /\ sent = << >>
  /\ confirmed = 0
  /\ fetched = 0
  /\ batch = << >>
  /\ buffer = << >>
  /\ current = 0
  /\ taken = [i \in Updates |-> 0]
  /\ callUpdate = [n \in Calls |-> 0]
  /\ crashes = 0
------------------------------------------------------------------------------
(* The user and the polling goroutine of the client library.               *)

\* Somebody sends a message.  Tokens and event ids are typed as they were
\* shown; a token that was never shown makes the message an `other'.
SendMessage(command) ==
  /\ Len(sent) < MaxUpdates
  /\ command.cmd \in {"confirm", "cancel"} => proposed[command.arg] # NoAction
  /\ sent' = Append(sent, command)
  /\ UNCHANGED <<vars, confirmed, fetched, batch, buffer, current, taken,
                 callUpdate, crashes>>

\* The updates Telegram returns to a poll of this process.
Unfetched ==
  LET first == IF fetched > confirmed THEN fetched + 1 ELSE confirmed + 1
  IN  [i \in 1 .. Len(sent) - first + 1 |-> first + i - 1]

\* Seeded fault: a poll acknowledges what it returns.
PollAcksAnswer ==
  /\ batch = << >>
  /\ batch' = Unfetched
  /\ confirmed' = IF Unfetched = << >> THEN confirmed
                  ELSE Unfetched[Len(Unfetched)]
  /\ UNCHANGED <<vars, sent, fetched, buffer, current, taken, callUpdate,
                 crashes>>

\* GetUpdates, once the batch before is in the channel: its offset tells
\* Telegram to forget what was fetched before, even if the answer is lost.
Poll ==
  /\ batch = << >>
  /\ confirmed' = IF fetched > confirmed THEN fetched ELSE confirmed
  /\ batch' \in {Unfetched, << >>}
  /\ UNCHANGED <<vars, sent, fetched, buffer, current, taken, callUpdate,
                 crashes>>

\* Seeded fault: a send that does not block drops what finds the channel full.
PushDropsWhenFull ==
  /\ batch # << >>
  /\ buffer' = IF Len(buffer) < BufferSize THEN Append(buffer, Head(batch))
               ELSE buffer
  /\ fetched' = Head(batch)
  /\ batch' = Tail(batch)
  /\ UNCHANGED <<vars, sent, confirmed, current, taken, callUpdate, crashes>>

\* Seeded fault: the offset of the next poll is not advanced.
PushKeepsOffset ==
  /\ batch # << >>
  /\ Len(buffer) < BufferSize
  /\ buffer' = Append(buffer, Head(batch))
  /\ batch' = Tail(batch)
  /\ UNCHANGED <<vars, sent, confirmed, fetched, current, taken, callUpdate,
                 crashes>>

\* The goroutine pushes the next update of its batch; it blocks while the
\* channel is full.
Push ==
  /\ batch # << >>
  /\ Len(buffer) < BufferSize
  /\ buffer' = Append(buffer, Head(batch))
  /\ fetched' = Head(batch)
  /\ batch' = Tail(batch)
  /\ UNCHANGED <<vars, sent, confirmed, current, taken, callUpdate, crashes>>
------------------------------------------------------------------------------
(* The loop of Start.                                                      *)

Asked == sent[current]

\* The loop takes an update from the channel.  A message of the owner starts
\* handleMessage; any other is dropped on the spot.
Take ==
  /\ pc = "idle"
  /\ buffer # << >>
  /\ buffer' = Tail(buffer)
  /\ taken' = [taken EXCEPT ![Head(buffer)] = @ + 1]
  /\ IF sent[Head(buffer)].cmd = "foreign"
     THEN current' = 0 /\ UNCHANGED vars
     ELSE current' = Head(buffer) /\ Receive
  /\ UNCHANGED <<sent, confirmed, fetched, batch, callUpdate, crashes>>

\* What HandleText does with the text of the message, up to the reply or to
\* the external call.  A proposal may be malformed, or find no random token.
Dispatch ==
  \/ Asked.cmd \in {"create", "delete", "other"} /\ Ignore
  \/ Asked.cmd \in {"create", "delete"} /\ Propose(Asked.arg)
  \/ Asked.cmd = "confirm" /\ ConfirmMissing(Asked.arg)
  \/ Asked.cmd = "cancel" /\ Cancel(Asked.arg)
  \/ Asked.cmd = "pending" /\ ListPending

Answer ==
  /\ pc = "handling"
  /\ Dispatch
  /\ current' = 0
  /\ UNCHANGED <<sent, confirmed, fetched, batch, buffer, taken, callUpdate,
                 crashes>>

Confirm ==
  /\ pc = "handling"
  /\ Asked.cmd = "confirm"
  /\ ConfirmStart(Asked.arg)
  /\ callUpdate' = [callUpdate EXCEPT ![calls + 1] = current]
  /\ UNCHANGED <<sent, confirmed, fetched, batch, buffer, current, taken,
                 crashes>>

CallReturns ==
  /\ RenewalEnds \/ CallReturnsOk \/ CallReturnsErr
  /\ UNCHANGED botVars

Complete ==
  /\ Finish
  /\ current' = 0
  /\ UNCHANGED <<sent, confirmed, fetched, batch, buffer, taken, callUpdate,
                 crashes>>
------------------------------------------------------------------------------
(* The surroundings.                                                       *)

World ==
  /\ Tick \/ \E n \in Calls : ServerApplies(n) \/ ServerRefuses(n)
  /\ UNCHANGED botVars

\* Seeded fault: the map is restored when the process starts again.
RestartKeepsPending ==
  /\ crashes < MaxCrashes
  /\ CrashKeepsPending
  /\ crashes' = crashes + 1
  /\ fetched' = 0
  /\ batch' = << >>
  /\ buffer' = << >>
  /\ current' = 0
  /\ UNCHANGED <<sent, confirmed, taken, callUpdate>>

\* The process dies and starts again: the next poll starts at offset 0, which
\* returns what was never acknowledged.
Restart ==
  /\ crashes < MaxCrashes
  /\ Crash
  /\ crashes' = crashes + 1
  /\ fetched' = 0
  /\ batch' = << >>
  /\ buffer' = << >>
  /\ current' = 0
  /\ UNCHANGED <<sent, confirmed, taken, callUpdate>>

BotNext ==
  \/ \E command \in Commands : SendMessage(command)
  \/ Poll
  \/ Push
  \/ Take
  \/ Answer
  \/ Confirm
  \/ CallReturns
  \/ Complete
  \/ World
  \/ Restart

BotSpec == BotInit /\ [][BotNext]_allVars

\* Polls keep succeeding, the goroutines keep running, and a call whose request
\* is under a deadline that has passed returns.  Nothing is assumed of the user,
\* of crashes, or of Google: neither that it answers nor that a renewal of the
\* access token ends, which has no deadline (src/internal/adapters/calendar/
\* google.go:49 gives the client the context of main).  Telegram's Send and
\* GetFileDirectURL, which take no context either, are taken to come back.
BotFairness ==
  /\ WF_allVars(Poll /\ batch' # << >>)
  /\ WF_allVars(Push)
  /\ WF_allVars(Take)
  /\ WF_allVars(Answer)
  /\ WF_allVars(Confirm)
  /\ WF_allVars(Tick /\ UNCHANGED botVars)
  /\ WF_allVars(CallReturnsErr /\ ctxLeft = 0 /\ UNCHANGED botVars)
  /\ WF_allVars(Complete)

BotFairSpec == BotSpec /\ BotFairness
------------------------------------------------------------------------------
(* Properties.                                                             *)

\* A message makes at most one write, also when Telegram delivers it again to
\* a process that has lost the map: the token it names is gone by then.
OneWritePerUpdate ==
  \A m, n \in Launched : callUpdate[m] = callUpdate[n] => m = n

Waiting(i) == \E k \in 1 .. Len(buffer) : buffer[k] = i

\* An update that Telegram has forgotten and the loop will never take.
Lost(i) == i <= confirmed /\ taken[i] = 0 /\ ~ Waiting(i)

\* A crash loses at most what the channel holds, and without a crash nothing
\* is lost, although a poll acknowledges updates that were not handled.
LossIsBounded == Cardinality({i \in Updates : Lost(i)}) <= crashes * BufferSize

\* An update is handled again only because of a crash, once for each.
RedeliveryNeedsCrash == \A i \in Updates : taken[i] <= 1 + crashes

\* Until the process first dies, the loop takes the updates in the order in
\* which they were sent and skips none, however full the channel gets.
InOrder ==
  [][crashes = 0 =>
       \A i, j \in Updates :
         taken'[i] > taken[i] /\ j < i => taken[j] = 1]_allVars

\* The bot is an instance of the gate: whatever it does with the calendar,
\* CalendarConfirm allows.
ImplementsConfirm == Spec

\* A message sent to the bot is taken in the end, unless a crash lost it, or the
\* loop is stuck in a renewal of the access token that never comes back (see
\* BotFairness).
EveryUpdateTaken ==
  []<>(~ Renewing) =>
    \A i \in Updates :
      Len(sent) >= i ~> taken[i] > 0 \/ (Lost(i) /\ crashes > 0)
==============================================================================
