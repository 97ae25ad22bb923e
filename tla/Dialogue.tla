------------------------------- MODULE Dialogue -------------------------------
(***************************************************************************)
(* The whole program around one message at a time: what main configures,   *)
(* how the loop of src/internal/adapters/telegram/bot.go handles a text or *)
(* a voice message under a deadline, which handler of HandleText or which  *)
(* intent of the model (src/internal/core/intent.go) it leads to, what     *)
(* that calls, and how the answer goes out (Replies).  A signal, a failing *)
(* server and a panic may end the process at any point.                    *)
(*                                                                         *)
(* The calls to Ollama, Postgres, Google and the transcription command may *)
(* fail or never return; what they return matters here only where the      *)
(* handlers branch on it.  The confirmation gate, the memory, the contacts *)
(* and the email review have modules of their own: a handler is here the   *)
(* list of calls it makes.  A write that was sent may take effect at once, *)
(* when its handler has long given it up, or never.                        *)
(***************************************************************************)
EXTENDS Replies

CONSTANTS
  Setups,       \* the sets of adapters that a start may find configured
  MaxMessages,  \* bound on the messages taken
  MaxStarts     \* bound on the starts of the program

\* What main may leave out; the model is always there.
Adapters == {"calendar", "email", "memory", "embedder", "stt"}

ASSUME DialogueAssumption ==
  /\ Setups \subseteq SUBSET Adapters
  /\ Setups # {}
  /\ MaxMessages \in Nat
  /\ MaxStarts \in Nat \ {0}

\* The handlers of HandleText, by the calls they make: `memories' stands for
\* every command that only reads the table, `forget' for those that change it
\* without embedding, `notice' for those that call nothing.
Handlers == {"notice", "ask", "askmem", "remember", "memories", "forget",
             "calendar", "propose", "confirm", "cancel", "email", "review"}

\* Text that is not a command: with or without the words that
\* hasExplicitMemorySignal looks for.
Speech == {"statement", "request"}

\* What decodeIntent makes of the model's output.
Intents == {"ask", "calendar_list", "calendar_create", "calendar_delete",
            "create_memory", "email_search", "email_show"}

VARIABLES
  adapters,  \* what this process has been configured with
  process,   \* "up", "stopping" after the signal, or "down"
  pc,        \* where the loop and the handler are
  context,   \* the context of the request: "live" or "ended"
  says,      \* what the message being handled says
  intent,    \* what the model took it for
  todo,      \* the calls the handler has yet to make
  launched,  \* history: the writes that were sent; each may take effect from then on
  parked,    \* the proposals that wait for the user; they live in memory
  taken,     \* how many messages the loop has taken
  answered,  \* the messages answered in full
  cut,       \* the messages whose handling ended with the process
  files,     \* the messages whose recording is in the temporary directory
  deferred,  \* the handler removes its recording when it returns
  starts     \* how often the program was started

dialogueVars == <<adapters, process, pc, context, says, intent, todo, launched,
                  parked, taken, answered, cut, files, deferred, starts>>

vars == <<dialogueVars, replyVars>>

\* The calls of a handler.  A soft one may fail without the handler failing.
Read(service) == [service |-> service, writes |-> FALSE, soft |-> FALSE]
Write(service) == [service |-> service, writes |-> TRUE, soft |-> FALSE]
Try(service) == [service |-> service, writes |-> FALSE, soft |-> TRUE]

\* The services whose client may first have to renew its access token.
Google == {"calendar", "email"}

Waiting == {"locate", "download", "copy", "transcribe", "handle", "parse", "call",
            "renew", "underway"}

TypeOK ==
  /\ adapters \in Setups
  /\ process \in {"up", "stopping", "down"}
  /\ pc \in Waiting \cup {"idle", "reply", "stopped"}
  /\ context \in {"live", "ended"}
  /\ says \in Handlers \cup Speech \cup {""}
  /\ intent \in Intents \cup {""}
  /\ todo \in Seq([service : Adapters \cup {"llm"}, writes : BOOLEAN,
                   soft : BOOLEAN])
  /\ launched \subseteq [service : Adapters, says : Handlers \cup Speech,
                         intent : Intents \cup {""}, late : BOOLEAN]
  /\ parked \in Nat
  /\ taken \in 0 .. MaxMessages
  /\ answered \cup cut \cup files \subseteq 1 .. taken
  /\ deferred => taken \in files
  /\ starts \in 0 .. MaxStarts

Init ==
  /\ adapters \in Setups
  /\ process = "up"
  /\ pc = "idle"
  /\ context = "ended"
  /\ says = "" /\ intent = "" /\ todo = << >>
  /\ launched = {}
  /\ parked = 0
  /\ taken = 0 /\ answered = {} /\ cut = {} /\ files = {}
  /\ deferred = FALSE
  /\ starts = 1
  /\ NoReply

\* What a step of the handler leaves alone.
SameProcess == UNCHANGED <<adapters, process, launched, taken, answered, cut, starts>>
SameFiles == UNCHANGED <<files, deferred>>
SameRequest == UNCHANGED <<says, intent, todo, parked>>
------------------------------------------------------------------------------
(* The loop and the recordings.                                            *)

\* b.reply: whatever was to be done is done with.
Respond ==
  /\ pc' = "reply"
  /\ \E text \in Texts : StartReply(text)
  /\ says' = "" /\ intent' = "" /\ todo' = << >>

\* A step that takes the request from one place to the next.
Advance(from, to) ==
  /\ pc = from
  /\ pc' = to
  /\ UNCHANGED <<context, replyVars>>
  /\ SameProcess

\* A step that fails; the user is told.
GiveUp(from) ==
  /\ pc = from
  /\ Respond
  /\ UNCHANGED <<context, parked>>
  /\ SameProcess

\* Seeded fault: the request does not descend from the context of the process.
TakeInBackground(voice, words) ==
  /\ process # "down" /\ pc = "idle"
  /\ taken < MaxMessages
  /\ taken' = taken + 1
  /\ context' = "background"
  /\ IF voice THEN /\ pc' = IF "stt" \in adapters THEN "locate" ELSE "call"
                   /\ says' = ""
     ELSE pc' = "handle" /\ says' = words
  /\ UNCHANGED <<adapters, process, intent, todo, launched, parked, answered, cut,
                 files, deferred, starts, replyVars>>

\* A message of the user, a recording or what it says.  When the signal has
\* arrived, the select of Start may still prefer the update; the request is
\* then over before it begins.  Without a transcriber a recording is refused.
Take(voice, words) ==
  /\ process # "down" /\ pc = "idle"
  /\ taken < MaxMessages
  /\ taken' = taken + 1
  /\ context' = IF process = "up" THEN "live" ELSE "ended"
  /\ IF voice THEN /\ pc' = IF "stt" \in adapters THEN "locate" ELSE "call"
                   /\ says' = ""
     ELSE pc' = "handle" /\ says' = words
  /\ UNCHANGED <<adapters, process, intent, todo, launched, parked, answered, cut,
                 files, deferred, starts, replyVars>>

\* GetFileDirectURL takes no context and does not notice its end.
Located == Advance("locate", "download") /\ SameRequest /\ SameFiles
LocateFails == GiveUp("locate") /\ SameFiles

\* The request for the file is made; os.CreateTemp opens the copy.
Downloading ==
  /\ context # "ended"
  /\ Advance("download", "copy")
  /\ files' = files \cup {taken}
  /\ UNCHANGED deferred
  /\ SameRequest
DownloadFails == GiveUp("download") /\ SameFiles

\* From here on handleAudio has deferred the removal; when the copy breaks off,
\* downloadTelegramFile removes what there is of it.
Copied ==
  /\ Advance("copy", "transcribe")
  /\ deferred' = TRUE
  /\ UNCHANGED files
  /\ SameRequest

\* Seeded fault: half a recording stays behind.
CopyFailsLeavingFile == GiveUp("copy") /\ SameFiles

CopyFails ==
  /\ GiveUp("copy")
  /\ files' = files \ {taken}
  /\ UNCHANGED deferred

\* The command prints what it heard.
Transcribed(words) ==
  /\ context # "ended"
  /\ Advance("transcribe", "handle")
  /\ says' = words
  /\ UNCHANGED <<intent, todo, parked, files, deferred>>

\* It fails, hears nothing, or is killed at the end of the request, or before
\* by its own time limit; either way Run returns only when whatever holds its
\* output has ended.  The recording goes when handleAudio returns.
TranscribeFails == GiveUp("transcribe") /\ SameFiles

\* What handleAudio has deferred.
RemoveRecording == files' = IF deferred THEN files \ {taken} ELSE files

\* handleMessage returns: deferred, the recording is removed and the context
\* cancelled.
Finish ==
  /\ pc = "reply"
  /\ EndReply
  /\ pc' = "idle"
  /\ context' = "ended"
  /\ answered' = answered \cup {taken}
  /\ RemoveRecording
  /\ deferred' = FALSE
  /\ UNCHANGED <<adapters, process, launched, taken, cut, starts>>
  /\ SameRequest

Send ==
  /\ pc = "reply"
  /\ SendChunk
  /\ UNCHANGED dialogueVars
------------------------------------------------------------------------------
(* What the handlers call.                                                 *)

Has(adapter) == adapter \in adapters

Embedding(call) == IF Has("embedder") THEN <<call>> ELSE << >>

\* handleAsk: the searches of retrieveRelevantMemories, with an embedding if
\* it can be had, and the question.
Asking ==
  (IF Has("memory") THEN Embedding(Try("embedder")) \o <<Read("memory")>>
   ELSE << >>) \o <<Read("llm")>>

\* The adapters a command checks for before anything else.
Needs(handler) ==
  CASE handler \in {"askmem", "remember", "memories", "forget"} -> {"memory"}
    [] handler \in {"calendar", "propose", "confirm"} -> {"calendar"}
    [] handler \in {"email", "review"} -> {"email"}
    [] OTHER -> {}

Ready(handler) == Needs(handler) \subseteq adapters

\* /askmem asks nothing when it finds nothing.
AskWithMemory ==
  {Embedding(Read("embedder")) \o <<Read("memory")>> \o found :
     found \in {<< >>, <<Read("llm")>>}}

CreateMemory == Embedding(Try("embedder")) \o <<Write("memory")>>

ListCalendar == <<Read("calendar")>>

\* searchEmail, showEmail and showEmailRaw.
SearchEmail == <<Read("email")>>

\* The dry run of ReviewUnreadEmails: a message, if there is one, is classified
\* by the model or else by rules.
ReviewEmails == {<<Read("email")>>, <<Read("email"), Try("llm")>>}

\* The calls of each handler once its arguments are in order.
Calls(handler) ==
  CASE handler = "ask" -> {Asking}
    [] handler = "askmem" -> AskWithMemory
    [] handler = "remember" -> {CreateMemory}
    [] handler = "memories" -> {<<Read("memory")>>}
    [] handler = "forget" -> {<<Write("memory")>>}
    [] handler = "calendar" -> {ListCalendar}
    [] handler = "confirm" ->
         {IF parked > 0 THEN <<Write("calendar")>> ELSE << >>}
    [] handler = "email" -> {SearchEmail}
    [] handler = "review" -> ReviewEmails
    [] OTHER -> {<< >>}

\* What a handler does to the proposals before it calls anything.
ParkedBy(handler) ==
  CASE handler = "propose" -> {parked + 1}
    [] handler = "cancel" /\ parked > 0 -> {parked, parked - 1}
    [] OTHER -> {parked}

\* The handler makes its calls, or answers at once that its arguments, its
\* permission or its adapter are wanting.
Run(handler, checked) ==
  /\ pc' = "call"
  /\ \/ todo' = << >> /\ parked' = parked
     \/ /\ checked => Ready(handler)
        /\ todo' \in Calls(handler)
        /\ parked' \in ParkedBy(handler)
  /\ UNCHANGED <<context, says, files, deferred, replyVars>>
  /\ SameProcess

\* HandleText: a command by its first word.
Command ==
  /\ pc = "handle"
  /\ says \in Handlers
  /\ Run(says, TRUE)
  /\ UNCHANGED intent

\* handleNaturalText: any other text goes to the model first.
Parse ==
  /\ says \in Speech
  /\ Advance("handle", "parse")
  /\ SameRequest /\ SameFiles

\* Seeded fault: an intent to save something is taken at its word.
LeadsUnasked(kind) ==
  CASE kind = "ask" -> "ask"
    [] kind = "calendar_list" -> "calendar"
    [] kind \in {"calendar_create", "calendar_delete"} -> "propose"
    [] kind = "create_memory" -> "remember"
    [] kind \in {"email_search", "email_show"} -> "email"

\* handleIntent: the handler each intent leads to.  A memory needs the words of
\* the user; without them the text is a question.
Leads(kind) ==
  CASE kind = "ask" -> "ask"
    [] kind = "calendar_list" -> "calendar"
    [] kind \in {"calendar_create", "calendar_delete"} -> "propose"
    [] kind = "create_memory" -> IF says = "request" THEN "remember" ELSE "ask"
    [] kind \in {"email_search", "email_show"} -> "email"

\* The handlers of these check for their adapter; those of the other intents
\* do not.
Checked(kind) ==
  kind \in {"calendar_list", "calendar_create", "create_memory"}

\* The model answers with an intent that can be decoded.  A question and a
\* search always have a text, that of the message if no other.
Parsed(kind) ==
  /\ pc = "parse" /\ context # "ended"
  /\ intent' = kind
  /\ Run(Leads(kind), Checked(kind))
  /\ Leads(kind) = "ask" \/ kind = "email_search" => todo' # << >>

\* It does not, or its answer makes no sense: the text is a question.
ParseFails ==
  /\ pc = "parse"
  /\ pc' = "call"
  /\ todo' = Asking
  /\ UNCHANGED <<context, says, intent, parked, files, deferred, replyVars>>
  /\ SameProcess

Calling == pc = "call" /\ todo # << >>
Reachable(call) == call.service \in adapters \cup {"llm"}

\* The client of a Google service asks for a new access token first.  It does so
\* with the context of main, whatever became of that of the request.
Renew ==
  /\ Calling /\ Reachable(Head(todo))
  /\ Head(todo).service \in Google
  /\ Advance("call", "renew")
  /\ SameRequest /\ SameFiles

\* The call goes out, unless the request is over by now.
Launch ==
  /\ pc = "renew" \/ (Calling /\ Reachable(Head(todo)))
  /\ context # "ended"
  /\ pc' = "underway"
  /\ launched' = launched \cup
       IF Head(todo).writes
       THEN {[service |-> Head(todo).service, says |-> says, intent |-> intent,
              late |-> process = "stopping"]}
       ELSE {}
  /\ UNCHANGED <<adapters, process, context, taken, answered, cut, starts, replyVars>>
  /\ SameRequest /\ SameFiles

\* It succeeds.  A write to the calendar closes its proposal.
CallOk ==
  /\ pc = "underway"
  /\ pc' = "call"
  /\ todo' = Tail(todo)
  /\ parked' = IF Head(todo) = Write("calendar") THEN parked - 1 ELSE parked
  /\ UNCHANGED <<context, says, intent, files, deferred, replyVars>>
  /\ SameProcess

\* It fails, before it goes out or afterwards: with the request over it is not
\* made, or nobody waits for its answer any more.
CallFails ==
  /\ pc \in {"renew", "underway"} \/ (Calling /\ Reachable(Head(todo)))
  /\ IF Head(todo).soft THEN /\ pc' = "call" /\ todo' = Tail(todo)
                             /\ UNCHANGED <<says, intent, replyVars>>
     ELSE Respond
  /\ UNCHANGED <<context, parked, files, deferred>>
  /\ SameProcess

\* All is done: the answer is sent.
Answer ==
  /\ todo = << >>
  /\ GiveUp("call")
  /\ SameFiles
------------------------------------------------------------------------------
(* The clock and the process.                                              *)

\* The 90 seconds are over.
DeadlinePasses ==
  /\ pc \in Waiting /\ context = "live"
  /\ context' = "ended"
  /\ UNCHANGED <<pc, files, deferred, replyVars>>
  /\ SameProcess /\ SameRequest

\* SIGTERM or an interrupt ends the context of the process, and with it that
\* of the request.
Signal ==
  /\ process = "up"
  /\ process' = "stopping"
  /\ context' = IF context = "live" THEN "ended" ELSE context
  /\ UNCHANGED <<adapters, pc, launched, taken, answered, cut, files, deferred, starts,
                 replyVars>>
  /\ SameRequest

\* Start returns; nobody waits for it.
LoopStops ==
  /\ process = "stopping"
  /\ Advance("idle", "stopped")
  /\ SameRequest /\ SameFiles

\* The process ends, and the handler with it, wherever it is; what was deferred
\* is done only if it panics.
Ends ==
  /\ process' = "down" /\ pc' = "idle" /\ context' = "ended"
  /\ cut' = cut \cup IF pc \in {"idle", "stopped"} THEN {} ELSE {taken}
  /\ says' = "" /\ intent' = "" /\ todo' = << >>
  /\ parked' = 0
  /\ deferred' = FALSE
  /\ answer' = << >> /\ rest' = << >> /\ told' = << >>
  /\ UNCHANGED <<adapters, launched, taken, answered, starts>>

\* main returns after the signal.
Exit == process = "stopping" /\ Ends /\ UNCHANGED files

\* The status server fails and main exits, or the process is killed.
Kill == process # "down" /\ Ends /\ UNCHANGED files

\* A method of an adapter that is not there; what was deferred is still done.
Panic == Calling /\ ~ Reachable(Head(todo)) /\ Ends /\ RemoveRecording

Start ==
  /\ process = "down"
  /\ starts < MaxStarts
  /\ starts' = starts + 1
  /\ process' = "up"
  /\ adapters' \in Setups
  /\ UNCHANGED <<pc, context, launched, taken, answered, cut, files, deferred,
                 replyVars>>
  /\ SameRequest

\* Every message was taken and dealt with: nothing more to model.
Done ==
  /\ process = "down" /\ starts = MaxStarts
  /\ UNCHANGED vars

Next ==
  \/ \E words \in Handlers \cup Speech :
       Take(FALSE, words) \/ Transcribed(words)
  \/ Take(TRUE, "")
  \/ Located \/ LocateFails \/ Downloading \/ DownloadFails
  \/ Copied \/ CopyFails \/ TranscribeFails
  \/ Command \/ Parse \/ ParseFails
  \/ \E kind \in Intents : Parsed(kind)
  \/ Renew \/ Launch \/ CallOk \/ CallFails \/ Answer
  \/ Send \/ Finish
  \/ DeadlinePasses \/ Signal \/ LoopStops
  \/ Exit \/ Kill \/ Panic \/ Start \/ Done

Spec == Init /\ [][Next]_vars

\* What the handler does without help.  Nothing is asked of Ollama, Postgres,
\* Google or the download: once the request has ended their calls fail, and
\* until then they may say nothing.  Telegram's methods and the transcription
\* command have no such limit and are assumed to come back in some way; the
\* renewal of an access token has none either and may hang for ever.
HandlerStep ==
  \/ Located \/ LocateFails \/ TranscribeFails
  \/ Command \/ Parse \/ Answer \/ Panic
  \/ Send \/ Finish
  \/ /\ context = "ended"
     /\ \/ DownloadFails \/ CopyFails \/ ParseFails
        \/ pc # "renew" /\ CallFails

\* The scheduler runs the handler, and the clock the deadline.
FairSpec == Spec /\ WF_vars(HandlerStep) /\ WF_vars(DeadlinePasses)
------------------------------------------------------------------------------
(* Properties.                                                             *)

\* Recordings of the user's voice do not pile up: one is on disk only while its
\* message is handled, unless the process ended meanwhile.
RecordingsRemoved ==
  files \subseteq cut \cup IF pc = "idle" THEN {} ELSE {taken}

\* What the model takes a text for never changes the calendar: it may park a
\* proposal, and only the user's own /confirm writes.  It saves a memory only
\* when the user's words ask for it.
ModelOnlyProposes ==
  \A w \in launched :
    /\ w.service = "calendar" => w.says = "confirm" /\ w.intent = ""
    /\ w.intent # "" => w.service = "memory" /\ w.says = "request"

\* Once the signal has arrived no write is sent any more, although the loop may
\* still take a message, its handler runs until main returns, and a renewal that
\* was waited for may end only then.  (A write sent before may still take effect.)
NothingSentAfterStop == \A w \in launched : ~ w.late

\* No handler comes to call an adapter that this process was not configured
\* with: what is not configured is answered with a message that says so.
NoPanic == Calling => Reachable(Head(todo))

\* Every message the loop takes is answered in full, whether the services it
\* needs answer, fail or hang, unless the process ends first or the renewal of
\* an access token never comes back: the clients of Google renew with the context
\* of main (src/internal/adapters/calendar/google.go:49), without the deadline.
EveryMessageAnswered ==
  []<>(pc # "renew") =>
    (pc \in Waiting \cup {"reply"} ~> taken \in answered \cup cut)
==============================================================================
