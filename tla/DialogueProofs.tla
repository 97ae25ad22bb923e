---------------------------- MODULE DialogueProofs ----------------------------
(***************************************************************************)
(* What holds of the whole program for every set of configured adapters,   *)
(* every bound on messages and starts, and every text that a handler may   *)
(* answer: no write is sent after the signal, what the model says never     *)
(* changes the calendar, recordings do not stay behind, every chunk sent   *)
(* is one that Telegram takes, and the chunks say all of the answer.       *)
(***************************************************************************)
EXTENDS Dialogue, SequenceTheorems, FiniteSetTheorems, WellFoundedInduction, TLAPS

CallRecords == [service : Adapters \cup {"llm"}, writes : BOOLEAN, soft : BOOLEAN]

\* The calls that change nothing.
Reads == {call \in CallRecords : ~ call.writes}

\* The calls a handler makes, by its name.
Allowed(handler) ==
  Reads \cup (IF handler \in {"remember", "forget"} THEN {Write("memory")} ELSE {})
        \cup (IF handler = "confirm" THEN {Write("calendar")} ELSE {})

\* The calls that may be left to make, by what was said and what the model took
\* it for.
MayCall ==
  Reads
    \cup (IF \/ intent = "" /\ says \in {"remember", "forget"}
             \/ intent # "" /\ says = "request"
          THEN {Write("memory")} ELSE {})
    \cup (IF intent = "" /\ says = "confirm" THEN {Write("calendar")} ELSE {})

Resting == {"idle", "stopped"}

\* A live request belongs to a process that has seen no signal.
ContextInv == context = "live" => process = "up"

\* Where a handler makes its calls, and where it waits for one.
AtCalls == {"call", "renew", "underway"}
AtCall == {"renew", "underway"}

\* The calls left are those of the command or of the intent; a write to the
\* calendar is alone, and its proposal is still parked.
TodoInv ==
  /\ pc \notin AtCalls => todo = << >> /\ intent = ""
  /\ pc \in AtCall => todo # << >>
  /\ todo \in Seq(MayCall)
  /\ \A i \in DOMAIN todo :
       todo[i] = Write("calendar") => Len(todo) = 1 /\ parked > 0

\* Whose recordings are on disk: those of messages cut short, and that of the
\* message at hand as long as somebody will remove it.
FilesInv ==
  /\ pc \notin Resting => taken > 0
  /\ files \subseteq cut \cup {taken}
  /\ pc # "copy" /\ ~ deferred => files \subseteq cut
  /\ pc = "copy" => taken \in files
  /\ deferred => pc \in {"transcribe", "handle", "parse", "reply"} \cup AtCalls

DialogueInv ==
  /\ TypeOK
  /\ ContextInv
  /\ TodoInv
  /\ FilesInv
  /\ ModelOnlyProposes
  /\ NothingSentAfterStop
------------------------------------------------------------------------------
(* The calls of the handlers.                                              *)

\* The first call of a list and what is left after it.
LEMMA FirstCall ==
  ASSUME NEW S, NEW s \in Seq(S), s # << >>
  PROVE  /\ Head(s) \in S
         /\ Head(s) = s[1]
         /\ 1 \in DOMAIN s
         /\ Tail(s) \in Seq(S)
         /\ Len(Tail(s)) = Len(s) - 1
  OBVIOUS

\* Nothing to call.
LEMMA NoCalls ==
  \A S : << >> \in Seq(S) /\ DOMAIN << >> = {}
  OBVIOUS

\* The members of a list of calls.
LEMMA CallIn ==
  ASSUME NEW S, NEW s \in Seq(S)
  PROVE  \A i \in DOMAIN s : s[i] \in S
  OBVIOUS

\* What is left after the first call was in the list, one place further on.
LEMMA LeftWasThere ==
  ASSUME NEW S, NEW s \in Seq(S), s # << >>
  PROVE  \A i \in DOMAIN Tail(s) :
           /\ Len(s) > 1
           /\ i + 1 \in DOMAIN s
           /\ Tail(s)[i] = s[i + 1]
  OBVIOUS

\* The calls to other services that only read are among Reads.
LEMMA ReadingCalls ==
  \A service \in Adapters \cup {"llm"} :
    /\ Read(service) \in Reads
    /\ Try(service) \in Reads
  BY DEF Read, Try, Reads, CallRecords

\* Every way of asking the model a question only reads.
LEMMA AskingReads ==
  /\ Asking \in Seq(Reads)
  /\ \A s \in AskWithMemory : s \in Seq(Reads)
  /\ \A s \in ReviewEmails : s \in Seq(Reads)
  /\ Embedding(Try("embedder")) \in Seq(Reads)
<1>1. /\ Embedding(Try("embedder")) \in Seq(Reads)
      /\ Embedding(Read("embedder")) \in Seq(Reads)
  BY ReadingCalls DEF Embedding, Adapters
<1>2. <<Read("memory")>> \in Seq(Reads) /\ <<Read("llm")>> \in Seq(Reads)
  BY ReadingCalls DEF Adapters
<1>3. Asking \in Seq(Reads)
  BY <1>1, <1>2, ConcatProperties DEF Asking
<1>4. \A s \in AskWithMemory : s \in Seq(Reads)
  <2>1. Embedding(Read("embedder")) \o <<Read("memory")>> \in Seq(Reads)
    BY <1>1, <1>2, ConcatProperties
  <2>2. ASSUME NEW found \in {<< >>, <<Read("llm")>>}
        PROVE  Embedding(Read("embedder")) \o <<Read("memory")>> \o found
                 \in Seq(Reads)
    <3>1. << >> \in Seq(Reads)
      OBVIOUS
    <3>2. found \in Seq(Reads)
      BY <1>2, <3>1, Zenon
    <3>3. QED BY <2>1, <3>2, ConcatProperties
  <2>3. QED BY <2>2, Zenon DEF AskWithMemory
<1>5. \A s \in ReviewEmails : s \in Seq(Reads)
  <2>1. Read("email") \in Reads /\ Try("llm") \in Reads
    BY ReadingCalls DEF Adapters
  <2>2. <<Read("email")>> \in Seq(Reads) /\ <<Read("email"), Try("llm")>> \in Seq(Reads)
    BY <2>1
  <2>3. QED BY <2>2, Zenon DEF ReviewEmails
<1>. QED BY <1>1, <1>3, <1>4, <1>5

\* The definition of Calls, handler by handler.
LEMMA CallsOf ==
  /\ Calls("ask") = {Asking}
  /\ Calls("askmem") = AskWithMemory
  /\ Calls("remember") = {CreateMemory}
  /\ Calls("memories") = {<<Read("memory")>>}
  /\ Calls("forget") = {<<Write("memory")>>}
  /\ Calls("calendar") = {ListCalendar}
  /\ Calls("confirm") = {IF parked > 0 THEN <<Write("calendar")>> ELSE << >>}
  /\ Calls("email") = {SearchEmail}
  /\ Calls("review") = ReviewEmails
  /\ \A h \in {"notice", "propose", "cancel"} : Calls(h) = {<< >>}
<1>1. Calls("ask") = {Asking}
  BY Zenon DEF Calls
<1>2. Calls("askmem") = AskWithMemory
  BY Zenon DEF Calls
<1>3. Calls("remember") = {CreateMemory}
  BY Zenon DEF Calls
<1>4. Calls("memories") = {<<Read("memory")>>}
  BY Zenon DEF Calls
<1>5. Calls("forget") = {<<Write("memory")>>}
  BY Zenon DEF Calls
<1>6. Calls("calendar") = {ListCalendar}
  BY Zenon DEF Calls
<1>7. Calls("confirm") = {IF parked > 0 THEN <<Write("calendar")>> ELSE << >>}
  BY Zenon DEF Calls
<1>8. Calls("email") = {SearchEmail}
  BY Zenon DEF Calls
<1>9. Calls("review") = ReviewEmails
  BY Zenon DEF Calls
<1>10. Calls("notice") = {<< >>}
  BY Zenon DEF Calls
<1>11. Calls("propose") = {<< >>}
  BY Zenon DEF Calls
<1>12. Calls("cancel") = {<< >>}
  BY Zenon DEF Calls
<1>. QED BY <1>1, <1>2, <1>3, <1>4, <1>5, <1>6, <1>7, <1>8, <1>9, <1>10, <1>11, <1>12

\* Whatever a handler is, its calls are those its name allows, and a write to
\* the calendar is the only one.
LEMMA CallsMade ==
  ASSUME NEW h \in Handlers, NEW s \in Calls(h)
  PROVE  /\ s \in Seq(Allowed(h))
         /\ h # "confirm" => s \in Seq(Reads \cup {Write("memory")})
         /\ h = "confirm" =>
              \/ s = << >>
              \/ s = <<Write("calendar")>> /\ parked > 0
<1>. /\ Reads \subseteq Allowed(h)
     /\ Reads \subseteq Reads \cup {Write("memory")}
  BY DEF Allowed
<1>1. CASE h \in {"ask", "askmem", "review"}
  <2>1. s \in Seq(Reads)
    BY <1>1, AskingReads, CallsOf
  <2>2. QED BY <1>1, <2>1, SeqMonotonic
<1>2. CASE h = "remember"
  <2>1. s = Embedding(Try("embedder")) \o <<Write("memory")>>
    BY <1>2, CallsOf DEF CreateMemory
  <2>2. Embedding(Try("embedder")) \in Seq(Reads \cup {Write("memory")})
    BY AskingReads, SeqMonotonic
  <2>3. <<Write("memory")>> \in Seq(Reads \cup {Write("memory")})
    OBVIOUS
  <2>4. s \in Seq(Reads \cup {Write("memory")})
    BY <2>1, <2>2, <2>3, ConcatProperties
  <2>5. Reads \cup {Write("memory")} \subseteq Allowed(h)
    BY <1>2 DEF Allowed
  <2>6. s \in Seq(Allowed(h))
    BY <2>4, <2>5, SeqMonotonic
  <2>7. QED BY <1>2, <2>4, <2>6
<1>3. CASE h \in {"memories", "calendar", "email"}
  <2>1. s = <<Read("memory")>> \/ s = <<Read("calendar")>> \/ s = <<Read("email")>>
    BY <1>3, CallsOf DEF ListCalendar, SearchEmail
  <2>2. Read("memory") \in Reads /\ Read("calendar") \in Reads /\ Read("email") \in Reads
    BY ReadingCalls DEF Adapters
  <2>3. /\ <<Read("memory")>> \in Seq(Reads)
        /\ <<Read("calendar")>> \in Seq(Reads)
        /\ <<Read("email")>> \in Seq(Reads)
    BY <2>2
  <2>4. s \in Seq(Reads)
    BY <2>1, <2>3, Zenon
  <2>5. QED BY <1>3, <2>4, SeqMonotonic
<1>4. CASE h = "forget"
  <2>1. s = <<Write("memory")>>
    BY <1>4, CallsOf
  <2>2. Write("memory") \in Allowed(h)
    BY <1>4 DEF Allowed
  <2>3. QED BY <1>4, <2>1, <2>2
<1>5. CASE h = "confirm"
  <2>1. \/ s = << >>
        \/ s = <<Write("calendar")>> /\ parked > 0
    BY <1>5, CallsOf, Zenon
  <2>2. Write("calendar") \in Allowed(h)
    BY <1>5 DEF Allowed
  <2>3. <<Write("calendar")>> \in Seq(Allowed(h)) /\ << >> \in Seq(Allowed(h))
    BY <2>2
  <2>4. s \in Seq(Allowed(h))
    BY <2>1, <2>3, Zenon
  <2>5. QED BY <1>5, <2>1, <2>4, Zenon
<1>6. CASE h \in {"notice", "propose", "cancel"}
  <2>1. s = << >>
    BY <1>6, CallsOf
  <2>2. QED BY <1>6, <2>1
<1>. QED BY <1>1, <1>2, <1>3, <1>4, <1>5, <1>6 DEF Handlers
------------------------------------------------------------------------------
(* The request and the signal, and whose recordings are on disk.           *)

\* The context of a request is live only while no signal has arrived.
LEMMA ContextKept ==
  ASSUME ContextInv, [Next]_vars
  PROVE  ContextInv'
<1>1. CASE \E words \in Handlers \cup Speech : Take(FALSE, words)
  BY <1>1 DEF Take, ContextInv
<1>2. CASE Take(TRUE, "")
  BY <1>2 DEF Take, ContextInv
<1>3. CASE Located
  BY <1>3 DEF Located, Advance, SameProcess, SameRequest, SameFiles, ContextInv
<1>4. CASE LocateFails
  BY <1>4 DEF LocateFails, GiveUp, Respond, SameProcess, SameFiles, ContextInv
<1>5. CASE Downloading
  BY <1>5 DEF Downloading, Advance, SameProcess, SameRequest, ContextInv
<1>6. CASE DownloadFails
  BY <1>6 DEF DownloadFails, GiveUp, Respond, SameProcess, SameFiles, ContextInv
<1>7. CASE Copied
  BY <1>7 DEF Copied, Advance, SameProcess, SameRequest, ContextInv
<1>8. CASE CopyFails
  BY <1>8 DEF CopyFails, GiveUp, Respond, SameProcess, ContextInv
<1>9. CASE \E words \in Handlers \cup Speech : Transcribed(words)
  BY <1>9 DEF Transcribed, Advance, SameProcess, ContextInv
<1>10. CASE TranscribeFails
  BY <1>10 DEF TranscribeFails, GiveUp, Respond, SameProcess, SameFiles,
    ContextInv
<1>11. CASE Command
  BY <1>11 DEF Command, Run, SameProcess, ContextInv
<1>12. CASE Parse
  BY <1>12 DEF Parse, Advance, SameProcess, SameRequest, SameFiles, ContextInv
<1>13. CASE \E kind \in Intents : Parsed(kind)
  BY <1>13 DEF Parsed, Run, SameProcess, ContextInv
<1>14. CASE ParseFails
  BY <1>14 DEF ParseFails, SameProcess, ContextInv
<1>15. CASE CallOk
  BY <1>15 DEF CallOk, SameProcess, ContextInv
<1>16. CASE CallFails
  BY <1>16 DEF CallFails, Respond, SameProcess, ContextInv
<1>17. CASE Answer
  BY <1>17 DEF Answer, GiveUp, Respond, SameProcess, SameFiles, ContextInv
<1>18. CASE Send
  BY <1>18 DEF Send, dialogueVars, ContextInv
<1>19. CASE Finish
  BY <1>19 DEF Finish, SameRequest, ContextInv
<1>20. CASE DeadlinePasses
  BY <1>20 DEF DeadlinePasses, SameProcess, SameRequest, ContextInv
<1>21. CASE Signal
  BY <1>21 DEF Signal, SameRequest, ContextInv
<1>22. CASE LoopStops
  BY <1>22 DEF LoopStops, Advance, SameProcess, SameRequest, SameFiles,
    ContextInv
<1>23. CASE Exit
  BY <1>23 DEF Exit, Ends, ContextInv
<1>24. CASE Kill
  BY <1>24 DEF Kill, Ends, ContextInv
<1>25. CASE Panic
  BY <1>25 DEF Panic, Ends, ContextInv
<1>26. CASE Start
  BY <1>26 DEF Start, SameRequest, ContextInv
<1>27. CASE Done
  BY <1>27 DEF Done, vars, dialogueVars, ContextInv
<1>28. CASE UNCHANGED vars
  BY <1>28 DEF vars, dialogueVars, ContextInv
<1>29. CASE Renew
  BY <1>29 DEF Renew, Advance, SameProcess, SameRequest, SameFiles, ContextInv
<1>30. CASE Launch
  BY <1>30 DEF Launch, SameRequest, SameFiles, ContextInv
<1>. QED BY <1>1, <1>2, <1>3, <1>4, <1>5, <1>6, <1>7, <1>8, <1>9, <1>10, <1>11,
  <1>12, <1>13, <1>14, <1>15, <1>16, <1>17, <1>18, <1>19, <1>20, <1>21, <1>22,
  <1>23, <1>24, <1>25, <1>26, <1>27, <1>28, <1>29, <1>30 DEF Next

\* Whoever opens a recording removes it, or the process has ended meanwhile.
LEMMA FilesKept ==
  ASSUME TypeOK, FilesInv, [Next]_vars
  PROVE  FilesInv'
<1>. taken \in Nat
  <2>1. taken \in 0 .. MaxMessages /\ MaxMessages \in Nat
    BY DialogueAssumption DEF TypeOK
  <2>2. QED BY <2>1
<1>1. CASE \E words \in Handlers \cup Speech : Take(FALSE, words)
  BY <1>1 DEF Take, FilesInv, Resting, AtCalls, Waiting, replyVars
<1>2. CASE Take(TRUE, "")
  <2>1. /\ pc = "idle" /\ pc' \in {"locate", "call"}
        /\ taken' = taken + 1
        /\ UNCHANGED <<cut, files, deferred>>
    BY <1>2 DEF Take
  <2>2. QED BY <2>1 DEF FilesInv, Resting, AtCalls
<1>3. CASE Located
  BY <1>3 DEF Located, Advance, SameProcess, SameRequest, SameFiles, FilesInv,
    Resting, AtCalls, Waiting, replyVars
<1>4. CASE LocateFails
  BY <1>4 DEF LocateFails, GiveUp, Respond, SameProcess, SameFiles, FilesInv,
    Resting, AtCalls, Waiting, replyVars
<1>5. CASE Downloading
  BY <1>5 DEF Downloading, Advance, SameProcess, SameRequest, FilesInv,
    Resting, AtCalls, Waiting, replyVars
<1>6. CASE DownloadFails
  BY <1>6 DEF DownloadFails, GiveUp, Respond, SameProcess, SameFiles, FilesInv,
    Resting, AtCalls, Waiting, replyVars
<1>7. CASE Copied
  BY <1>7 DEF Copied, Advance, SameProcess, SameRequest, FilesInv, Resting, AtCalls,
    Waiting, replyVars
<1>8. CASE CopyFails
  BY <1>8 DEF CopyFails, GiveUp, Respond, SameProcess, FilesInv, Resting, AtCalls,
    Waiting, replyVars
<1>9. CASE \E words \in Handlers \cup Speech : Transcribed(words)
  BY <1>9 DEF Transcribed, Advance, SameProcess, FilesInv, Resting, AtCalls, Waiting,
    replyVars
<1>10. CASE TranscribeFails
  BY <1>10 DEF TranscribeFails, GiveUp, Respond, SameProcess, SameFiles,
    FilesInv, Resting, AtCalls, Waiting, replyVars
<1>11. CASE Command
  BY <1>11 DEF Command, Run, SameProcess, FilesInv, Resting, AtCalls, Waiting, replyVars
<1>12. CASE Parse
  BY <1>12 DEF Parse, Advance, SameProcess, SameRequest, SameFiles, FilesInv,
    Resting, AtCalls, Waiting, replyVars
<1>13. CASE \E kind \in Intents : Parsed(kind)
  BY <1>13 DEF Parsed, Run, SameProcess, FilesInv, Resting, AtCalls, Waiting, replyVars
<1>14. CASE ParseFails
  BY <1>14 DEF ParseFails, SameProcess, FilesInv, Resting, AtCalls, Waiting, replyVars
<1>15. CASE CallOk
  BY <1>15 DEF CallOk, SameProcess, FilesInv, Resting, AtCalls, Waiting,
    replyVars, Calling
<1>16. CASE CallFails
  BY <1>16 DEF CallFails, Respond, SameProcess, FilesInv, Resting, AtCalls,
    Waiting, replyVars, Calling
<1>17. CASE Answer
  BY <1>17 DEF Answer, GiveUp, Respond, SameProcess, SameFiles, FilesInv,
    Resting, AtCalls, Waiting, replyVars
<1>18. CASE Send
  BY <1>18 DEF Send, dialogueVars, FilesInv, Resting, AtCalls, Waiting, replyVars
<1>19. CASE Finish
  BY <1>19 DEF Finish, SameRequest, FilesInv, Resting, AtCalls, Waiting,
    replyVars, RemoveRecording
<1>20. CASE DeadlinePasses
  BY <1>20 DEF DeadlinePasses, SameProcess, SameRequest, FilesInv, Resting, AtCalls,
    Waiting, replyVars
<1>21. CASE Signal
  BY <1>21 DEF Signal, SameRequest, FilesInv, Resting, AtCalls, Waiting, replyVars
<1>22. CASE LoopStops
  BY <1>22 DEF LoopStops, Advance, SameProcess, SameRequest, SameFiles,
    FilesInv, Resting, AtCalls, Waiting, replyVars
<1>23. CASE Exit
  BY <1>23 DEF Exit, Ends, FilesInv, Resting, AtCalls, Waiting, replyVars
<1>24. CASE Kill
  BY <1>24 DEF Kill, Ends, FilesInv, Resting, AtCalls, Waiting, replyVars
<1>25. CASE Panic
  BY <1>25 DEF Panic, Ends, FilesInv, Resting, AtCalls, Waiting, replyVars,
    RemoveRecording, Calling
<1>26. CASE Start
  BY <1>26 DEF Start, SameRequest, FilesInv, Resting, AtCalls, Waiting, replyVars
<1>27. CASE Done
  BY <1>27 DEF Done, vars, dialogueVars, FilesInv, Resting, AtCalls, Waiting, replyVars
<1>28. CASE UNCHANGED vars
  BY <1>28 DEF vars, dialogueVars, FilesInv, Resting, AtCalls, Waiting, replyVars
<1>29. CASE Renew
  BY <1>29 DEF Renew, Advance, SameProcess, SameRequest, SameFiles, FilesInv,
    Resting, AtCalls, Waiting, replyVars, Calling
<1>30. CASE Launch
  BY <1>30 DEF Launch, SameRequest, SameFiles, FilesInv,
    Resting, AtCalls, Waiting, replyVars, Calling
<1>. QED BY <1>1, <1>2, <1>3, <1>4, <1>5, <1>6, <1>7, <1>8, <1>9, <1>10, <1>11,
  <1>12, <1>13, <1>14, <1>15, <1>16, <1>17, <1>18, <1>19, <1>20, <1>21, <1>22,
  <1>23, <1>24, <1>25, <1>26, <1>27, <1>28, <1>29, <1>30 DEF Next
------------------------------------------------------------------------------
(* The calls that are left.                                                *)

\* With nothing left to call there is nothing to show.
LEMMA NothingLeft ==
  ASSUME todo' = << >>, intent' = "", pc' \notin AtCall
  PROVE  TodoInv'
<1>1. todo' \in Seq(MayCall') /\ DOMAIN todo' = {}
  BY NoCalls, Zenon
<1>. QED BY <1>1, Zenon DEF TodoInv

\* A call goes one step on.
LEMMA SameCalls ==
  ASSUME TodoInv, todo # << >>, pc \in AtCalls, pc' \in AtCalls,
         UNCHANGED <<says, intent, todo, parked>>
  PROVE  TodoInv'
BY DEF TodoInv, MayCall

\* A step that touches neither the calls nor what they depend on.
LEMMA SameLeft ==
  ASSUME TodoInv, UNCHANGED <<pc, says, intent, todo, parked>>
  PROVE  TodoInv'
BY DEF TodoInv, MayCall

\* What a handler sets out to call is what was asked for.
LEMMA RunKeepsTodo ==
  ASSUME NEW handler \in Handlers, NEW checked, Run(handler, checked),
         handler \in {"remember", "forget"} =>
           \/ intent' = "" /\ says' = handler
           \/ intent' # "" /\ says' = "request",
         handler = "confirm" => intent' = "" /\ says' = handler
  PROVE  TodoInv'
<1>1. pc' \in AtCalls /\ pc' \notin AtCall
  BY DEF Run, AtCalls, AtCall
<1>2. Allowed(handler) \subseteq MayCall'
  BY DEF Allowed, MayCall
<1>3. CASE todo' = << >>
  <2>1. todo' \in Seq(MayCall') /\ DOMAIN todo' = {}
    BY <1>3, NoCalls, Zenon
  <2>2. QED BY <1>1, <2>1, Zenon DEF TodoInv
<1>4. CASE todo' \in Calls(handler) /\ parked' \in ParkedBy(handler)
  <2>. PICK s \in Calls(handler) : s = todo'
    BY <1>4, Zenon
  <2>1. s \in Seq(MayCall')
    BY CallsMade, <1>2, SeqMonotonic
  <2>2. CASE handler # "confirm"
    <3>1. s \in Seq(Reads \cup {Write("memory")})
      BY <2>2, CallsMade
    <3>2. Write("calendar") \notin Reads \cup {Write("memory")}
      BY DEF Reads, Write
    <3>3. \A i \in DOMAIN s : s[i] # Write("calendar")
      BY <3>1, <3>2, CallIn, Zenon
    <3>4. QED BY <1>1, <2>1, <3>3, Zenon DEF TodoInv
  <2>3. CASE handler = "confirm"
    <3>1. \/ s = << >>
          \/ s = <<Write("calendar")>> /\ parked > 0
      BY <2>3, CallsMade
    <3>2. parked' = parked
      <4>1. ParkedBy("confirm") = {parked}
        BY Zenon DEF ParkedBy
      <4>2. QED BY <4>1, <1>4, <2>3, Zenon
    <3>3. \A i \in DOMAIN s :
            s[i] = Write("calendar") => Len(s) = 1 /\ parked' > 0
      <4>1. CASE s = << >>
        BY <4>1, NoCalls, Zenon
      <4>2. CASE s = <<Write("calendar")>> /\ parked > 0
        <5>1. Len(<<Write("calendar")>>) = 1
          OBVIOUS
        <5>2. QED BY <4>2, <5>1, <3>2, Zenon
      <4>3. QED BY <3>1, <4>1, <4>2
    <3>4. QED BY <1>1, <2>1, <3>3, Zenon DEF TodoInv
  <2>4. QED BY <2>2, <2>3
<1>. QED BY <1>3, <1>4 DEF Run

\* One call less: what is left is still of the same request, and a write to the
\* calendar, being alone, is no longer in it.
LEMMA TailKeepsTodo ==
  ASSUME TodoInv, todo # << >>, todo' = Tail(todo),
         pc \in AtCalls, pc' = "call", UNCHANGED <<says, intent>>
  PROVE  TodoInv'
<1>. todo \in Seq(MayCall)
  BY DEF TodoInv
<1>. PICK s \in Seq(MayCall) : s = todo
  OBVIOUS
<1>1. Tail(s) \in Seq(MayCall)
  BY FirstCall
<1>2. MayCall' = MayCall
  BY DEF MayCall
<1>3. \A i \in DOMAIN Tail(s) : Tail(s)[i] # Write("calendar")
  <2>1. \A i \in DOMAIN Tail(s) :
          Len(s) > 1 /\ i + 1 \in DOMAIN s /\ Tail(s)[i] = s[i + 1]
    BY LeftWasThere
  <2>2. \A i \in DOMAIN s : s[i] = Write("calendar") => ~ (Len(s) > 1)
    <3>1. \A i \in DOMAIN s : s[i] = Write("calendar") => Len(s) = 1
      BY Zenon DEF TodoInv
    <3>2. QED BY <3>1
  <2>3. QED BY <2>1, <2>2, Zenon
<1>4. pc' \in AtCalls /\ pc' \notin AtCall
  BY DEF AtCalls, AtCall
<1>. QED BY <1>1, <1>2, <1>3, <1>4, Zenon DEF TodoInv

\* The handler an intent leads to: it saves only what was asked for, and none
\* of them is /confirm.
LEMMA LeadsTo ==
  ASSUME NEW kind \in Intents
  PROVE  /\ Leads(kind) \in Handlers
         /\ Leads(kind) \notin {"forget", "confirm"}
         /\ Leads(kind) = "remember" => says = "request"
<1>1. CASE kind = "ask"
  <2>1. Leads(kind) = "ask"
    BY <1>1, Zenon DEF Leads
  <2>2. QED BY <2>1 DEF Handlers
<1>2. CASE kind = "calendar_list"
  <2>1. Leads(kind) = "calendar"
    BY <1>2, Zenon DEF Leads
  <2>2. QED BY <2>1 DEF Handlers
<1>3. CASE kind \in {"calendar_create", "calendar_delete"}
  <2>1. Leads(kind) = "propose"
    BY <1>3, Zenon DEF Leads
  <2>2. QED BY <2>1 DEF Handlers
<1>4. CASE kind = "create_memory"
  <2>1. Leads(kind) = IF says = "request" THEN "remember" ELSE "ask"
    BY <1>4, Zenon DEF Leads
  <2>2. QED BY <2>1 DEF Handlers
<1>5. CASE kind \in {"email_search", "email_show"}
  <2>1. Leads(kind) = "email"
    BY <1>5, Zenon DEF Leads
  <2>2. QED BY <2>1 DEF Handlers
<1>. QED BY <1>1, <1>2, <1>3, <1>4, <1>5 DEF Intents

\* A call of the handler follows from its command or from the model's intent.
LEMMA TodoKept ==
  ASSUME TypeOK, TodoInv, [Next]_vars
  PROVE  TodoInv'
<1>. pc \notin AtCalls => todo = << >> /\ intent = ""
  BY DEF TodoInv
<1>. todo \in Seq(MayCall)
  BY DEF TodoInv
<1>1. CASE \E words \in Handlers \cup Speech : Take(FALSE, words)
  <2>1. todo' = << >> /\ intent' = "" /\ pc' \notin AtCall
    BY <1>1 DEF Take,
      AtCalls, AtCall
  <2>2. QED BY <2>1, NothingLeft
<1>2. CASE Take(TRUE, "")
  <2>1. todo' = << >> /\ intent' = "" /\ pc' \notin AtCall
    BY <1>2 DEF Take,
      AtCalls, AtCall
  <2>2. QED BY <2>1, NothingLeft
<1>3. CASE Located
  <2>1. todo' = << >> /\ intent' = "" /\ pc' \notin AtCall
    BY <1>3 DEF Located, Advance, SameProcess, SameRequest, SameFiles,
      AtCalls, AtCall
  <2>2. QED BY <2>1, NothingLeft
<1>4. CASE LocateFails
  <2>1. todo' = << >> /\ intent' = "" /\ pc' \notin AtCall
    BY <1>4 DEF LocateFails, GiveUp, Respond, SameProcess, SameFiles,
      AtCalls, AtCall
  <2>2. QED BY <2>1, NothingLeft
<1>5. CASE Downloading
  <2>1. todo' = << >> /\ intent' = "" /\ pc' \notin AtCall
    BY <1>5 DEF Downloading, Advance, SameProcess, SameRequest,
      AtCalls, AtCall
  <2>2. QED BY <2>1, NothingLeft
<1>6. CASE DownloadFails
  <2>1. todo' = << >> /\ intent' = "" /\ pc' \notin AtCall
    BY <1>6 DEF DownloadFails, GiveUp, Respond, SameProcess, SameFiles,
      AtCalls, AtCall
  <2>2. QED BY <2>1, NothingLeft
<1>7. CASE Copied
  <2>1. todo' = << >> /\ intent' = "" /\ pc' \notin AtCall
    BY <1>7 DEF Copied, Advance, SameProcess, SameRequest,
      AtCalls, AtCall
  <2>2. QED BY <2>1, NothingLeft
<1>8. CASE CopyFails
  <2>1. todo' = << >> /\ intent' = "" /\ pc' \notin AtCall
    BY <1>8 DEF CopyFails, GiveUp, Respond, SameProcess,
      AtCalls, AtCall
  <2>2. QED BY <2>1, NothingLeft
<1>9. CASE \E words \in Handlers \cup Speech : Transcribed(words)
  <2>1. todo' = << >> /\ intent' = "" /\ pc' \notin AtCall
    BY <1>9 DEF Transcribed, Advance, SameProcess,
      AtCalls, AtCall
  <2>2. QED BY <2>1, NothingLeft
<1>10. CASE TranscribeFails
  <2>1. todo' = << >> /\ intent' = "" /\ pc' \notin AtCall
    BY <1>10 DEF TranscribeFails, GiveUp, Respond, SameProcess, SameFiles,
      AtCalls, AtCall
  <2>2. QED BY <2>1, NothingLeft
<1>11. CASE Command
  <2>1. says \in Handlers /\ Run(says, TRUE) /\ UNCHANGED <<says, intent>>
    BY <1>11 DEF Command, Run
  <2>2. intent = ""
    BY <1>11 DEF Command, AtCalls
  <2>. PICK handler \in Handlers : handler = says
    BY <2>1
  <2>3. QED BY <2>1, <2>2, RunKeepsTodo
<1>12. CASE Parse
  <2>1. todo' = << >> /\ intent' = "" /\ pc' \notin AtCall
    BY <1>12 DEF Parse, Advance, SameProcess, SameRequest, SameFiles,
      AtCalls, AtCall
  <2>2. QED BY <2>1, NothingLeft
<1>13. CASE \E kind \in Intents : Parsed(kind)
  <2>. PICK kind \in Intents : Parsed(kind)
    BY <1>13
  <2>1. /\ Run(Leads(kind), Checked(kind))
        /\ intent' = kind /\ kind # "" /\ says' = says
    BY DEF Parsed, Run, Intents
  <2>2. /\ Leads(kind) \in Handlers
        /\ Leads(kind) \notin {"forget", "confirm"}
        /\ Leads(kind) = "remember" => says = "request"
    BY LeadsTo
  <2>. PICK handler \in Handlers : handler = Leads(kind)
    BY <2>2
  <2>3. QED BY <2>1, <2>2, RunKeepsTodo
<1>14. CASE ParseFails
  <2>1. pc' \in AtCalls /\ pc' \notin AtCall /\ todo' = Asking
    BY <1>14 DEF ParseFails, AtCalls, AtCall
  <2>2. Reads \subseteq MayCall' /\ Write("calendar") \notin Reads
    BY DEF MayCall, Reads, Write
  <2>. PICK s \in Seq(Reads) : s = todo'
    BY <2>1, AskingReads
  <2>3. s \in Seq(MayCall')
    BY <2>2, SeqMonotonic
  <2>4. \A i \in DOMAIN s : s[i] # Write("calendar")
    BY <2>2, CallIn, Zenon
  <2>5. QED BY <2>1, <2>3, <2>4, Zenon DEF TodoInv
<1>15. CASE CallOk
  <2>1. /\ pc \in AtCalls /\ todo # << >> /\ todo' = Tail(todo) /\ pc' = "call"
        /\ UNCHANGED <<says, intent>>
    BY <1>15 DEF CallOk, AtCalls, AtCall, TodoInv
  <2>2. QED BY <2>1, TailKeepsTodo
<1>16. CASE CallFails
  <2>1. CASE Head(todo).soft
    <3>1. /\ pc \in AtCalls /\ todo # << >> /\ todo' = Tail(todo) /\ pc' = "call"
          /\ UNCHANGED <<says, intent>>
      BY <1>16, <2>1 DEF CallFails, Calling, AtCalls, AtCall, TodoInv
    <3>2. QED BY <3>1, TailKeepsTodo
  <2>2. CASE ~ Head(todo).soft
    <3>1. todo' = << >> /\ intent' = "" /\ pc' = "reply"
      BY <1>16, <2>2 DEF CallFails, Respond
    <3>2. QED BY <3>1, NothingLeft DEF AtCall
  <2>3. QED BY <2>1, <2>2
<1>17. CASE Answer
  <2>1. todo' = << >> /\ intent' = "" /\ pc' \notin AtCall
    BY <1>17 DEF Answer, GiveUp, Respond, SameProcess, SameFiles,
      AtCalls, AtCall
  <2>2. QED BY <2>1, NothingLeft
<1>18. CASE Send
  <2>1. UNCHANGED <<pc, says, intent, todo, parked>>
    BY <1>18 DEF Send, dialogueVars
  <2>2. QED BY <2>1, SameLeft
<1>19. CASE Finish
  <2>1. todo' = << >> /\ intent' = "" /\ pc' \notin AtCall
    BY <1>19 DEF Finish, SameRequest,
      AtCalls, AtCall
  <2>2. QED BY <2>1, NothingLeft
<1>20. CASE DeadlinePasses
  <2>1. UNCHANGED <<pc, says, intent, todo, parked>>
    BY <1>20 DEF DeadlinePasses, SameProcess, SameRequest
  <2>2. QED BY <2>1, SameLeft
<1>21. CASE Signal
  <2>1. UNCHANGED <<pc, says, intent, todo, parked>>
    BY <1>21 DEF Signal, SameRequest
  <2>2. QED BY <2>1, SameLeft
<1>22. CASE LoopStops
  <2>1. todo' = << >> /\ intent' = "" /\ pc' \notin AtCall
    BY <1>22 DEF LoopStops, Advance, SameProcess, SameRequest, SameFiles,
      AtCalls, AtCall
  <2>2. QED BY <2>1, NothingLeft
<1>23. CASE Exit
  <2>1. todo' = << >> /\ intent' = "" /\ pc' \notin AtCall
    BY <1>23 DEF Exit, Ends,
      AtCalls, AtCall
  <2>2. QED BY <2>1, NothingLeft
<1>24. CASE Kill
  <2>1. todo' = << >> /\ intent' = "" /\ pc' \notin AtCall
    BY <1>24 DEF Kill, Ends,
      AtCalls, AtCall
  <2>2. QED BY <2>1, NothingLeft
<1>25. CASE Panic
  <2>1. todo' = << >> /\ intent' = "" /\ pc' \notin AtCall
    BY <1>25 DEF Panic, Ends,
      AtCalls, AtCall
  <2>2. QED BY <2>1, NothingLeft
<1>26. CASE Start
  <2>1. UNCHANGED <<pc, says, intent, todo, parked>>
    BY <1>26 DEF Start, SameRequest
  <2>2. QED BY <2>1, SameLeft
<1>27. CASE Done
  <2>1. UNCHANGED <<pc, says, intent, todo, parked>>
    BY <1>27 DEF Done, vars, dialogueVars
  <2>2. QED BY <2>1, SameLeft
<1>28. CASE UNCHANGED vars
  <2>1. UNCHANGED <<pc, says, intent, todo, parked>>
    BY <1>28 DEF vars, dialogueVars
  <2>2. QED BY <2>1, SameLeft
<1>29. CASE Renew
  <2>1. /\ todo # << >> /\ pc \in AtCalls /\ pc' \in AtCalls
        /\ UNCHANGED <<says, intent, todo, parked>>
    BY <1>29 DEF Renew, Advance, SameRequest, Calling, AtCalls
  <2>2. QED BY <2>1, SameCalls
<1>30. CASE Launch
  <2>1. /\ todo # << >> /\ pc \in AtCalls /\ pc' \in AtCalls
        /\ UNCHANGED <<says, intent, todo, parked>>
    BY <1>30 DEF Launch, SameRequest, Calling, AtCalls, AtCall, TodoInv
  <2>2. QED BY <2>1, SameCalls
<1>. QED BY <1>1, <1>2, <1>3, <1>4, <1>5, <1>6, <1>7, <1>8, <1>9, <1>10, <1>11,
  <1>12, <1>13, <1>14, <1>15, <1>16, <1>17, <1>18, <1>19, <1>20, <1>21, <1>22,
  <1>23, <1>24, <1>25, <1>26, <1>27, <1>28, <1>29, <1>30 DEF Next
------------------------------------------------------------------------------
(* The types, and what is written.                                         *)

\* What TypeOK says of the process and of the loop.
ControlTyped ==
  /\ adapters \in Setups
  /\ process \in {"up", "stopping", "down"}
  /\ pc \in Waiting \cup {"idle", "reply", "stopped"}
  /\ context \in {"live", "ended"}
  /\ says \in Handlers \cup Speech \cup {""}
  /\ intent \in Intents \cup {""}
  /\ starts \in 0 .. MaxStarts

\* What it says of the messages taken.
MessagesTyped ==
  /\ taken \in 0 .. MaxMessages
  /\ answered \cup cut \cup files \subseteq 1 .. taken
  /\ deferred => taken \in files

\* The loop and the process stay within their states.
LEMMA ControlKept ==
  ASSUME ControlTyped, [Next]_vars
  PROVE  ControlTyped'
<1>. MaxStarts \in Nat
  BY DialogueAssumption
<1>1. CASE \E words \in Handlers \cup Speech : Take(FALSE, words)
  BY <1>1 DEF Take, ControlTyped, Waiting, replyVars
<1>2. CASE Take(TRUE, "")
  BY <1>2 DEF Take, ControlTyped, Waiting, replyVars
<1>3. CASE Located
  BY <1>3 DEF Located, Advance, SameProcess, SameRequest, SameFiles,
    ControlTyped, Waiting, replyVars
<1>4. CASE LocateFails
  BY <1>4 DEF LocateFails, GiveUp, Respond, SameProcess, SameFiles,
    ControlTyped, Waiting, replyVars
<1>5. CASE Downloading
  BY <1>5 DEF Downloading, Advance, SameProcess, SameRequest, ControlTyped,
    Waiting, replyVars
<1>6. CASE DownloadFails
  BY <1>6 DEF DownloadFails, GiveUp, Respond, SameProcess, SameFiles,
    ControlTyped, Waiting, replyVars
<1>7. CASE Copied
  BY <1>7 DEF Copied, Advance, SameProcess, SameRequest, ControlTyped, Waiting,
    replyVars
<1>8. CASE CopyFails
  BY <1>8 DEF CopyFails, GiveUp, Respond, SameProcess, ControlTyped, Waiting,
    replyVars
<1>9. CASE \E words \in Handlers \cup Speech : Transcribed(words)
  BY <1>9 DEF Transcribed, Advance, SameProcess, ControlTyped, Waiting,
    replyVars
<1>10. CASE TranscribeFails
  BY <1>10 DEF TranscribeFails, GiveUp, Respond, SameProcess, SameFiles,
    ControlTyped, Waiting, replyVars
<1>11. CASE Command
  BY <1>11 DEF Command, Run, SameProcess, ControlTyped, Waiting, replyVars
<1>12. CASE Parse
  BY <1>12 DEF Parse, Advance, SameProcess, SameRequest, SameFiles,
    ControlTyped, Waiting, replyVars
<1>13. CASE \E kind \in Intents : Parsed(kind)
  BY <1>13 DEF Parsed, Run, SameProcess, ControlTyped, Waiting, replyVars
<1>14. CASE ParseFails
  BY <1>14 DEF ParseFails, SameProcess, ControlTyped, Waiting, replyVars
<1>15. CASE CallOk
  BY <1>15 DEF CallOk, SameProcess, ControlTyped, Waiting, replyVars
<1>16. CASE CallFails
  BY <1>16 DEF CallFails, Respond, SameProcess, ControlTyped, Waiting, replyVars
<1>17. CASE Answer
  BY <1>17 DEF Answer, GiveUp, Respond, SameProcess, SameFiles, ControlTyped,
    Waiting, replyVars
<1>18. CASE Send
  BY <1>18 DEF Send, dialogueVars, ControlTyped, Waiting, replyVars
<1>19. CASE Finish
  BY <1>19 DEF Finish, SameRequest, ControlTyped, Waiting, replyVars
<1>20. CASE DeadlinePasses
  BY <1>20 DEF DeadlinePasses, SameProcess, SameRequest, ControlTyped, Waiting,
    replyVars
<1>21. CASE Signal
  BY <1>21 DEF Signal, SameRequest, ControlTyped, Waiting, replyVars
<1>22. CASE LoopStops
  BY <1>22 DEF LoopStops, Advance, SameProcess, SameRequest, SameFiles,
    ControlTyped, Waiting, replyVars
<1>23. CASE Exit
  BY <1>23 DEF Exit, Ends, ControlTyped, Waiting, replyVars
<1>24. CASE Kill
  BY <1>24 DEF Kill, Ends, ControlTyped, Waiting, replyVars
<1>25. CASE Panic
  BY <1>25 DEF Panic, Ends, ControlTyped, Waiting, replyVars
<1>26. CASE Start
  <2>1. /\ adapters' \in Setups /\ process' = "up"
        /\ starts < MaxStarts /\ starts' = starts + 1
        /\ UNCHANGED <<pc, context, says, intent>>
    BY <1>26 DEF Start, SameRequest
  <2>2. starts \in 0 .. MaxStarts
    BY DEF ControlTyped
  <2>3. starts < MaxStarts /\ starts' = starts + 1
    BY <2>1
  <2>4. starts' \in 0 .. MaxStarts
    BY <2>2, <2>3
  <2>5. QED BY <2>1, <2>4 DEF ControlTyped
<1>27. CASE Done
  BY <1>27 DEF Done, vars, dialogueVars, ControlTyped, Waiting, replyVars
<1>28. CASE UNCHANGED vars
  BY <1>28 DEF vars, dialogueVars, ControlTyped, Waiting, replyVars
<1>29. CASE Renew
  BY <1>29 DEF Renew, Advance, SameProcess, SameRequest, SameFiles, ControlTyped,
    Waiting, replyVars
<1>30. CASE Launch
  BY <1>30 DEF Launch, SameRequest, SameFiles, ControlTyped,
    Waiting, replyVars
<1>. QED BY <1>1, <1>2, <1>3, <1>4, <1>5, <1>6, <1>7, <1>8, <1>9, <1>10, <1>11,
  <1>12, <1>13, <1>14, <1>15, <1>16, <1>17, <1>18, <1>19, <1>20, <1>21, <1>22,
  <1>23, <1>24, <1>25, <1>26, <1>27, <1>28, <1>29, <1>30 DEF Next

\* The process ends: the message at hand, if there is one, is one of those taken.
LEMMA EndKeepsMessages ==
  ASSUME MessagesTyped, FilesInv, Ends, files' \subseteq files
  PROVE  MessagesTyped'
<1>1. /\ cut' = cut \cup IF pc \in {"idle", "stopped"} THEN {} ELSE {taken}
      /\ deferred' = FALSE
      /\ UNCHANGED <<taken, answered>>
  BY DEF Ends
<1>2. pc \in {"idle", "stopped"} \/ taken > 0
  BY DEF FilesInv, Resting
<1>3. cut' \subseteq 1 .. taken
  BY <1>1, <1>2 DEF MessagesTyped
<1>. QED BY <1>1, <1>3 DEF MessagesTyped

\* What is recorded of messages is of messages taken.
LEMMA MessagesKept ==
  ASSUME MessagesTyped, FilesInv, [Next]_vars
  PROVE  MessagesTyped'
<1>. taken \in Nat /\ MaxMessages \in Nat
  <2>1. MaxMessages \in Nat
    BY DialogueAssumption
  <2>2. QED BY <2>1 DEF MessagesTyped
<1>1. CASE \E words \in Handlers \cup Speech : Take(FALSE, words)
  BY <1>1 DEF Take, MessagesTyped, FilesInv, AtCalls, Resting, replyVars
<1>2. CASE Take(TRUE, "")
  <2>1. /\ pc = "idle" /\ taken < MaxMessages /\ taken' = taken + 1
        /\ UNCHANGED <<answered, cut, files, deferred>>
    BY <1>2 DEF Take
  <2>2. QED BY <2>1 DEF MessagesTyped, FilesInv, AtCalls
<1>3. CASE Located
  BY <1>3 DEF Located, Advance, SameProcess, SameRequest, SameFiles,
    MessagesTyped, FilesInv, AtCalls, Resting, replyVars
<1>4. CASE LocateFails
  BY <1>4 DEF LocateFails, GiveUp, Respond, SameProcess, SameFiles,
    MessagesTyped, FilesInv, AtCalls, Resting, replyVars
<1>5. CASE Downloading
  BY <1>5 DEF Downloading, Advance, SameProcess, SameRequest, MessagesTyped,
    FilesInv, AtCalls, Resting, replyVars
<1>6. CASE DownloadFails
  BY <1>6 DEF DownloadFails, GiveUp, Respond, SameProcess, SameFiles,
    MessagesTyped, FilesInv, AtCalls, Resting, replyVars
<1>7. CASE Copied
  BY <1>7 DEF Copied, Advance, SameProcess, SameRequest, MessagesTyped,
    FilesInv, AtCalls, Resting, replyVars
<1>8. CASE CopyFails
  BY <1>8 DEF CopyFails, GiveUp, Respond, SameProcess, MessagesTyped, FilesInv, AtCalls,
    Resting, replyVars
<1>9. CASE \E words \in Handlers \cup Speech : Transcribed(words)
  BY <1>9 DEF Transcribed, Advance, SameProcess, MessagesTyped, FilesInv, AtCalls,
    Resting, replyVars
<1>10. CASE TranscribeFails
  BY <1>10 DEF TranscribeFails, GiveUp, Respond, SameProcess, SameFiles,
    MessagesTyped, FilesInv, AtCalls, Resting, replyVars
<1>11. CASE Command
  BY <1>11 DEF Command, Run, SameProcess, MessagesTyped, FilesInv, AtCalls, Resting,
    replyVars
<1>12. CASE Parse
  BY <1>12 DEF Parse, Advance, SameProcess, SameRequest, SameFiles,
    MessagesTyped, FilesInv, AtCalls, Resting, replyVars
<1>13. CASE \E kind \in Intents : Parsed(kind)
  BY <1>13 DEF Parsed, Run, SameProcess, MessagesTyped, FilesInv, AtCalls, Resting,
    replyVars
<1>14. CASE ParseFails
  BY <1>14 DEF ParseFails, SameProcess, MessagesTyped, FilesInv, AtCalls, Resting,
    replyVars
<1>15. CASE CallOk
  BY <1>15 DEF CallOk, SameProcess, MessagesTyped, FilesInv, AtCalls, Resting, replyVars
<1>16. CASE CallFails
  BY <1>16 DEF CallFails, Respond, SameProcess, MessagesTyped, FilesInv, AtCalls,
    Resting, replyVars
<1>17. CASE Answer
  BY <1>17 DEF Answer, GiveUp, Respond, SameProcess, SameFiles, MessagesTyped,
    FilesInv, AtCalls, Resting, replyVars
<1>18. CASE Send
  BY <1>18 DEF Send, dialogueVars, MessagesTyped, FilesInv, AtCalls, Resting, replyVars
<1>19. CASE Finish
  <2>1. /\ pc = "reply" /\ answered' = answered \cup {taken}
        /\ files' \subseteq files /\ deferred' = FALSE
        /\ UNCHANGED <<taken, cut>>
    BY <1>19 DEF Finish, RemoveRecording
  <2>2. taken > 0
    BY <2>1 DEF FilesInv, AtCalls, Resting
  <2>3. QED BY <2>1, <2>2 DEF MessagesTyped
<1>20. CASE DeadlinePasses
  BY <1>20 DEF DeadlinePasses, SameProcess, SameRequest, MessagesTyped,
    FilesInv, AtCalls, Resting, replyVars
<1>21. CASE Signal
  BY <1>21 DEF Signal, SameRequest, MessagesTyped, FilesInv, AtCalls, Resting, replyVars
<1>22. CASE LoopStops
  BY <1>22 DEF LoopStops, Advance, SameProcess, SameRequest, SameFiles,
    MessagesTyped, FilesInv, AtCalls, Resting, replyVars
<1>23. CASE Exit
  <2>1. files' \subseteq files /\ Ends
    BY <1>23 DEF Exit
  <2>2. QED BY <2>1, EndKeepsMessages
<1>24. CASE Kill
  <2>1. files' \subseteq files /\ Ends
    BY <1>24 DEF Kill
  <2>2. QED BY <2>1, EndKeepsMessages
<1>25. CASE Panic
  <2>1. files' \subseteq files /\ Ends
    BY <1>25 DEF Panic, RemoveRecording
  <2>2. QED BY <2>1, EndKeepsMessages
<1>26. CASE Start
  BY <1>26 DEF Start, SameRequest, MessagesTyped, FilesInv, AtCalls, Resting, replyVars
<1>27. CASE Done
  BY <1>27 DEF Done, vars, dialogueVars, MessagesTyped, FilesInv, AtCalls, Resting,
    replyVars
<1>28. CASE UNCHANGED vars
  BY <1>28 DEF vars, dialogueVars, MessagesTyped, FilesInv, AtCalls, Resting, replyVars
<1>29. CASE Renew
  BY <1>29 DEF Renew, Advance, SameProcess, SameRequest, SameFiles, MessagesTyped,
    FilesInv, AtCalls, Resting, replyVars
<1>30. CASE Launch
  BY <1>30 DEF Launch, SameRequest, SameFiles, MessagesTyped,
    FilesInv, AtCalls, Resting, replyVars
<1>. QED BY <1>1, <1>2, <1>3, <1>4, <1>5, <1>6, <1>7, <1>8, <1>9, <1>10, <1>11,
  <1>12, <1>13, <1>14, <1>15, <1>16, <1>17, <1>18, <1>19, <1>20, <1>21, <1>22,
  <1>23, <1>24, <1>25, <1>26, <1>27, <1>28, <1>29, <1>30 DEF Next

\* A handler parks a proposal, drops one that is there, or leaves them alone.
LEMMA RunKeepsParked ==
  ASSUME parked \in Nat, NEW handler, NEW checked, Run(handler, checked)
  PROVE  parked' \in Nat
<1>1. CASE parked' = parked
  BY <1>1
<1>2. CASE parked' \in ParkedBy(handler)
  <2>1. CASE handler = "propose"
    <3>1. ParkedBy(handler) = {parked + 1}
      BY <2>1, Zenon DEF ParkedBy
    <3>2. QED BY <1>2, <3>1
  <2>2. CASE handler = "cancel" /\ parked > 0
    <3>1. ParkedBy(handler) = {parked, parked - 1}
      BY <2>2, Zenon DEF ParkedBy
    <3>2. QED BY <1>2, <2>2, <3>1
  <2>3. CASE handler # "propose" /\ ~ (handler = "cancel" /\ parked > 0)
    <3>1. ParkedBy(handler) = {parked}
      BY <2>3, Zenon DEF ParkedBy
    <3>2. QED BY <1>2, <3>1
  <2>4. QED BY <2>1, <2>2, <2>3
<1>. QED BY <1>1, <1>2 DEF Run

\* Proposals are counted from zero: one is taken away only where there is one.
LEMMA ParkedKept ==
  ASSUME parked \in Nat, TodoInv, [Next]_vars
  PROVE  parked' \in Nat
<1>1. CASE \E words \in Handlers \cup Speech : Take(FALSE, words)
  BY <1>1 DEF Take, replyVars
<1>2. CASE Take(TRUE, "")
  BY <1>2 DEF Take, replyVars
<1>3. CASE Located
  BY <1>3 DEF Located, Advance, SameProcess, SameRequest, SameFiles, replyVars
<1>4. CASE LocateFails
  BY <1>4 DEF LocateFails, GiveUp, Respond, SameProcess, SameFiles, replyVars
<1>5. CASE Downloading
  BY <1>5 DEF Downloading, Advance, SameProcess, SameRequest, replyVars
<1>6. CASE DownloadFails
  BY <1>6 DEF DownloadFails, GiveUp, Respond, SameProcess, SameFiles, replyVars
<1>7. CASE Copied
  BY <1>7 DEF Copied, Advance, SameProcess, SameRequest, replyVars
<1>8. CASE CopyFails
  BY <1>8 DEF CopyFails, GiveUp, Respond, SameProcess, replyVars
<1>9. CASE \E words \in Handlers \cup Speech : Transcribed(words)
  BY <1>9 DEF Transcribed, Advance, SameProcess, replyVars
<1>10. CASE TranscribeFails
  BY <1>10 DEF TranscribeFails, GiveUp, Respond, SameProcess, SameFiles,
    replyVars
<1>11. CASE Command
  <2>1. Run(says, TRUE)
    BY <1>11 DEF Command
  <2>2. QED BY <2>1, RunKeepsParked
<1>12. CASE Parse
  BY <1>12 DEF Parse, Advance, SameProcess, SameRequest, SameFiles, replyVars
<1>13. CASE \E kind \in Intents : Parsed(kind)
  <2>. PICK kind \in Intents : Parsed(kind)
    BY <1>13
  <2>1. Run(Leads(kind), Checked(kind))
    BY DEF Parsed
  <2>2. QED BY <2>1, RunKeepsParked
<1>14. CASE ParseFails
  BY <1>14 DEF ParseFails, SameProcess, replyVars
<1>15. CASE CallOk
  <2>. PICK s \in Seq(MayCall) : s = todo
    BY DEF TodoInv
  <2>1. s # << >> /\ parked' = IF Head(s) = Write("calendar") THEN parked - 1
    ELSE parked
    BY <1>15 DEF CallOk, TodoInv, AtCall
  <2>2. Head(s) = Write("calendar") => parked > 0
    BY <2>1, FirstCall, Zenon DEF TodoInv
  <2>3. QED BY <2>1, <2>2
<1>16. CASE CallFails
  BY <1>16 DEF CallFails, Respond, SameProcess, replyVars
<1>17. CASE Answer
  BY <1>17 DEF Answer, GiveUp, Respond, SameProcess, SameFiles, replyVars
<1>18. CASE Send
  BY <1>18 DEF Send, dialogueVars, replyVars
<1>19. CASE Finish
  BY <1>19 DEF Finish, SameRequest, replyVars
<1>20. CASE DeadlinePasses
  BY <1>20 DEF DeadlinePasses, SameProcess, SameRequest, replyVars
<1>21. CASE Signal
  BY <1>21 DEF Signal, SameRequest, replyVars
<1>22. CASE LoopStops
  BY <1>22 DEF LoopStops, Advance, SameProcess, SameRequest, SameFiles,
    replyVars
<1>23. CASE Exit
  BY <1>23 DEF Exit, Ends, replyVars
<1>24. CASE Kill
  BY <1>24 DEF Kill, Ends, replyVars
<1>25. CASE Panic
  BY <1>25 DEF Panic, Ends, replyVars
<1>26. CASE Start
  BY <1>26 DEF Start, SameRequest, replyVars
<1>27. CASE Done
  BY <1>27 DEF Done, vars, dialogueVars, replyVars
<1>28. CASE UNCHANGED vars
  BY <1>28 DEF vars, dialogueVars, replyVars
<1>29. CASE Renew
  BY <1>29 DEF Renew, Advance, SameProcess, SameRequest, SameFiles, replyVars
<1>30. CASE Launch
  BY <1>30 DEF Launch, SameRequest, SameFiles, replyVars
<1>. QED BY <1>1, <1>2, <1>3, <1>4, <1>5, <1>6, <1>7, <1>8, <1>9, <1>10, <1>11,
  <1>12, <1>13, <1>14, <1>15, <1>16, <1>17, <1>18, <1>19, <1>20, <1>21, <1>22,
  <1>23, <1>24, <1>25, <1>26, <1>27, <1>28, <1>29, <1>30 DEF Next

\* The writes sent have their types.
WritesTyped ==
  launched \subseteq [service : Adapters, says : Handlers \cup Speech,
                      intent : Intents \cup {""}, late : BOOLEAN]

\* Only one step of the program sends a write.
LEMMA OnlyCallsWrite ==
  ASSUME [Next]_vars
  PROVE  UNCHANGED launched \/ Launch
<1>1. CASE \E words \in Handlers \cup Speech : Take(FALSE, words)
  BY <1>1 DEF Take
<1>2. CASE Take(TRUE, "")
  BY <1>2 DEF Take
<1>3. CASE Located
  BY <1>3 DEF Located, Advance, SameProcess, SameRequest, SameFiles
<1>4. CASE LocateFails
  BY <1>4 DEF LocateFails, GiveUp, Respond, SameProcess, SameFiles
<1>5. CASE Downloading
  BY <1>5 DEF Downloading, Advance, SameProcess, SameRequest
<1>6. CASE DownloadFails
  BY <1>6 DEF DownloadFails, GiveUp, Respond, SameProcess, SameFiles
<1>7. CASE Copied
  BY <1>7 DEF Copied, Advance, SameProcess, SameRequest
<1>8. CASE CopyFails
  BY <1>8 DEF CopyFails, GiveUp, Respond, SameProcess
<1>9. CASE \E words \in Handlers \cup Speech : Transcribed(words)
  BY <1>9 DEF Transcribed, Advance, SameProcess
<1>10. CASE TranscribeFails
  BY <1>10 DEF TranscribeFails, GiveUp, Respond, SameProcess, SameFiles
<1>11. CASE Command
  BY <1>11 DEF Command, Run, SameProcess
<1>12. CASE Parse
  BY <1>12 DEF Parse, Advance, SameProcess, SameRequest, SameFiles
<1>13. CASE \E kind \in Intents : Parsed(kind)
  BY <1>13 DEF Parsed, Run, SameProcess
<1>14. CASE ParseFails
  BY <1>14 DEF ParseFails, SameProcess
<1>15. CASE CallOk
  BY <1>15 DEF CallOk, SameProcess
<1>16. CASE CallFails
  BY <1>16 DEF CallFails, Respond, SameProcess
<1>17. CASE Answer
  BY <1>17 DEF Answer, GiveUp, Respond, SameProcess, SameFiles
<1>18. CASE Send
  BY <1>18 DEF Send, dialogueVars
<1>19. CASE Finish
  BY <1>19 DEF Finish, SameRequest
<1>20. CASE DeadlinePasses
  BY <1>20 DEF DeadlinePasses, SameProcess, SameRequest
<1>21. CASE Signal
  BY <1>21 DEF Signal, SameRequest
<1>22. CASE LoopStops
  BY <1>22 DEF LoopStops, Advance, SameProcess, SameRequest, SameFiles
<1>23. CASE Exit
  BY <1>23 DEF Exit, Ends
<1>24. CASE Kill
  BY <1>24 DEF Kill, Ends
<1>25. CASE Panic
  BY <1>25 DEF Panic, Ends
<1>26. CASE Start
  BY <1>26 DEF Start, SameRequest
<1>27. CASE Done
  BY <1>27 DEF Done, vars, dialogueVars
<1>28. CASE UNCHANGED vars
  BY <1>28 DEF vars, dialogueVars
<1>29. CASE Renew
  BY <1>29 DEF Renew, Advance, SameProcess, SameRequest, SameFiles
<1>30. CASE Launch
  BY <1>30
<1>. QED BY <1>1, <1>2, <1>3, <1>4, <1>5, <1>6, <1>7, <1>8, <1>9, <1>10, <1>11,
  <1>12, <1>13, <1>14, <1>15, <1>16, <1>17, <1>18, <1>19, <1>20, <1>21, <1>22,
  <1>23, <1>24, <1>25, <1>26, <1>27, <1>28, <1>29, <1>30 DEF Next

\* A call goes out while the request is live, that is, before the signal: if it
\* writes, it is what the user asked for.
LEMMA LaunchWrites ==
  ASSUME ControlTyped, ContextInv, TodoInv, Launch
  PROVE  \/ UNCHANGED launched
         \/ \E service \in {"memory", "calendar"} :
              /\ launched' = launched \cup
                   {[service |-> service, says |-> says, intent |-> intent,
                     late |-> FALSE]}
              /\ service = "calendar" => intent = "" /\ says = "confirm"
              /\ service = "memory" =>
                   \/ intent = "" /\ says \in {"remember", "forget"}
                   \/ intent # "" /\ says = "request"
<1>1. (process = "stopping") = FALSE
  BY DEF ContextInv, ControlTyped, Launch
<1>2. todo # << >>
  BY DEF TodoInv, AtCall, Launch, Calling
<1>3. Head(todo) \in MayCall
  BY <1>2, FirstCall DEF TodoInv
<1>4. CASE Head(todo) \in Reads
  <2>1. ~ Head(todo).writes
    BY <1>4 DEF Reads
  <2>2. QED BY <2>1, Zenon DEF Launch
<1>5. ASSUME NEW service, Head(todo) = Write(service)
      PROVE  launched' = launched \cup
               {[service |-> service, says |-> says, intent |-> intent,
                 late |-> FALSE]}
  <2>1. Head(todo).writes = TRUE /\ Head(todo).service = service
    BY <1>5 DEF Write
  <2>2. QED BY <2>1, <1>1, Zenon DEF Launch
<1>6. CASE /\ Head(todo) = Write("memory")
           /\ \/ intent = "" /\ says \in {"remember", "forget"}
              \/ intent # "" /\ says = "request"
  BY <1>5, <1>6, Zenon
<1>7. CASE Head(todo) = Write("calendar") /\ intent = "" /\ says = "confirm"
  BY <1>5, <1>7, Zenon
<1>. QED BY <1>3, <1>4, <1>6, <1>7 DEF MayCall

\* Nothing but a call writes, and only while the request is live; what it writes
\* follows from what the user said.
LEMMA WritesKept ==
  ASSUME ControlTyped, ContextInv, TodoInv, WritesTyped, ModelOnlyProposes,
         NothingSentAfterStop, [Next]_vars
  PROVE  WritesTyped' /\ ModelOnlyProposes' /\ NothingSentAfterStop'
<1>1. CASE UNCHANGED launched
  BY <1>1 DEF WritesTyped, ModelOnlyProposes, NothingSentAfterStop
<1>2. CASE Launch /\ launched' # launched
  <2>. PICK service \in {"memory", "calendar"} :
         /\ launched' = launched \cup
              {[service |-> service, says |-> says, intent |-> intent,
                late |-> FALSE]}
         /\ service = "calendar" => intent = "" /\ says = "confirm"
         /\ service = "memory" =>
              \/ intent = "" /\ says \in {"remember", "forget"}
              \/ intent # "" /\ says = "request"
    BY <1>2, LaunchWrites
  <2>. PICK w : w = [service |-> service, says |-> says, intent |-> intent,
                     late |-> FALSE]
    OBVIOUS
  <2>1. /\ w.service = service /\ w.says = says /\ w.intent = intent
        /\ ~ w.late
    OBVIOUS
  <2>2. /\ service \in Adapters
        /\ says \in Handlers \cup Speech
        /\ intent \in Intents \cup {""}
    BY DEF ControlTyped, Adapters, Handlers, Speech
  <2>3. w \in [service : Adapters, says : Handlers \cup Speech,
               intent : Intents \cup {""}, late : BOOLEAN]
    BY <2>2
  <2>4. launched' = launched \cup {w}
    OBVIOUS
  <2>5. WritesTyped'
    BY <2>3, <2>4 DEF WritesTyped
  <2>6. /\ w.service = "calendar" => w.says = "confirm" /\ w.intent = ""
        /\ w.intent # "" => w.service = "memory" /\ w.says = "request"
    BY <2>1
  <2>7. ModelOnlyProposes'
    BY <2>4, <2>6, Zenon DEF ModelOnlyProposes
  <2>8. NothingSentAfterStop'
    BY <2>1, <2>4, Zenon DEF NothingSentAfterStop
  <2>. QED BY <2>5, <2>7, <2>8
<1>. QED BY <1>1, <1>2, OnlyCallsWrite
------------------------------------------------------------------------------
(* Cutting a text.                                                         *)

\* Any set of numbers has a least one.
LEMMA LeastOf ==
  ASSUME NEW S \in SUBSET Nat, S # {}
  PROVE  /\ Min(S) \in S
         /\ \A n \in S : Min(S) <= n
<1>. DEFINE Below == {1 .. n : n \in S}
<1>1. Below \subseteq FiniteSubsetsOf(Nat)
  BY FS_Interval DEF FiniteSubsetsOf
<1>2. PICK x \in Below :
        \A y \in Below : <<y, x>> \notin StrictSubsetOrdering(Nat)
  <2>1. Below # {}
    OBVIOUS
  <2>. HIDE DEF Below
  <2>2. QED BY <1>1, <2>1, FS_StrictSubsetOrderingWellFounded, WFMin
<1>3. PICK m \in S : x = 1 .. m
  OBVIOUS
<1>4. \A n \in S : m <= n
  <2>1. SUFFICES ASSUME NEW n \in S, n < m
                 PROVE  FALSE
    OBVIOUS
  <2>2. (1 .. n) \subseteq (1 .. m) /\ 1 .. n # 1 .. m
    <3>1. m \in 1 .. m /\ m \notin 1 .. n
      BY <2>1
    <3>2. QED BY <2>1, <3>1
  <2>3. <<1 .. n, 1 .. m>> \in StrictSubsetOrdering(Nat)
    BY <2>2 DEF StrictSubsetOrdering
  <2>4. QED BY <1>2, <1>3, <2>3
<1>5. \E k \in S : \A n \in S : k <= n
  BY <1>4
<1>. QED BY <1>5 DEF Min

\* A bounded set of numbers has a greatest one.
LEMMA GreatestOf ==
  ASSUME NEW N \in Nat, NEW S \in SUBSET (0 .. N), S # {}
  PROVE  /\ Max(S) \in S
         /\ \A n \in S : n <= Max(S)
<1>. DEFINE Gaps == {N - n : n \in S}
<1>1. Gaps \in SUBSET Nat /\ Gaps # {}
  <2>1. \A n \in S : N - n \in Nat
    OBVIOUS
  <2>2. QED BY <2>1
<1>2. Min(Gaps) \in Gaps /\ \A g \in Gaps : Min(Gaps) <= g
  <2>. HIDE DEF Gaps
  <2>1. QED BY <1>1, LeastOf
<1>3. PICK m \in S : Min(Gaps) = N - m
  BY <1>2
<1>4. \A n \in S : m >= n
  <2>1. SUFFICES ASSUME NEW n \in S
                 PROVE  m >= n
    OBVIOUS
  <2>2. N - m <= N - n
    BY <1>2, <1>3
  <2>3. QED BY <2>2
<1>5. Max(S) \in S /\ \A n \in S : Max(S) >= n
  BY <1>4 DEF Max
<1>. QED BY <1>5

\* A text of which blanks at the ends have been cut off.
Tight(text) ==
  /\ text \in Seq(Runes)
  /\ text # << >> => text[1] \in Solids /\ text[Len(text)] \in Solids

\* Where a text has its solid characters.
LEMMA SolidPlaces ==
  ASSUME NEW text \in Seq(Runes)
  PROVE  /\ SolidAt(text) \subseteq 1 .. Len(text)
         /\ SolidAt(text) \in SUBSET Nat
         /\ SolidAt(text) \in SUBSET (0 .. Len(text))
         /\ \A i \in SolidAt(text) : text[i] \in Solids
BY DEF SolidAt

\* strings.TrimSpace leaves a text that begins and ends with a solid character,
\* or nothing when there is none.
LEMMA TrimTightens ==
  ASSUME NEW text \in Seq(Runes)
  PROVE  /\ Tight(TrimSpace(text))
         /\ Len(TrimSpace(text)) <= Len(text)
         /\ SolidAt(text) # {} => TrimSpace(text) # << >>
<1>1. CASE SolidAt(text) = {}
  <2>1. TrimSpace(text) = << >>
    BY <1>1 DEF TrimSpace
  <2>2. << >> \in Seq(Runes) /\ Len(<< >>) = 0 /\ Len(text) \in Nat
    OBVIOUS
  <2>3. QED BY <1>1, <2>1, <2>2 DEF Tight
<1>2. CASE SolidAt(text) # {}
  <2>. DEFINE a == Min(SolidAt(text))
              b == Max(SolidAt(text))
  <2>1. /\ a \in SolidAt(text) /\ b \in SolidAt(text)
        /\ a <= b
    <3>1. a \in SolidAt(text) /\ \A n \in SolidAt(text) : a <= n
      BY <1>2, SolidPlaces, LeastOf
    <3>2. Len(text) \in Nat
      OBVIOUS
    <3>3. b \in SolidAt(text)
      BY <1>2, <3>2, SolidPlaces, GreatestOf
    <3>4. QED BY <3>1, <3>3
  <2>2. /\ a \in 1 .. Len(text) /\ b \in 1 .. Len(text)
        /\ text[a] \in Solids /\ text[b] \in Solids
    BY <2>1, SolidPlaces
  <2>3. TrimSpace(text) = SubSeq(text, a, b)
    BY <1>2 DEF TrimSpace
  <2>. HIDE DEF a, b
  <2>4. \A i \in a .. b : text[i] \in Runes
    BY <2>2
  <2>5. /\ SubSeq(text, a, b) \in Seq(Runes)
        /\ Len(SubSeq(text, a, b)) = b - a + 1
        /\ \A i \in 1 .. b - a + 1 : SubSeq(text, a, b)[i] = text[a + i - 1]
    BY <2>1, <2>2, <2>4, SubSeqProperties
  <2>6. /\ SubSeq(text, a, b)[1] = text[a]
        /\ SubSeq(text, a, b)[b - a + 1] = text[b]
    BY <2>1, <2>2, <2>5
  <2>7. SubSeq(text, a, b) # << >>
    BY <2>1, <2>2, <2>5
  <2>8. b - a + 1 <= Len(text)
    BY <2>1, <2>2
  <2>9. QED BY <2>2, <2>3, <2>5, <2>6, <2>7, <2>8 DEF Tight
<1>. QED BY <1>1, <1>2

\* A text that has no blanks at its ends is left as it is.
LEMMA TightIsTrimmed ==
  ASSUME NEW text, Tight(text)
  PROVE  TrimSpace(text) = text
<1>. text \in Seq(Runes)
  BY DEF Tight
<1>1. CASE text = << >>
  <2>1. SolidAt(text) = {}
    BY <1>1 DEF SolidAt
  <2>2. QED BY <1>1, <2>1 DEF TrimSpace
<1>2. CASE text # << >>
  <2>1. Len(text) \in Nat \ {0} /\ DOMAIN text = 1 .. Len(text)
    BY <1>2
  <2>2. 1 \in SolidAt(text) /\ Len(text) \in SolidAt(text)
    BY <1>2, <2>1 DEF Tight, SolidAt
  <2>3. Min(SolidAt(text)) = 1
    <3>1. /\ Min(SolidAt(text)) \in SolidAt(text)
          /\ Min(SolidAt(text)) <= 1
      BY <2>2, SolidPlaces, LeastOf
    <3>2. Min(SolidAt(text)) \in 1 .. Len(text)
      BY <3>1, SolidPlaces
    <3>3. QED BY <2>1, <3>1, <3>2
  <2>4. Max(SolidAt(text)) = Len(text)
    <3>1. /\ Max(SolidAt(text)) \in SolidAt(text)
          /\ Len(text) <= Max(SolidAt(text))
      BY <2>1, <2>2, SolidPlaces, GreatestOf
    <3>2. Max(SolidAt(text)) \in 1 .. Len(text)
      BY <3>1, SolidPlaces
    <3>3. QED BY <2>1, <3>1, <3>2
  <2>5. SubSeq(text, 1, Len(text)) = text
    <3>1. \A i \in 1 .. Len(text) : text[i] \in Runes
      BY <2>1
    <3>2. /\ SubSeq(text, 1, Len(text)) \in Seq(Runes)
          /\ Len(SubSeq(text, 1, Len(text))) = Len(text)
          /\ \A i \in 1 .. Len(text) : SubSeq(text, 1, Len(text))[i] = text[i]
      BY <2>1, <3>1, SubSeqProperties
    <3>3. QED BY <3>2, SeqEqual
  <2>6. QED BY <2>2, <2>3, <2>4, <2>5 DEF TrimSpace
<1>. QED BY <1>1, <1>2

\* A text too long is cut after its first character at the earliest, and before
\* a message is full.
LEMMA CutInRange ==
  ASSUME MaxRunes > 1, NEW text
  PROVE  Cut(text) \in 1 .. MaxRunes - 1
<1>. MaxRunes \in Nat
  BY RepliesAssumption
<1>1. ASSUME NEW rune, Breaks(text, rune) # {}
      PROVE  Max(Breaks(text, rune)) - 1 \in 1 .. MaxRunes - 1
  <2>1. 1 \notin Breaks(text, rune)
    <3>1. {j \in 1 .. 1 - 1 : text[j] = "wide"} = {}
      OBVIOUS
    <3>2. ByteIndex(text, 1) = 0
      BY <3>1, FS_EmptySet DEF ByteIndex
    <3>3. ~ (0 > MaxRunes \div 2)
      OBVIOUS
    <3>4. QED BY <3>2, <3>3 DEF Breaks
  <2>2. Breaks(text, rune) \subseteq 1 .. MaxRunes - 1
    BY DEF Breaks
  <2>3. Breaks(text, rune) \in SUBSET (0 .. MaxRunes - 1) /\ MaxRunes - 1 \in Nat
    BY <2>2
  <2>4. Max(Breaks(text, rune)) \in Breaks(text, rune)
    BY <1>1, <2>3, GreatestOf
  <2>5. QED BY <2>1, <2>2, <2>4
<1>2. CASE Breaks(text, "newline") # {}
  <2>1. Cut(text) = Max(Breaks(text, "newline")) - 1
    BY <1>2, Zenon DEF Cut
  <2>2. QED BY <1>1, <1>2, <2>1
<1>3. CASE Breaks(text, "newline") = {} /\ Breaks(text, "space") # {}
  <2>1. Cut(text) = Max(Breaks(text, "space")) - 1
    BY <1>3, Zenon DEF Cut
  <2>2. QED BY <1>1, <1>3, <2>1
<1>4. CASE Breaks(text, "newline") = {} /\ Breaks(text, "space") = {}
  <2>1. MaxRunes # 1
    OBVIOUS
  <2>2. Cut(text) = MaxRunes - 1
    BY <1>4, <2>1, Zenon DEF Cut
  <2>3. QED BY <2>2
<1>. QED BY <1>2, <1>3, <1>4

\* What splitTelegramMessage takes off a text, and what it leaves.
LEMMA ChunkTaken ==
  ASSUME MaxRunes > 1, NEW text, Tight(text), text # << >>
  PROVE  /\ Tight(NextChunk(text))
         /\ Len(NextChunk(text)) \in 1 .. MaxRunes
         /\ Tight(RestAfter(text))
<1>. text \in Seq(Runes) /\ text[1] \in Solids
  BY DEF Tight
<1>. MaxRunes \in Nat
  BY RepliesAssumption
<1>1. CASE Fits(text)
  <2>1. Len(text) \in 1 .. MaxRunes
    BY <1>1 DEF Fits
  <2>2. Tight(<< >>)
    BY DEF Tight
  <2>3. QED BY <1>1, <2>1, <2>2 DEF NextChunk, RestAfter
<1>2. CASE ~ Fits(text)
  <2>. PICK n \in 1 .. MaxRunes - 1 : n = Cut(text)
    BY CutInRange
  <2>1. n < Len(text) /\ Len(text) \in Nat
    BY <1>2 DEF Fits
  <2>2. \A i \in 1 .. Len(text) : text[i] \in Runes
    OBVIOUS
  <2>3. /\ SubSeq(text, 1, n) \in Seq(Runes)
        /\ Len(SubSeq(text, 1, n)) = n
        /\ SubSeq(text, 1, n)[1] = text[1]
    <3>1. \A i \in 1 .. n : text[i] \in Runes
      BY <2>1, <2>2
    <3>2. /\ SubSeq(text, 1, n) \in Seq(Runes)
          /\ Len(SubSeq(text, 1, n)) = n - 1 + 1
          /\ \A i \in 1 .. n - 1 + 1 : SubSeq(text, 1, n)[i] = text[1 + i - 1]
      BY <3>1, SubSeqProperties
    <3>3. QED BY <3>2
  <2>4. SubSeq(text, n + 1, Len(text)) \in Seq(Runes)
    <3>1. \A i \in n + 1 .. Len(text) : text[i] \in Runes
      BY <2>1, <2>2
    <3>2. QED BY <2>1, <3>1, SubSeqProperties
  <2>. PICK head \in Seq(Runes) : head = SubSeq(text, 1, n)
    BY <2>3
  <2>. PICK tail \in Seq(Runes) : tail = SubSeq(text, n + 1, Len(text))
    BY <2>4
  <2>5. SolidAt(head) # {}
    <3>1. 1 \in DOMAIN head /\ head[1] \in Solids
      BY <2>3
    <3>2. QED BY <3>1 DEF SolidAt
  <2>6. NextChunk(text) = TrimSpace(head) /\ RestAfter(text) = TrimSpace(tail)
    BY <1>2, Zenon DEF NextChunk, RestAfter
  <2>7. Tight(TrimSpace(head)) /\ Tight(TrimSpace(tail))
    BY TrimTightens
  <2>8. Len(TrimSpace(head)) <= n /\ TrimSpace(head) # << >>
    BY <2>3, <2>5, TrimTightens
  <2>9. Len(TrimSpace(head)) \in 1 .. MaxRunes
    <3>. PICK chunk \in Seq(Runes) : chunk = TrimSpace(head)
      BY <2>7 DEF Tight
    <3>1. Len(chunk) \in Nat /\ Len(chunk) # 0
      BY <2>8
    <3>2. QED BY <2>8, <3>1
  <2>10. QED BY <2>6, <2>7, <2>9
<1>. QED BY <1>1, <1>2

\* What is sent and what is left to send have no blanks at their ends.
ReplyInv ==
  /\ Tight(rest)
  /\ told \in Seq(Seq(Runes))
  /\ \A i \in DOMAIN told : Tight(told[i]) /\ Len(told[i]) \in 1 .. MaxRunes

\* What the steps of the program do to an answer.
LEMMA ReplySteps ==
  ASSUME [Next]_vars
  PROVE  \/ UNCHANGED replyVars
         \/ NoReply'
         \/ \E text \in Texts : StartReply(text)
         \/ SendChunk
<1>1. CASE \E words \in Handlers \cup Speech : Take(FALSE, words)
  BY <1>1 DEF Take, replyVars
<1>2. CASE Take(TRUE, "")
  BY <1>2 DEF Take, replyVars
<1>3. CASE Located
  BY <1>3 DEF Located, Advance, SameProcess, SameRequest, SameFiles, replyVars
<1>4. CASE LocateFails
  BY <1>4 DEF LocateFails, GiveUp, Respond, SameProcess, SameFiles, replyVars
<1>5. CASE Downloading
  BY <1>5 DEF Downloading, Advance, SameProcess, SameRequest, replyVars
<1>6. CASE DownloadFails
  BY <1>6 DEF DownloadFails, GiveUp, Respond, SameProcess, SameFiles, replyVars
<1>7. CASE Copied
  BY <1>7 DEF Copied, Advance, SameProcess, SameRequest, replyVars
<1>8. CASE CopyFails
  BY <1>8 DEF CopyFails, GiveUp, Respond, SameProcess, replyVars
<1>9. CASE \E words \in Handlers \cup Speech : Transcribed(words)
  BY <1>9 DEF Transcribed, Advance, SameProcess, replyVars
<1>10. CASE TranscribeFails
  BY <1>10 DEF TranscribeFails, GiveUp, Respond, SameProcess, SameFiles,
    replyVars
<1>11. CASE Command
  BY <1>11 DEF Command, Run, SameProcess, replyVars
<1>12. CASE Parse
  BY <1>12 DEF Parse, Advance, SameProcess, SameRequest, SameFiles, replyVars
<1>13. CASE \E kind \in Intents : Parsed(kind)
  BY <1>13 DEF Parsed, Run, SameProcess, replyVars
<1>14. CASE ParseFails
  BY <1>14 DEF ParseFails, SameProcess, replyVars
<1>15. CASE CallOk
  BY <1>15 DEF CallOk, SameProcess, replyVars
<1>16. CASE CallFails
  BY <1>16 DEF CallFails, Respond, SameProcess, replyVars
<1>17. CASE Answer
  BY <1>17 DEF Answer, GiveUp, Respond, SameProcess, SameFiles, replyVars
<1>18. CASE Send
  BY <1>18 DEF Send, dialogueVars, replyVars
<1>19. CASE Finish
  BY <1>19 DEF Finish, EndReply, NoReply
<1>20. CASE DeadlinePasses
  BY <1>20 DEF DeadlinePasses, SameProcess, SameRequest, replyVars
<1>21. CASE Signal
  BY <1>21 DEF Signal, SameRequest, replyVars
<1>22. CASE LoopStops
  BY <1>22 DEF LoopStops, Advance, SameProcess, SameRequest, SameFiles,
    replyVars
<1>23. CASE Exit
  BY <1>23 DEF Exit, Ends, NoReply
<1>24. CASE Kill
  BY <1>24 DEF Kill, Ends, NoReply
<1>25. CASE Panic
  BY <1>25 DEF Panic, Ends, NoReply
<1>26. CASE Start
  BY <1>26 DEF Start, SameRequest, replyVars
<1>27. CASE Done
  BY <1>27 DEF Done, vars, dialogueVars, replyVars
<1>28. CASE UNCHANGED vars
  BY <1>28 DEF vars, dialogueVars, replyVars
<1>29. CASE Renew
  BY <1>29 DEF Renew, Advance, SameProcess, SameRequest, SameFiles, replyVars
<1>30. CASE Launch
  BY <1>30 DEF Launch, SameRequest, SameFiles, replyVars
<1>. QED BY <1>1, <1>2, <1>3, <1>4, <1>5, <1>6, <1>7, <1>8, <1>9, <1>10, <1>11,
  <1>12, <1>13, <1>14, <1>15, <1>16, <1>17, <1>18, <1>19, <1>20, <1>21, <1>22,
  <1>23, <1>24, <1>25, <1>26, <1>27, <1>28, <1>29, <1>30 DEF Next

\* Every chunk is cut and trimmed before it is sent, and so is what is left.
LEMMA ReplyKept ==
  ASSUME MaxRunes > 1, ReplyInv, [Next]_vars
  PROVE  ReplyInv'
<1>1. CASE UNCHANGED replyVars
  <2>1. rest' = rest /\ told' = told
    BY <1>1 DEF replyVars
  <2>2. QED BY <2>1, Zenon DEF ReplyInv, Tight
<1>2. CASE NoReply'
  <2>0. rest' = << >> /\ told' = << >>
    BY <1>2 DEF NoReply
  <2>1. Tight(<< >>)
    BY DEF Tight
  <2>2. << >> \in Seq(Seq(Runes)) /\ DOMAIN << >> = {}
    BY NoCalls
  <2>3. Tight(rest') /\ told' \in Seq(Seq(Runes)) /\ DOMAIN told' = {}
    BY <2>0, <2>1, <2>2, Zenon
  <2>4. QED BY <2>3, Zenon DEF ReplyInv, Tight
<1>3. ASSUME NEW text \in Texts, StartReply(text)
      PROVE  ReplyInv'
  <2>1. Tight(TrimSpace(text))
    BY RepliesAssumption, TrimTightens
  <2>2. Tight(rest') /\ told' = << >>
    BY <1>3, <2>1, Zenon DEF StartReply
  <2>3. told' \in Seq(Seq(Runes)) /\ DOMAIN told' = {}
    BY <2>2, NoCalls, Zenon
  <2>4. QED BY <2>2, <2>3, Zenon DEF ReplyInv, Tight
<1>4. CASE SendChunk
  <2>1. /\ rest # << >>
        /\ told' = Append(told, NextChunk(rest))
        /\ rest' = RestAfter(rest)
    BY <1>4 DEF SendChunk
  <2>. PICK chunk : chunk = NextChunk(rest)
    OBVIOUS
  <2>. PICK sent \in Seq(Seq(Runes)) : sent = told
    BY DEF ReplyInv
  <2>2. Tight(chunk) /\ Len(chunk) \in 1 .. MaxRunes /\ Tight(rest')
    BY <2>1, ChunkTaken, Zenon DEF ReplyInv
  <2>3. chunk \in Seq(Runes)
    BY <2>2 DEF Tight
  <2>4. /\ Append(sent, chunk) \in Seq(Seq(Runes))
        /\ \A i \in DOMAIN Append(sent, chunk) :
             \/ i \in DOMAIN sent /\ Append(sent, chunk)[i] = sent[i]
             \/ Append(sent, chunk)[i] = chunk
    BY <2>3
  <2>5. \A i \in DOMAIN sent : Tight(sent[i]) /\ Len(sent[i]) \in 1 .. MaxRunes
    BY DEF ReplyInv
  <2>6. \A i \in DOMAIN Append(sent, chunk) :
          Tight(Append(sent, chunk)[i]) /\ Len(Append(sent, chunk)[i]) \in 1 .. MaxRunes
    BY <2>2, <2>4, <2>5, Zenon
  <2>7. told' = Append(sent, chunk)
    BY <2>1
  <2>8. QED BY <2>2, <2>4, <2>6, <2>7, Zenon DEF ReplyInv, Tight
<1>. QED BY <1>1, <1>2, <1>3, <1>4, ReplySteps
------------------------------------------------------------------------------
(* What an answer says.                                                    *)

\* FlattenSeq by its recursion: what has been put together after each of some
\* sequences.
Unrolls(f, seqs) ==
  f = [i \in 1 .. Len(seqs) |->
         IF i = 1 THEN seqs[i] ELSE f[i - 1] \o seqs[i]]

\* Two such functions agree as long as the sequences do.
LEMMA UnrollsAlike ==
  ASSUME NEW S, NEW s \in Seq(Seq(S)), NEW t \in Seq(Seq(S)),
         NEW f, NEW g, Unrolls(f, s), Unrolls(g, t), NEW n \in Nat,
         n <= Len(s), n <= Len(t), \A i \in 1 .. n : s[i] = t[i]
  PROVE  \A i \in 1 .. n : f[i] = g[i]
<1>. DEFINE Apart == {i \in 1 .. n : f[i] # g[i]}
<1>1. SUFFICES ASSUME Apart # {} PROVE FALSE
  OBVIOUS
<1>2. Apart \in SUBSET Nat
  OBVIOUS
<1>3. PICK i \in Apart : \A j \in Apart : i <= j
  <2>. HIDE DEF Apart
  <2>. QED BY <1>1, <1>2, LeastOf
<1>4. /\ i \in 1 .. Len(s) /\ i \in 1 .. Len(t) /\ i \in 1 .. n
      /\ s[i] = t[i]
  OBVIOUS
<1>5. /\ f[i] = IF i = 1 THEN s[i] ELSE f[i - 1] \o s[i]
      /\ g[i] = IF i = 1 THEN t[i] ELSE g[i - 1] \o t[i]
  BY <1>4, Zenon DEF Unrolls
<1>6. CASE i = 1
  BY <1>4, <1>5, <1>6
<1>7. CASE i # 1
  <2>1. i - 1 \in 1 .. n /\ ~ (i <= i - 1)
    BY <1>4, <1>7
  <2>2. f[i - 1] = g[i - 1]
    BY <1>3, <2>1
  <2>. QED BY <1>4, <1>5, <1>7, <2>2
<1>. QED BY <1>6, <1>7

\* What has been put together is a sequence.
LEMMA UnrollsTyped ==
  ASSUME NEW S, NEW s \in Seq(Seq(S)), NEW f, Unrolls(f, s)
  PROVE  f \in [1 .. Len(s) -> Seq(S)]
<1>. DEFINE Odd == {i \in 1 .. Len(s) : f[i] \notin Seq(S)}
<1>1. DOMAIN f = 1 .. Len(s) /\ f = [i \in DOMAIN f |-> f[i]]
  BY Zenon DEF Unrolls
<1>2. Odd = {}
  <2>1. SUFFICES ASSUME Odd # {} PROVE FALSE
    OBVIOUS
  <2>2. Odd \in SUBSET Nat
    OBVIOUS
  <2>3. PICK i \in Odd : \A j \in Odd : i <= j
    <3>. HIDE DEF Odd
    <3>. QED BY <2>1, <2>2, LeastOf
  <2>4. i \in 1 .. Len(s) /\ s[i] \in Seq(S)
    OBVIOUS
  <2>5. f[i] = IF i = 1 THEN s[i] ELSE f[i - 1] \o s[i]
    BY <2>4, Zenon DEF Unrolls
  <2>6. i # 1
    BY <2>4, <2>5
  <2>7. i - 1 \in 1 .. Len(s) /\ ~ (i <= i - 1)
    BY <2>4, <2>6
  <2>8. f[i - 1] \in Seq(S)
    BY <2>3, <2>7
  <2>9. f[i - 1] \o s[i] \in Seq(S)
    BY <2>4, <2>8, ConcatProperties
  <2>. QED BY <2>5, <2>6, <2>9
<1>3. \A i \in 1 .. Len(s) : f[i] \in Seq(S)
  BY <1>2
<1>. HIDE DEF Odd
<1>. QED BY <1>1, <1>3

\* One more sequence continues the recursion.
LEMMA UnrollsOn ==
  ASSUME NEW S, NEW s \in Seq(Seq(S)), NEW e \in Seq(S), NEW f, Unrolls(f, s)
  PROVE  \E g : /\ Unrolls(g, Append(s, e))
                /\ g[Len(s) + 1] = IF s = << >> THEN e ELSE f[Len(s)] \o e
<1>. DEFINE n == Len(s)
            t == Append(s, e)
            last == IF s = << >> THEN e ELSE f[n] \o e
            g == [i \in 1 .. n + 1 |-> IF i = n + 1 THEN last ELSE f[i]]
<1>1. /\ n \in Nat /\ Len(t) = n + 1
      /\ \A i \in 1 .. n : t[i] = s[i]
      /\ t[n + 1] = e
      /\ s = << >> <=> n = 0
  OBVIOUS
<1>2. \A i \in 1 .. n : f[i] = IF i = 1 THEN s[i] ELSE f[i - 1] \o s[i]
  BY Zenon DEF Unrolls
<1>. HIDE DEF n, t
<1>3. ASSUME NEW i \in 1 .. n + 1
      PROVE  g[i] = IF i = 1 THEN t[i] ELSE g[i - 1] \o t[i]
  <2>1. CASE i \in 1 .. n
    <3>1. g[i] = f[i]
      BY <1>1, <2>1
    <3>2. i # 1 => g[i - 1] = f[i - 1]
      BY <1>1, <2>1
    <3>3. t[i] = s[i]
      BY <1>1, <2>1
    <3>. HIDE DEF g
    <3>4. CASE i = 1
      BY <1>2, <2>1, <3>1, <3>3, <3>4
    <3>5. CASE i # 1
      BY <1>2, <2>1, <3>1, <3>2, <3>3, <3>5
    <3>. QED BY <3>4, <3>5
  <2>2. CASE i = n + 1
    <3>1. g[i] = last
      BY <1>1, <2>2
    <3>2. i # 1 => g[i - 1] = f[n] /\ n # 0
      BY <1>1, <2>2
    <3>. HIDE DEF g
    <3>3. CASE i = 1
      <4>1. n = 0
        BY <1>1, <2>2, <3>3
      <4>. QED BY <1>1, <2>2, <3>1, <3>3, <4>1
    <3>4. CASE i # 1
      BY <1>1, <2>2, <3>1, <3>2, <3>4
    <3>. QED BY <3>3, <3>4
  <2>. QED BY <1>1, <2>1, <2>2
<1>4. g[n + 1] = last
  BY <1>1
<1>5. Unrolls(g, t)
  <2>1. g = [i \in 1 .. n + 1 |-> g[i]]
    OBVIOUS
  <2>. HIDE DEF g
  <2>2. g = [i \in 1 .. n + 1 |-> IF i = 1 THEN t[i] ELSE g[i - 1] \o t[i]]
    BY <1>3, <2>1, Zenon
  <2>3. 1 .. Len(t) = 1 .. n + 1
    BY <1>1
  <2>. QED BY <2>2, <2>3, Zenon DEF Unrolls
<1>. QED BY <1>4, <1>5 DEF n, t

\* There is such a function for every sequence.
LEMMA UnrollsExists ==
  ASSUME NEW S
  PROVE  \A s \in Seq(Seq(S)) : \E f : Unrolls(f, s)
<1>. DEFINE Without == {n \in Nat : \E s \in Seq(Seq(S)) :
                          Len(s) = n /\ ~ \E f : Unrolls(f, s)}
<1>1. SUFFICES Without = {}
  OBVIOUS
<1>2. SUFFICES ASSUME Without # {} PROVE FALSE
  OBVIOUS
<1>3. PICK n \in Without : \A j \in Without : n <= j
  <2>1. Without \in SUBSET Nat
    OBVIOUS
  <2>. HIDE DEF Without
  <2>. QED BY <1>2, <2>1, LeastOf
<1>4. PICK s \in Seq(Seq(S)) : Len(s) = n /\ ~ \E f : Unrolls(f, s)
  BY <1>3
<1>5. s # << >>
  <2>1. SUFFICES ASSUME s = << >> PROVE FALSE
    OBVIOUS
  <2>2. 1 .. Len(s) = {}
    BY <2>1
  <2>3. Unrolls([i \in {} |-> i], s)
    BY <2>2 DEF Unrolls
  <2>. QED BY <1>4, <2>3
<1>6. PICK r \in Seq(Seq(S)), e \in Seq(S) : s = Append(r, e)
  BY <1>5, SequenceEmptyOrAppend
<1>7. Len(r) \in Nat /\ ~ (n <= Len(r))
  BY <1>4, <1>6
<1>8. PICK f : Unrolls(f, r)
  BY <1>3, <1>7
<1>. QED BY <1>4, <1>6, <1>8, UnrollsOn

\* FlattenSeq is the last value of it.
LEMMA FlattenUnrolls ==
  ASSUME NEW S, NEW s \in Seq(Seq(S)), s # << >>
  PROVE  \E f : Unrolls(f, s) /\ FlattenSeq(s) = f[Len(s)]
<1>. DEFINE f == CHOOSE flatten : flatten = [i \in 1 .. Len(s) |->
         IF i = 1 THEN s[i] ELSE flatten[i - 1] \o s[i]]
<1>1. PICK h : Unrolls(h, s)
  BY UnrollsExists
<1>2. Unrolls(f, s)
  BY <1>1, Zenon DEF Unrolls
<1>3. Len(s) # 0
  OBVIOUS
<1>4. FlattenSeq(s) = f[Len(s)]
  BY <1>3, Zenon DEF FlattenSeq
<1>. QED BY <1>2, <1>4

\* Nothing flattens to nothing, and one more sequence is put at the end.
LEMMA FlattenEmpty == FlattenSeq(<< >>) = << >>
<1>1. Len(<< >>) = 0
  OBVIOUS
<1>. QED BY <1>1, Zenon DEF FlattenSeq

LEMMA FlattenAppends ==
  ASSUME NEW S, NEW s \in Seq(Seq(S)), NEW e \in Seq(S)
  PROVE  /\ FlattenSeq(s) \in Seq(S)
         /\ FlattenSeq(Append(s, e)) = FlattenSeq(s) \o e
<1>. DEFINE t == Append(s, e)
<1>1. /\ t \in Seq(Seq(S)) /\ t # << >> /\ Len(t) = Len(s) + 1
      /\ Len(s) \in Nat /\ Len(t) \in Nat /\ Len(t) \in 1 .. Len(t)
  <2>1. t \in Seq(Seq(S)) /\ t # << >> /\ Len(t) = Len(s) + 1
    BY AppendProperties
  <2>2. Len(s) \in Nat
    OBVIOUS
  <2>. HIDE DEF t
  <2>. QED BY <2>1, <2>2
<1>. HIDE DEF t
<1>2. PICK g : Unrolls(g, t) /\ FlattenSeq(t) = g[Len(t)]
  BY <1>1, FlattenUnrolls
<1>3. CASE s = << >>
  <2>1. FlattenSeq(s) = << >>
    BY <1>3, FlattenEmpty
  <2>2. PICK f : Unrolls(f, s)
    BY UnrollsExists
  <2>3. PICK h : Unrolls(h, t) /\ h[Len(s) + 1] = e
    BY <1>3, <2>2, UnrollsOn DEF t
  <2>4. h[Len(t)] = g[Len(t)]
    <3>1. \A i \in 1 .. Len(t) : h[i] = g[i]
      BY <1>1, <1>2, <2>3, UnrollsAlike
    <3>. QED BY <1>1, <3>1
  <2>5. << >> \in Seq(S) /\ << >> \o e = e
    BY ConcatEmptySeq, EmptySeq
  <2>. QED BY <1>1, <1>2, <2>1, <2>3, <2>4, <2>5 DEF t
<1>4. CASE s # << >>
  <2>1. PICK f : Unrolls(f, s) /\ FlattenSeq(s) = f[Len(s)]
    BY <1>4, FlattenUnrolls
  <2>2. PICK h : Unrolls(h, t) /\ h[Len(s) + 1] = f[Len(s)] \o e
    BY <1>4, <2>1, UnrollsOn DEF t
  <2>3. h[Len(t)] = g[Len(t)]
    <3>1. \A i \in 1 .. Len(t) : h[i] = g[i]
      BY <1>1, <1>2, <2>2, UnrollsAlike
    <3>. QED BY <1>1, <3>1
  <2>4. f[Len(s)] \in Seq(S)
    <3>1. Len(s) \in 1 .. Len(s)
      BY <1>4
    <3>2. f \in [1 .. Len(s) -> Seq(S)]
      BY <2>1, UnrollsTyped
    <3>. QED BY <3>1, <3>2
  <2>. QED BY <1>1, <1>2, <2>1, <2>2, <2>3, <2>4 DEF t
<1>. QED BY <1>3, <1>4

\* What flattens in two parts flattens as a whole.
LEMMA FlattenConcats ==
  ASSUME NEW S, NEW s \in Seq(Seq(S))
  PROVE  \A t \in Seq(Seq(S)) : FlattenSeq(s \o t) = FlattenSeq(s) \o FlattenSeq(t)
<1>. DEFINE Torn == {n \in Nat : \E t \in Seq(Seq(S)) :
              Len(t) = n /\ FlattenSeq(s \o t) # FlattenSeq(s) \o FlattenSeq(t)}
<1>1. SUFFICES Torn = {}
  <2>1. \A t \in Seq(Seq(S)) : Len(t) \in Nat
    OBVIOUS
  <2>. QED BY <2>1, Zenon
<1>2. SUFFICES ASSUME Torn # {} PROVE FALSE
  OBVIOUS
<1>3. PICK n \in Torn : \A j \in Torn : n <= j
  <2>1. Torn \in SUBSET Nat
    OBVIOUS
  <2>. HIDE DEF Torn
  <2>. QED BY <1>2, <2>1, LeastOf
<1>4. PICK t \in Seq(Seq(S)) :
        Len(t) = n /\ FlattenSeq(s \o t) # FlattenSeq(s) \o FlattenSeq(t)
  BY <1>3
<1>5. FlattenSeq(s) \in Seq(S)
  <2>1. << >> \in Seq(S)
    OBVIOUS
  <2>. QED BY <2>1, FlattenAppends
<1>6. CASE t = << >>
  <2>1. s \o t = s /\ FlattenSeq(t) = << >>
    BY <1>6, FlattenEmpty, ConcatEmptySeq
  <2>2. FlattenSeq(s) \o << >> = FlattenSeq(s)
    BY <1>5, ConcatEmptySeq
  <2>. QED BY <1>4, <2>1, <2>2
<1>7. CASE t # << >>
  <2>1. PICK r \in Seq(Seq(S)), e \in Seq(S) : t = Append(r, e)
    BY <1>7, SequenceEmptyOrAppend
  <2>2. Len(r) \in Nat /\ ~ (n <= Len(r))
    BY <1>4, <2>1
  <2>3. FlattenSeq(s \o r) = FlattenSeq(s) \o FlattenSeq(r)
    BY <1>3, <2>2
  <2>4. s \o r \in Seq(Seq(S)) /\ s \o t = Append(s \o r, e)
    <3>1. /\ s \o r \in Seq(Seq(S)) /\ Append(r, e) = r \o <<e>>
          /\ Append(s \o r, e) = (s \o r) \o <<e>>
          /\ <<e>> \in Seq(Seq(S))
      BY ConcatProperties, AppendIsConcat
    <3>. QED BY <2>1, <3>1, ConcatAssociative
  <2>5. /\ FlattenSeq(s \o t) = FlattenSeq(s \o r) \o e
        /\ FlattenSeq(t) = FlattenSeq(r) \o e
        /\ FlattenSeq(r) \in Seq(S)
    BY <2>1, <2>4, FlattenAppends
  <2>6. (FlattenSeq(s) \o FlattenSeq(r)) \o e = FlattenSeq(s) \o (FlattenSeq(r) \o e)
    <3>. HIDE DEF Torn
    <3>. PICK a \in Seq(S) : a = FlattenSeq(s)
      BY <1>5
    <3>. PICK b \in Seq(S) : b = FlattenSeq(r)
      BY <2>5
    <3>1. (a \o b) \o e = a \o (b \o e)
      BY ConcatAssociative, SMTT(30)
    <3>. QED BY <3>1
  <2>. QED BY <1>4, <2>3, <2>5, <2>6
<1>. QED BY <1>6, <1>7

\* Sequences with nothing in them flatten to nothing.
LEMMA FlattenNothing ==
  ASSUME NEW S, NEW s \in Seq(Seq(S)), \A i \in 1 .. Len(s) : s[i] = << >>
  PROVE  FlattenSeq(s) = << >>
<1>1. CASE s = << >>
  BY <1>1, FlattenEmpty
<1>2. CASE s # << >>
  <2>. DEFINE h == [i \in 1 .. Len(s) |-> << >>]
  <2>1. << >> \o << >> = << >>
    OBVIOUS
  <2>2. ASSUME NEW i \in 1 .. Len(s)
        PROVE  h[i] = IF i = 1 THEN s[i] ELSE h[i - 1] \o s[i]
    <3>1. h[i] = << >> /\ (i # 1 => h[i - 1] = << >>)
      OBVIOUS
    <3>. HIDE DEF h
    <3>. QED BY <2>1, <3>1
  <2>3. Unrolls(h, s)
    <3>1. h = [i \in 1 .. Len(s) |-> h[i]]
      OBVIOUS
    <3>. HIDE DEF h
    <3>. QED BY <2>2, <3>1, Zenon DEF Unrolls
  <2>4. PICK f : Unrolls(f, s) /\ FlattenSeq(s) = f[Len(s)]
    BY <1>2, FlattenUnrolls
  <2>5. Len(s) \in Nat /\ Len(s) \in 1 .. Len(s)
    BY <1>2
  <2>6. h[Len(s)] = << >>
    BY <2>5
  <2>. HIDE DEF h
  <2>7. f[Len(s)] = h[Len(s)]
    BY <2>3, <2>4, <2>5, UnrollsAlike
  <2>. QED BY <2>4, <2>6, <2>7
<1>. QED BY <1>1, <1>2

\* The pieces of a text, one for each of its characters.
LEMMA PiecesTyped ==
  ASSUME NEW text \in Seq(Runes)
  PROVE  /\ Pieces(text) \in Seq(Seq(Runes))
         /\ Len(Pieces(text)) = Len(text)
         /\ \A i \in 1 .. Len(text) :
              Pieces(text)[i] = IF text[i] \in Solids THEN <<text[i]>> ELSE << >>
<1>1. DOMAIN text = 1 .. Len(text) /\ Len(text) \in Nat
  OBVIOUS
<1>2. \A i \in 1 .. Len(text) :
        (IF text[i] \in Solids THEN <<text[i]>> ELSE << >>) \in Seq(Runes)
  BY <1>1
<1>. QED BY <1>1, <1>2 DEF Pieces

\* What two texts say together, the one says before the other.
LEMMA SolidConcats ==
  ASSUME NEW s \in Seq(Runes), NEW t \in Seq(Runes)
  PROVE  /\ Solid(s) \in Seq(Runes)
         /\ Solid(s \o t) = Solid(s) \o Solid(t)
<1>1. /\ Pieces(s) \in Seq(Seq(Runes)) /\ Len(Pieces(s)) = Len(s)
      /\ Pieces(t) \in Seq(Seq(Runes)) /\ Len(Pieces(t)) = Len(t)
      /\ Len(s) \in Nat /\ Len(t) \in Nat
  BY PiecesTyped
<1>2. s \o t \in Seq(Runes) /\ Len(s \o t) = Len(s) + Len(t)
  BY ConcatProperties
<1>3. Pieces(s \o t) \in Seq(Seq(Runes)) /\ Len(Pieces(s \o t)) = Len(s) + Len(t)
  BY <1>2, PiecesTyped
<1>. PICK p \in Seq(Seq(Runes)) : p = Pieces(s)
  BY <1>1
<1>. PICK q \in Seq(Seq(Runes)) : q = Pieces(t)
  BY <1>1
<1>4. /\ p \o q \in Seq(Seq(Runes))
      /\ Len(p \o q) = Len(s) + Len(t)
      /\ \A i \in 1 .. Len(s) + Len(t) : (p \o q)[i] =
           IF i <= Len(s) THEN p[i] ELSE q[i - Len(s)]
  <2>1. Len(p) = Len(s) /\ Len(q) = Len(t)
    BY <1>1
  <2>2. p \o q \in Seq(Seq(Runes)) /\ Len(p \o q) = Len(p) + Len(q)
    BY ConcatProperties
  <2>3. \A i \in 1 .. Len(p) + Len(q) : (p \o q)[i] =
          IF i <= Len(p) THEN p[i] ELSE q[i - Len(p)]
    BY ConcatProperties
  <2>. QED BY <2>1, <2>2, <2>3, Zenon
<1>5. ASSUME NEW i \in 1 .. Len(s) + Len(t)
      PROVE  Pieces(s \o t)[i] = (p \o q)[i]
  <2>1. /\ (s \o t)[i] = IF i <= Len(s) THEN s[i] ELSE t[i - Len(s)]
        /\ Pieces(s \o t)[i] =
             IF (s \o t)[i] \in Solids THEN <<(s \o t)[i]>> ELSE << >>
    <3>1. (s \o t)[i] = IF i <= Len(s) THEN s[i] ELSE t[i - Len(s)]
      BY ConcatProperties
    <3>2. i \in 1 .. Len(s \o t)
      BY <1>2
    <3>. QED BY <1>2, <3>1, <3>2, PiecesTyped, Zenon
  <2>2. CASE i <= Len(s)
    <3>1. i \in 1 .. Len(s)
      BY <1>1, <2>2
    <3>2. p[i] = IF s[i] \in Solids THEN <<s[i]>> ELSE << >>
      BY <3>1, PiecesTyped
    <3>3. (s \o t)[i] = s[i] /\ (p \o q)[i] = p[i]
      BY <1>4, <2>1, <2>2
    <3>. QED BY <2>1, <3>2, <3>3
  <2>3. CASE ~ (i <= Len(s))
    <3>1. i - Len(s) \in 1 .. Len(t)
      BY <1>1, <2>3
    <3>. PICK k \in 1 .. Len(t) : k = i - Len(s)
      BY <3>1
    <3>2. q[k] = IF t[k] \in Solids THEN <<t[k]>> ELSE << >>
      BY PiecesTyped
    <3>3. (s \o t)[i] = t[k] /\ (p \o q)[i] = q[k]
      BY <1>4, <2>1, <2>3
    <3>. QED BY <2>1, <3>2, <3>3
  <2>. QED BY <2>2, <2>3
<1>6. Pieces(s \o t) = Pieces(s) \o Pieces(t)
  BY <1>3, <1>4, <1>5, SeqEqual
<1>7. FlattenSeq(Pieces(s) \o Pieces(t))
        = FlattenSeq(Pieces(s)) \o FlattenSeq(Pieces(t))
  BY <1>1, FlattenConcats
<1>8. FlattenSeq(Pieces(s)) \in Seq(Runes)
  <2>1. << >> \in Seq(Runes)
    OBVIOUS
  <2>. QED BY <1>1, <2>1, FlattenAppends
<1>. QED BY <1>6, <1>7, <1>8, Zenon DEF Solid

\* Blanks say nothing.
LEMMA BlanksSayNothing ==
  ASSUME NEW text \in Seq(Runes), SolidAt(text) = {}
  PROVE  Solid(text) = << >>
<1>1. /\ Pieces(text) \in Seq(Seq(Runes)) /\ Len(Pieces(text)) = Len(text)
      /\ \A i \in 1 .. Len(text) :
           Pieces(text)[i] = IF text[i] \in Solids THEN <<text[i]>> ELSE << >>
  BY PiecesTyped
<1>2. \A i \in 1 .. Len(text) : text[i] \notin Solids
  BY DEF SolidAt
<1>3. \A i \in 1 .. Len(Pieces(text)) : Pieces(text)[i] = << >>
  BY <1>1, <1>2
<1>. QED BY <1>1, <1>3, FlattenNothing DEF Solid

\* strings.TrimSpace takes away blanks only.
LEMMA TrimSaysAll ==
  ASSUME NEW text \in Seq(Runes)
  PROVE  /\ TrimSpace(text) \in Seq(Runes)
         /\ Solid(TrimSpace(text)) = Solid(text)
<1>1. CASE SolidAt(text) = {}
  <2>1. TrimSpace(text) = << >>
    BY <1>1 DEF TrimSpace
  <2>2. << >> \in Seq(Runes) /\ SolidAt(<< >>) = {}
    BY DEF SolidAt
  <2>3. Solid(<< >>) = << >> /\ Solid(text) = << >>
    BY <1>1, <2>2, BlanksSayNothing
  <2>. QED BY <2>1, <2>2, <2>3
<1>2. CASE SolidAt(text) # {}
  <2>. DEFINE places == SolidAt(text)
  <2>1. Len(text) \in Nat /\ DOMAIN text = 1 .. Len(text)
    OBVIOUS
  <2>2. /\ Min(places) \in places /\ \A n \in places : Min(places) <= n
        /\ Max(places) \in places /\ \A n \in places : n <= Max(places)
    BY <1>2, <2>1, SolidPlaces, LeastOf, GreatestOf
  <2>3. PICK a \in 1 .. Len(text), b \in 1 .. Len(text) :
          /\ a = Min(places) /\ b = Max(places) /\ a <= b
          /\ \A n \in places : a <= n /\ n <= b
    BY <2>2, SolidPlaces
  <2>. HIDE DEF places
  <2>. DEFINE before == SubSeq(text, 1, a - 1)
              middle == SubSeq(text, a, b)
              after  == SubSeq(text, b + 1, Len(text))
  <2>4. \A i \in 1 .. Len(text) : text[i] \in Runes /\ (text[i] \in Solids => i \in places)
    BY <2>1 DEF SolidAt, places
  <2>5. /\ before \in Seq(Runes) /\ Len(before) = a - 1
        /\ \A i \in 1 .. a - 1 : before[i] = text[i]
    <3>1. \A i \in 1 .. a - 1 : text[i] \in Runes
      BY <2>1, <2>4
    <3>2. /\ before \in Seq(Runes)
          /\ Len(before) = IF 1 <= a - 1 THEN a - 1 - 1 + 1 ELSE 0
          /\ \A i \in 1 .. a - 1 - 1 + 1 : before[i] = text[1 + i - 1]
      BY <3>1, SubSeqProperties
    <3>. HIDE DEF before
    <3>. QED BY <2>1, <3>2
  <2>6. middle \in Seq(Runes)
    <3>1. \A i \in a .. b : text[i] \in Runes
      BY <2>1, <2>4
    <3>. QED BY <3>1, SubSeqProperties
  <2>7. /\ after \in Seq(Runes) /\ Len(after) = Len(text) - b
        /\ \A i \in 1 .. Len(text) - b : after[i] = text[b + i]
    <3>1. \A i \in b + 1 .. Len(text) : text[i] \in Runes
      BY <2>1, <2>4
    <3>2. /\ after \in Seq(Runes)
          /\ Len(after) = IF b + 1 <= Len(text) THEN Len(text) - (b + 1) + 1 ELSE 0
          /\ \A i \in 1 .. Len(text) - (b + 1) + 1 : after[i] = text[b + 1 + i - 1]
      BY <2>1, <3>1, SubSeqProperties
    <3>. HIDE DEF after
    <3>3. Len(text) - (b + 1) + 1 = Len(text) - b
      BY <2>1
    <3>4. \A i \in 1 .. Len(text) - b : after[i] = text[b + 1 + i - 1]
      BY <3>2, <3>3
    <3>5. Len(after) = Len(text) - b
      <4>1. Len(after) = IF b + 1 <= Len(text) THEN Len(text) - (b + 1) + 1 ELSE 0
        BY <3>2, Zenon
      <4>2. b \in Nat /\ b <= Len(text) /\ Len(text) \in Nat
        BY <2>1
      <4>3. (IF b + 1 <= Len(text) THEN Len(text) - (b + 1) + 1 ELSE 0) = Len(text) - b
        BY <4>2
      <4>. QED BY <4>1, <4>3
    <3>6. ASSUME NEW i \in 1 .. Len(text) - b PROVE after[i] = text[b + i]
      <4>1. b + 1 + i - 1 = b + i
        BY <2>1
      <4>2. after[i] = text[b + 1 + i - 1]
        BY <3>4
      <4>. QED BY <4>1, <4>2
    <3>. QED BY <3>2, <3>5, <3>6
  <2>8. text = before \o (middle \o after)
    <3>1. middle \o after = SubSeq(text, a, Len(text))
      <4>1. a \in 1 .. Len(text) + 1 /\ b \in a - 1 .. Len(text)
            /\ Len(text) \in b .. Len(text)
        BY <2>1, <2>3
      <4>. QED BY <4>1, ConcatAdjacentSubSeq
    <3>2. before \o SubSeq(text, a - 1 + 1, Len(text)) = SubSeq(text, 1, Len(text))
      <4>1. 1 \in 1 .. Len(text) + 1 /\ a - 1 \in 1 - 1 .. Len(text)
            /\ Len(text) \in a - 1 .. Len(text)
        BY <2>1
      <4>. QED BY <4>1, ConcatAdjacentSubSeq
    <3>3. a - 1 + 1 = a
      OBVIOUS
    <3>4. SubSeq(text, 1, Len(text)) = text
      BY SubSeqFull
    <3>. HIDE DEF before, middle, after
    <3>. QED BY <3>1, <3>2, <3>3, <3>4
  <2>9. TrimSpace(text) = middle
    BY <1>2, <2>3 DEF TrimSpace, places
  <2>. HIDE DEF before, middle, after
  <2>10. SolidAt(before) = {}
    <3>1. \A i \in 1 .. a - 1 : text[i] \notin Solids
      BY <2>1, <2>3, <2>4
    <3>2. DOMAIN before = 1 .. a - 1
      BY <2>5
    <3>. QED BY <2>5, <3>1, <3>2 DEF SolidAt
  <2>11. SolidAt(after) = {}
    <3>1. \A i \in 1 .. Len(text) - b : text[b + i] \notin Solids
      BY <2>1, <2>3, <2>4
    <3>2. DOMAIN after = 1 .. Len(text) - b
      BY <2>7
    <3>. QED BY <2>7, <3>1, <3>2 DEF SolidAt
  <2>12. /\ Solid(before) = << >> /\ Solid(after) = << >>
         /\ Solid(middle) \in Seq(Runes)
    BY <2>5, <2>6, <2>7, <2>10, <2>11, BlanksSayNothing, SolidConcats
  <2>13. /\ middle \o after \in Seq(Runes)
         /\ Solid(middle \o after) = Solid(middle) \o Solid(after)
    BY <2>6, <2>7, ConcatProperties, SolidConcats
  <2>14. Solid(text) = Solid(before) \o Solid(middle \o after)
    BY <2>5, <2>8, <2>13, SolidConcats
  <2>15. Solid(middle) \o << >> = Solid(middle) /\ << >> \o Solid(middle) = Solid(middle)
    BY <2>12, ConcatEmptySeq
  <2>. QED BY <2>6, <2>9, <2>12, <2>13, <2>14, <2>15
<1>. QED BY <1>1, <1>2

\* A text too long is cut inside.
LEMMA CutInside ==
  ASSUME NEW text \in Seq(Runes), ~ Fits(text)
  PROVE  Cut(text) \in 1 .. Len(text)
<1>1. MaxRunes \in Nat \ {0} /\ Len(text) \in Nat /\ Len(text) > MaxRunes
  BY RepliesAssumption DEF Fits
<1>2. CASE MaxRunes > 1
  BY <1>1, <1>2, CutInRange
<1>3. CASE MaxRunes = 1
  <2>1. \A rune : Breaks(text, rune) = {}
    BY <1>3 DEF Breaks
  <2>2. Cut(text) = Len(text)
    BY <1>3, <2>1, Zenon DEF Cut
  <2>. QED BY <1>1, <2>2
<1>. QED BY <1>1, <1>2, <1>3

\* A chunk and what is left after it say what the text says.
LEMMA ChunkSaysItsPart ==
  ASSUME NEW text \in Seq(Runes)
  PROVE  /\ NextChunk(text) \in Seq(Runes)
         /\ RestAfter(text) \in Seq(Runes)
         /\ Solid(NextChunk(text)) \o Solid(RestAfter(text)) = Solid(text)
<1>1. CASE Fits(text)
  <2>1. NextChunk(text) = text /\ RestAfter(text) = << >>
    BY <1>1 DEF NextChunk, RestAfter
  <2>2. << >> \in Seq(Runes) /\ SolidAt(<< >>) = {}
    BY DEF SolidAt
  <2>3. Solid(<< >>) = << >> /\ Solid(text) \in Seq(Runes)
    BY <2>2, BlanksSayNothing, SolidConcats
  <2>4. Solid(text) \o << >> = Solid(text)
    BY <2>3, ConcatEmptySeq
  <2>. QED BY <2>1, <2>2, <2>3, <2>4
<1>2. CASE ~ Fits(text)
  <2>. PICK n \in 1 .. Len(text) : n = Cut(text)
    BY <1>2, CutInside
  <2>. DEFINE head == SubSeq(text, 1, n)
              tail == SubSeq(text, n + 1, Len(text))
  <2>1. Len(text) \in Nat /\ \A i \in 1 .. Len(text) : text[i] \in Runes
    OBVIOUS
  <2>2. head \in Seq(Runes)
    <3>1. \A i \in 1 .. n : text[i] \in Runes
      BY <2>1
    <3>. QED BY <3>1, SubSeqProperties
  <2>3. tail \in Seq(Runes)
    <3>1. \A i \in n + 1 .. Len(text) : text[i] \in Runes
      BY <2>1
    <3>. QED BY <2>1, <3>1, SubSeqProperties
  <2>4. head \o tail = text
    <3>1. 1 \in 1 .. Len(text) + 1 /\ n \in 1 - 1 .. Len(text)
          /\ Len(text) \in n .. Len(text)
      BY <2>1
    <3>. QED BY <3>1, ConcatAdjacentSubSeq, SubSeqFull
  <2>5. NextChunk(text) = TrimSpace(head) /\ RestAfter(text) = TrimSpace(tail)
    BY <1>2, Zenon DEF NextChunk, RestAfter
  <2>. HIDE DEF head, tail
  <2>6. /\ TrimSpace(head) \in Seq(Runes) /\ Solid(TrimSpace(head)) = Solid(head)
        /\ TrimSpace(tail) \in Seq(Runes) /\ Solid(TrimSpace(tail)) = Solid(tail)
    BY <2>2, <2>3, TrimSaysAll
  <2>7. Solid(head) \o Solid(tail) = Solid(text)
    BY <2>2, <2>3, <2>4, SolidConcats
  <2>. QED BY <2>5, <2>6, <2>7
<1>. QED BY <1>1, <1>2

\* Between two sends, what was said and what is left make up the answer.
SaidInv ==
  /\ answer \in Seq(Runes)
  /\ rest \in Seq(Runes)
  /\ told \in Seq(Seq(Runes))
  /\ NothingLost

\* With no answer underway, nothing is lost.
LEMMA SilenceSaysNothing == NoReply => SaidInv
<1>. SUFFICES ASSUME NoReply PROVE SaidInv
  OBVIOUS
<1>1. answer = << >> /\ rest = << >> /\ told = << >>
  BY DEF NoReply
<1>2. << >> \in Seq(Runes) /\ << >> \in Seq(Seq(Runes)) /\ SolidAt(<< >>) = {}
  BY DEF SolidAt
<1>3. Solid(<< >>) = << >> /\ FlattenSeq(<< >>) = << >>
  BY <1>2, BlanksSayNothing, FlattenEmpty
<1>4. << >> \o << >> = << >>
  OBVIOUS
<1>5. NothingLost
  BY <1>1, <1>3, <1>4, Zenon DEF NothingLost
<1>. QED BY <1>1, <1>2, <1>5, Zenon DEF SaidInv

\* splitTelegramMessage takes the blanks off a text before it cuts it.
LEMMA StartSaysAll ==
  ASSUME NEW text \in Texts, StartReply(text)
  PROVE  SaidInv'
<1>1. answer' = text /\ rest' = TrimSpace(text) /\ told' = << >>
  BY DEF StartReply
<1>2. text \in Seq(Runes)
  BY RepliesAssumption
<1>3. TrimSpace(text) \in Seq(Runes) /\ Solid(TrimSpace(text)) = Solid(text)
  BY <1>2, TrimSaysAll
<1>4. << >> \in Seq(Runes) /\ << >> \in Seq(Seq(Runes)) /\ SolidAt(<< >>) = {}
  BY DEF SolidAt
<1>5. Solid(<< >>) = << >> /\ FlattenSeq(<< >>) = << >> /\ Solid(text) \in Seq(Runes)
  BY <1>2, <1>4, BlanksSayNothing, FlattenEmpty, SolidConcats
<1>6. << >> \o Solid(text) = Solid(text)
  BY <1>5, ConcatEmptySeq
<1>7. Solid(FlattenSeq(<< >>)) \o Solid(TrimSpace(text)) = Solid(text)
  BY <1>3, <1>5, <1>6
<1>8. NothingLost'
  BY <1>1, <1>7, Zenon DEF NothingLost, Solid, Pieces
<1>. QED BY <1>1, <1>2, <1>3, <1>4, <1>8, Zenon DEF SaidInv

\* One call of Send moves a chunk from what is left to what was said.
LEMMA SendSaysNext ==
  ASSUME SaidInv, SendChunk
  PROVE  SaidInv'
<1>. PICK whole \in Seq(Runes) : whole = answer
  BY DEF SaidInv
<1>. PICK left \in Seq(Runes) : left = rest
  BY DEF SaidInv
<1>. PICK sent \in Seq(Seq(Runes)) : sent = told
  BY DEF SaidInv
<1>1. /\ NextChunk(left) \in Seq(Runes) /\ RestAfter(left) \in Seq(Runes)
      /\ Solid(NextChunk(left)) \o Solid(RestAfter(left)) = Solid(left)
  BY ChunkSaysItsPart
<1>. PICK chunk \in Seq(Runes) : chunk = NextChunk(left)
  BY <1>1
<1>. PICK next \in Seq(Runes) : next = RestAfter(left)
  BY <1>1
<1>2. told' = Append(sent, chunk) /\ rest' = next /\ answer' = whole
  BY DEF SendChunk
<1>3. /\ FlattenSeq(sent) \in Seq(Runes)
      /\ FlattenSeq(Append(sent, chunk)) = FlattenSeq(sent) \o chunk
      /\ Append(sent, chunk) \in Seq(Seq(Runes))
  BY FlattenAppends, AppendProperties
<1>4. /\ Solid(FlattenSeq(sent) \o chunk) = Solid(FlattenSeq(sent)) \o Solid(chunk)
      /\ Solid(FlattenSeq(sent)) \in Seq(Runes)
      /\ Solid(chunk) \in Seq(Runes) /\ Solid(next) \in Seq(Runes)
  BY <1>3, SolidConcats
<1>5. Solid(FlattenSeq(sent)) \o Solid(left) = Solid(whole)
  BY DEF SaidInv, NothingLost
<1>6. Solid(chunk) \o Solid(next) = Solid(left)
  BY <1>1
<1>7. (Solid(FlattenSeq(sent)) \o Solid(chunk)) \o Solid(next)
        = Solid(FlattenSeq(sent)) \o (Solid(chunk) \o Solid(next))
  <2>. PICK a \in Seq(Runes) : a = Solid(FlattenSeq(sent))
    BY <1>4
  <2>. PICK b \in Seq(Runes) : b = Solid(chunk)
    BY <1>4
  <2>. PICK c \in Seq(Runes) : c = Solid(next)
    BY <1>4
  <2>1. (a \o b) \o c = a \o (b \o c)
    BY ConcatAssociative, SMTT(30)
  <2>. QED BY <2>1
<1>8. Solid(FlattenSeq(Append(sent, chunk))) \o Solid(next) = Solid(whole)
  BY <1>3, <1>4, <1>5, <1>6, <1>7
<1>9. NothingLost'
  BY <1>2, <1>8, Zenon DEF NothingLost, Solid, Pieces
<1>. QED BY <1>2, <1>3, <1>9, Zenon DEF SaidInv

\* No step of the program loses what is to be said.
LEMMA SaidKept ==
  ASSUME SaidInv, [Next]_vars
  PROVE  SaidInv'
<1>1. CASE UNCHANGED replyVars
  <2>1. answer' = answer /\ rest' = rest /\ told' = told
    BY <1>1 DEF replyVars
  <2>. QED BY <2>1, Zenon DEF SaidInv, NothingLost, Solid, Pieces
<1>2. CASE NoReply'
  BY <1>2, SilenceSaysNothing, PTL
<1>. QED BY <1>1, <1>2, ReplySteps, StartSaysAll, SendSaysNext
------------------------------------------------------------------------------
(* The theorems.                                                           *)

\* TypeOK in parts.
LEMMA TypeParts ==
  TypeOK <=> /\ ControlTyped
             /\ MessagesTyped
             /\ parked \in Nat
             /\ todo \in Seq(CallRecords)
             /\ WritesTyped
BY DEF TypeOK, ControlTyped, MessagesTyped, CallRecords, WritesTyped

\* The calls of TypeOK hold those that may be left.
LEMMA KnownCalls ==
  /\ Reads \subseteq CallRecords
  /\ Write("memory") \in CallRecords
  /\ Write("calendar") \in CallRecords
BY DEF Reads, Write, CallRecords, Adapters

\* Whatever is left to call is a call.
LEMMA TodoTyped ==
  ASSUME TodoInv
  PROVE  todo \in Seq(CallRecords)
<1>1. MayCall \subseteq CallRecords
  BY KnownCalls DEF MayCall
<1>2. todo \in Seq(MayCall)
  BY DEF TodoInv
<1>. QED BY <1>1, <1>2, SeqMonotonic

\* The invariant holds when the program starts for the first time.
LEMMA DialogueStarts == Init => DialogueInv
<1>. SUFFICES ASSUME Init PROVE DialogueInv
  OBVIOUS
<1>1. ControlTyped
  <2>1. 1 \in 0 .. MaxStarts
    BY DialogueAssumption
  <2>2. QED BY <2>1 DEF Init, ControlTyped
<1>2. MessagesTyped
  <2>1. MaxMessages \in Nat
    BY DialogueAssumption
  <2>2. taken = 0 /\ answered = {} /\ cut = {} /\ files = {} /\ ~ deferred
    BY DEF Init
  <2>3. QED BY <2>1, <2>2 DEF MessagesTyped
<1>3. TodoInv
  <2>1. todo = << >> /\ intent = "" /\ pc \notin AtCall
    BY DEF Init, AtCall
  <2>2. todo \in Seq(MayCall) /\ DOMAIN todo = {}
    BY <2>1, NoCalls, Zenon
  <2>3. QED BY <2>1, <2>2, Zenon DEF TodoInv
<1>4. ContextInv /\ FilesInv
  BY DEF Init, ContextInv, FilesInv, Resting, AtCalls
<1>5. ModelOnlyProposes /\ NothingSentAfterStop /\ WritesTyped
  BY DEF Init, ModelOnlyProposes, NothingSentAfterStop, WritesTyped
<1>6. parked \in Nat
  BY DEF Init
<1>. QED BY <1>1, <1>2, <1>3, <1>4, <1>5, <1>6, TypeParts, TodoTyped DEF DialogueInv

\* Every step keeps it.
LEMMA DialogueSteps == DialogueInv /\ [Next]_vars => DialogueInv'
<1>. SUFFICES ASSUME DialogueInv, [Next]_vars PROVE DialogueInv'
  OBVIOUS
<1>1. /\ TypeOK /\ ControlTyped /\ MessagesTyped /\ parked \in Nat
      /\ ContextInv /\ TodoInv /\ FilesInv
      /\ WritesTyped /\ ModelOnlyProposes /\ NothingSentAfterStop
  BY TypeParts DEF DialogueInv
<1>2. ControlTyped' /\ MessagesTyped' /\ parked' \in Nat
  BY <1>1, ControlKept, MessagesKept, ParkedKept
<1>3. TodoInv' /\ ContextInv' /\ FilesInv'
  BY <1>1, TodoKept, ContextKept, FilesKept
<1>4. WritesTyped' /\ ModelOnlyProposes' /\ NothingSentAfterStop'
  BY <1>1, WritesKept
<1>5. TypeOK'
  <2>1. todo' \in Seq(CallRecords)
    <3>1. MayCall' \subseteq CallRecords
      BY KnownCalls DEF MayCall
    <3>2. todo' \in Seq(MayCall')
      BY <1>3 DEF TodoInv
    <3>3. QED BY <3>1, <3>2, SeqMonotonic
  <2>2. QED BY <1>2, <1>4, <2>1 DEF TypeOK, ControlTyped, MessagesTyped, CallRecords,
    WritesTyped
<1>. QED BY <1>2, <1>3, <1>4, <1>5 DEF DialogueInv

\* The invariant that the safety properties below are read off.
LEMMA DialogueHolds == Spec => []DialogueInv
BY DialogueStarts, DialogueSteps, PTL DEF Spec

\* The variables have their types, whatever is configured and however often the
\* program is started.
THEOREM DialogueTyped == Spec => []TypeOK
<1>1. DialogueInv => TypeOK
  BY DEF DialogueInv
<1>. QED BY <1>1, DialogueHolds, PTL

\* No write is sent after SIGTERM: the request of the message at hand ends with
\* the context of the process, also while its call waits for a renewal, and none
\* of a later message is ever live.
THEOREM NothingSentAfterStopHolds == Spec => []NothingSentAfterStop
<1>1. DialogueInv => NothingSentAfterStop
  BY DEF DialogueInv
<1>. QED BY <1>1, DialogueHolds, PTL

\* handleIntent never leads to a write of the calendar, nor to one of the
\* memory that the user's own words did not ask for.
THEOREM ModelOnlyProposesHolds == Spec => []ModelOnlyProposes
<1>1. DialogueInv => ModelOnlyProposes
  BY DEF DialogueInv
<1>. QED BY <1>1, DialogueHolds, PTL

\* handleAudio and downloadTelegramFile remove a recording on every way out of
\* a message, save where the process ends on the way.
THEOREM RecordingsRemovedHolds == Spec => []RecordingsRemoved
<1>1. DialogueInv => RecordingsRemoved
  BY DEF DialogueInv, FilesInv, RecordingsRemoved, AtCalls
<1>. QED BY <1>1, DialogueHolds, PTL

\* Whatever the text, splitTelegramMessage makes chunks that Telegram takes.  A
\* limit of one character is left out: cutTelegramChunk would not cut at all.
THEOREM ChunksFitHolds ==
  ASSUME MaxRunes > 1
  PROVE  Spec => []ChunksFit
<1>1. Init => ReplyInv
  <2>. SUFFICES ASSUME Init PROVE ReplyInv
    OBVIOUS
  <2>1. rest = << >> /\ told = << >>
    BY DEF Init, NoReply
  <2>2. Tight(<< >>)
    BY DEF Tight
  <2>3. Tight(rest) /\ told \in Seq(Seq(Runes)) /\ DOMAIN told = {}
    BY <2>1, <2>2, NoCalls, Zenon
  <2>4. QED BY <2>3, Zenon DEF ReplyInv
<1>2. ReplyInv /\ [Next]_vars => ReplyInv'
  BY ReplyKept
<1>3. ReplyInv => ChunksFit
  BY TightIsTrimmed, Zenon DEF ReplyInv, ChunksFit
<1>. QED BY <1>1, <1>2, <1>3, PTL DEF Spec

\* The chunks of an answer and what is left of it say all of it, once and in
\* order, for every text and every limit: reply drops nothing but blanks.
THEOREM NothingLostHolds == Spec => []NothingLost
<1>1. Init => SaidInv
  BY SilenceSaysNothing DEF Init
<1>2. SaidInv /\ [Next]_vars => SaidInv'
  BY SaidKept
<1>3. SaidInv => NothingLost
  BY DEF SaidInv
<1>. QED BY <1>1, <1>2, <1>3, PTL DEF Spec
==============================================================================
