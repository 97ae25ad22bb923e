# Robe: TLA+ models, checks and proofs

Robe is a personal assistant behind a Telegram bot, written in Go. One process
polls Telegram, handles the owner's messages one at a time, and lets them act on
Google Calendar, on a structured memory in Postgres, and on Gmail (labels and a
directory of senders). A language model turns free text into intents; what an
intent may *do* is decided by Go code: a permission engine, a confirmation gate,
validation, and an audit trail.

The modules here model that deciding code, translated from the source:
every action is one handler or one statement of one, with its guards and its
failures. TLC checks small instances; TLAPS proves the theorems for every value
of the constants. `PROJECT.json` names, for each definition, the lines it models;
for each run, what it shows; for each property, a plausible bug of the code
("seeded fault" in the modules) that breaks it.

Parse, check and prove with

    tlc -workers 2 -config CalendarConfirm_safety.cfg MCCalendarConfirm
    tlapm CalendarConfirmProofs.tla


## 1. Inventory

| Component | Code | State | Operations |
|---|---|---|---|
| Calendar confirmation gate | `core/calendar.go`, `adapters/calendar/google.go` | map token -> pending action with an expiry time, under a mutex, in memory only | propose create / delete, `/confirm`, `/cancel`, `/pending`; create and delete at Google |
| Permission engine, audit trail | `core/governance.go`, `storage/postgres_audit.go` | table `audit_events` | `Decide`, best-effort `recordAudit` |
| Telegram transport and loop | `telegram/bot.go`, `core/assistant.go`, `cmd/robe-server/main.go` | update offset, channel of updates, the message being handled and its 90 s deadline, recordings in the temporary directory | long poll, take, download, transcribe, handle, split and send the reply; start, stop |
| Structured memory and projects | `core/memory.go`, `core/intent.go`, `storage/postgres_memory.go`, `postgres_projects.go` | tables `memories`, `memory_tags`, `projects`; active project in memory | remember, propose, archive, forget, tag; create and use a project; search and recall for `/ask`, `/askmem`, `/memories` |
| Contact directory, encryption at rest | `storage/postgres_contacts.go`, `postgres_crypto.go`, `postgres.go` | tables `contacts`, `contact_addresses`; keyring of the process | upsert a sender, rotate the encryption |
| Email review | `core/email_review.go`, `core/contact.go`, `adapters/gmail/google.go` | labels at Gmail, contact profiles | dry or real review of unread messages |
| Email search and display | `core/email.go` | none | two reading calls |
| Email identity, redaction | `core/email_identity.go`, `core/redaction.go` | none | regular expressions, Luhn check |
| Intent parsing, LLM client | `llm/ollama.go`, `core/intent.go` | none | text in, intent, answer or embedding out |
| Speech to text | `stt/command.go` | none | one external command |
| Email accounts | `storage/postgres_email_accounts.go` | one table | upsert, query for a scheduler to come |
| Configuration, status server, OAuth helper | `cmd/*`, `config/config.go` | which adapters the process has | environment, a constant answer |

**Interaction.** The poller of the client library and the loop of `Start` are
concurrent and meet in a buffered channel. The loop calls `handleMessage`, which
runs one handler of the assistant under one deadline that download,
transcription, intent parsing, the external call, the database statements and the
audit insert share. Handlers call the permission engine, then the gate, the store
or Gmail, and record an event. There are no transactions: every SQL statement is
committed on its own, and every call may fail before or after it took effect.
`RotateContactEncryption` is a maintenance operation of another process on the
tables the service writes to.

**What is hard**, and what has to hold:

* *Gate.* The call to Google may take effect although it returns an error, and
  may do so after the reply; the pending entry stays in the map while the call is
  underway; expiry is checked once; the map is lost in a crash. Correct means:
  only what was shown is executed, a write is repeated only on the user's word
  after an error, a closed token stays closed, the trail tells no lie.
* *Transport.* A poll acknowledges what was fetched, not what was handled; what
  was not acknowledged is delivered again. Correct means: order is kept, a crash
  loses a bounded number of messages, redelivery never repeats a write, and no
  slow call stops the loop for ever. The last is true of calls under the deadline
  of the message; the renewal of the access token for Google is not (section 4).
* *Dialogue.* Any adapter may be missing, hang or fail; the model may take a text
  for anything; the signal and an update may be ready together; a recording is on
  disk while it is handled. Correct means: every message is answered in full
  unless the process ends, what is missing is answered with a message, nothing is
  written without the user's word, no write is sent after the signal (one on its
  way may still take effect), no recording stays.
* *Replies.* Characters are counted in one place and bytes in another. Correct
  means: chunks that Telegram takes, and nothing lost at the seams.
* *Memory.* A memory is a row and some tags, in several statements. Correct means:
  "saved" is said only of a whole memory, a request leaves at most one row, a
  denied one leaves none, and events about rows are true.
* *Recall.* Two searches under limits, by embedding first and by words when that
  finds nothing, over rows written with any embedding model or none. Correct
  means: nothing archived or out of scope, no empty hands while a row names the
  question, a place for the project in use.
* *Contacts.* Two processes, two keyrings, no transaction, rows in clear left by
  an older version. Correct means: nothing is stored in clear, nothing readable
  is lost by a rotation, and a completed one retires the previous keys.
* *Review.* Labels are chosen by a language model, created one by one and applied
  in one call that may fail unseen or take effect when it has long been given up;
  the first failure ends the review. Correct means: only controlled labels, whole
  sets of them, once per message unless a call was given up; a dry run and a denial
  write nothing; what is left undone is older than all that is done.

`PROJECT.json` lists 40 hazards at their lines with the properties that cover
each.


## 2. Modules

| Module | Models | Correspondence |
|---|---|---|
| `Governance` | action types, decisions, events, the default engine | `DefaultDecide` is `DefaultPermissionEngine.Decide`; an `Event` keeps type, decision, result and subject. Risk, wording and metadata are left out. `call` is a history field that lets properties name the write an event is about. In the gate the table is a bag: two rows may say the same |
| `ConfirmedWrites` | what the gate promises its user | abstract: a token is unissued, open, executed or dropped; a write is launched under an open token with its content; it takes effect at any later time |
| `CalendarConfirm` | the gate | `pending` is `pendingCalendarStore.actions`, `left` what is left of each expiry time, `pc` and `ctxLeft` the handler and its deadline; `ConfirmStart`, `CallReturns...`, `Confirm...` split `handleConfirm` where it waits; `remote` is what became of a write at Google; `audit` counts the rows of each event |
| `RobeBot` | transport and loop around the gate (EXTENDS `CalendarConfirm`) | `Poll`, `Push` are the library's goroutine (external), `Take` the loop, `Dispatch` the part of `HandleText` that reaches the gate, `Restart` the death of the process. A call to Google may wait for a new access token first (`Renewing`), and that has no deadline: `RenewalEnds` sends the call, or not if the message has run out of time |
| `Replies` | splitting and sending an answer | a text is a sequence of characters that are solid (of one byte or more) or blank; `Cut` is `cutTelegramChunk`, `rest` is `remaining`, `told` what was handed to `Send`, which may fail unseen |
| `Dialogue` | one message at a time through the whole program (EXTENDS `Replies`) | `Take` is the select of `Start` and `handleMessage`; `Located` to `Transcribed` are `downloadTelegramFile` and the transcriber; `Command` is `HandleText`, `Parsed` and `Leads` are `ParseIntent` and `handleIntent`; a handler is the list of its calls (`todo`), each of which succeeds, fails, or waits for the deadline; one to Google first renews its token, maybe for ever (`Renew`); `launched` is the history of what was sent, from which on it may take effect whatever the handler hears; `process`, `Signal`, `Exit`, `Kill`, `Panic` are the end of the process as `main` arranges it |
| `MemoryBook` | memories and projects | one action per SQL statement and its failure; `alive` is the deadline, `RecordMemory` the end of `createMemory` |
| `Recall` | searching memories | `SearchMemories`, `Semantic`, `Lexical`, `Passes` are the function of that name and its two queries; `Relevant` is `retrieveRelevantMemories`; `recalled` what the command underway has found; a ranking is a set of rows, because which of two equals comes first is open |
| `ContactVault` | contacts and their encryption | a stored field is a key and a value; `InsertContact`, `LinkAddress` are the statements of `UpsertEmailContact`, `RotateName`, `RotateAddress` the updates of the rotation, from the rows it has read before (`work`) |
| `EmailReview` | the review of unread mail | `Search`, `Pick`, then per message `EnsureLabel`, `ApplyLabels`, `RecordLabels`, `UpsertContact`, `StoreProfile`, each with its failures; `late` holds the calls to Gmail that were given up, after an error, at the deadline or with the process, and may take effect at any time (`LateEffect`); `found` is the history of what the latest search found |
| `CalendarConfirmProofs`, `CalendarGateProofs`, `RobeBotProofs`, `ContactVaultProofs`, `MemoryBookProofs`, `EmailReviewProofs`, `RecallProofs`, `DialogueProofs` | theorems | section 5 |
| `MC...` | instances for TLC | |

`RobeBot` composes the transport with the gate; its property `ImplementsConfirm`
says that the composition is a behaviour of the gate alone, and `ImplementsGate`
that the gate is one of `ConfirmedWrites`. `Dialogue` composes the loop, the
handlers, the adapters and `Replies`; what `RobeBot` says about delivery and the
gate it leaves out, and the other way round. `MemoryBook`, `Recall`,
`ContactVault` and `EmailReview` share no state with the gate: a message runs one
handler, and the deadline and the crash, which they do share, are in each.

Abstractions common to all but `Dialogue`: calendar, Postgres and Gmail are
configured. In all, a draft, a text, a name or a message is a member of a small
set; validation is a choice between a valid and an invalid one; time is counted
in ticks of what is left, or is the passing of the deadline. The permission
engine is arbitrary in the gate and the memory, since `WithPermissionEngine` may
replace it; in `RobeBot` it is the default one, which `main` uses. Audit inserts
fail when the deadline has passed, and where `AuditMayFail` is TRUE for any
reason.

Decisions worth knowing when reading the modules:

* A token is taken to be new. The code draws 40 random bits and does not compare
  them with the tokens in use; `ParkOnAnyToken` is what a collision would do.
* Decision `confirm` for a memory, label or profile action is executed without
  asking, as in the code: only the calendar has a confirmation.
* `createMemory` and `ApplyContactProfileProposal` record `executed` also when
  the store returned an error; such a memory event names no row.
* In `Recall` a question and a text are related by two tables, `Holds` (the text
  contains the question) and `Near` (their similarity under one model). Vectors of
  two models have similarity zero if their lengths differ, as
  `cosineSimilarity` has it, and any if they do not (`SameLength`).
  The two searches of a prompt see different rows, so each draws these
  similarities for itself. A command whose search fails is one state (`Failure`),
  whichever command it is: it answers with an error and keeps nothing.
* In `Dialogue` the two texts of a plain message are those with and without the
  words `hasExplicitMemorySignal` looks for; an embedding call is one call,
  although `Embed` tries a second address before it fails.
* A statement to Postgres takes effect, if it does, before its call returns, also
  when it returns an error; calls to Google may take effect at any time after they
  were sent. In `Dialogue`, where only sending counts, both are `launched`.
* A real review is an operation no command or timer starts yet; the model lets it
  be started at any time, and assumes nothing about whether it is.
* `todo` holds the calls that matter to the handler. The audit inserts are in the
  modules that are about the trail.
* The order in which the labels of one message are created does not matter to any
  property and is fixed by `CHOOSE`.


## 3. Runs

| Run | Instance | Shows |
|---|---|---|
| `gate_safety` | 2 tokens (symmetric), 1 draft, 1 event id, TTL 1, deadline 1, 2 writes, 2 equal rows of an event, every policy, audit inserts may fail | `CallsAsProposed`, `RetryOnlyAfterError`, `ExecutedWasApplied`, `TrailEndsOnce`, `ClosedForever`, and that the gate implements `ConfirmedWrites` |
| `gate_audit` | 1 token, TTL 2, deadline 1 | *violation*: a failed write may leave no event |
| `bot` | 1 token, 3 messages, channel of 1, 1 crash, 2 writes, TTL 1, deadline 1 | one write per message, bounded loss, redelivery only after a crash, order, that the bot implements the gate, and that every message is taken or was lost in a crash, unless the renewal of a token hangs for ever |
| `memory_safety` | 1 project, 2 tags, 2 rows, 2 requests, answers may be lost | `SavedIsWhole`, `OneRowPerRequest`, `TrailIsTrue` |
| `memory_audit` | the same, no answer lost | *violation*: a memory may be archived without an event |
| `memory_project` | slugs `my_lab` and `my-lab` | *violation*: a project in use may not take memories |
| `vault_safety` | 2 senders (1 left in clear), 2 keys, 4 keyrings, 2 contacts | `RowsAgree`, `OtherKeysRetired`, `NoNewClearText`, `AddressKeepsContact`, `RotationKeepsReadable`, `NamesSurvive` |
| `vault_erase` | the same | *violation*: an address may be erased |
| `review` | 2 messages of 2 senders, 2 per review, 3 answers of the model, 3 policies, 1 failure | `ExecutedIsLabelled`, `ContactsFollowReview`, `DryRunIsInert`, `ReviewedOnce`, `NothingSkipped`, with calls that take effect late |
| `recall` | 4 rows, 1 project typed in two ways, 2 texts, 2 questions, 2 models with vectors of one length (rows and models are symmetric), limits 2 (a search of `/ask`), 3 (its prompt) and 2 (the others) | `RecallInScope`, `NamedIsRecalled`, `ProjectHasItsPlace` |
| `dialogue` | 2 messages, 2 starts, 4 configurations, messages of at most 4 characters, every text of up to 2 and 64 of 7 | `NothingLost`, `ChunksFit`, `RecordingsRemoved`, `ModelOnlyProposes`, `NothingSentAfterStop`, and every message is answered unless the renewal of a token hangs for ever |
| `dialogue_panic` | the same | *violation*: an intent reaches an adapter that is not configured |

**Why the bounds are enough.** The properties relate two tokens, two writes under
one token, two rows of one request, two messages: two of each is the least that
can break them, and the third message of `bot` is the one that waits in
the channel while one is handled and another is in the batch. A channel of one is
full at once, which is the interesting case. One crash is enough to see an old
and a new process; proofs cover any number. A TTL and a deadline of one tick let
either pass first, or neither. In the vault, two keys and the keyrings before,
during and after a change, and none, are all the configurations an operator who
changes one key goes through. In the review one failure is enough to leave a
message behind before or after each call, and the call that was given up may take
effect any number of steps and reviews later; the proofs have no bound on failures,
messages or the page. Two equal rows of an audit event are one more than there
should be. In the memory, the gate and the dialogue failures are not bounded.

In `recall` the limits keep the proportion they have in the code, 3 and 5: one search
cannot fill the prompt, and two searches that find two rows each bring one more than
fits, which `uniqueMemories` has to cut; that takes four rows. They also let a search
by embedding, one by words and an archived row differ. In `dialogue`
a second message is needed to see what the first leaves behind (a parked
proposal, a recording), and a second start to see another configuration. Seven
characters need two or three chunks of at most four, with the cut at a newline, at
a blank, inside a word, and with wide characters before it, so that bytes and
characters disagree about where half a message is.

The type invariants of `RobeBot`, `Recall` and `Dialogue` are proved (`BotTyped`,
`RecallTyped`, `DialogueTyped`); the runs spend their time on the properties
instead.

Deadlock is checked in every run: no system here may stop, since at least a
restart, a tick or an answer is always possible (in `Dialogue`, whose starts are
bounded, `Done` stands for the end).


## 4. Fairness

* Bot: time passes (`WF(Tick)`); the goroutines of the poller, the loop and the
  handler run (`WF(Push)`, `WF(Take)`, `WF(Answer)`, `WF(Confirm)`,
  `WF(Complete)`); a call that was sent and whose deadline has passed returns an
  error, because it is made with the context of the message
  (`WF(CallReturnsErr /\ ctxLeft = 0)`); polls with an answer keep succeeding (the
  library retries a failed poll for ever). Nothing is assumed of the user or about
  crashes.
* Dialogue: the handler runs where it needs nobody's help, or where its request
  has ended and the call it waits for must fail (`WF(HandlerStep)`), and the
  deadline comes (`WF(DeadlinePasses)`). Nothing is assumed of Ollama, Postgres,
  the download, or what Google does with a call it was sent.
* Renewing the token. `adapters/calendar/google.go:49` and
  `adapters/gmail/google.go:50` build the client with `oauthConfig.Client(ctx, ...)`
  where `ctx` is that of `main`. Before a call the transport renews an access token
  that has expired, and that exchange runs under the context of `main` and without a
  time limit, whatever deadline the call has. It may hang, and with it the loop and
  all later messages. No fairness is assumed of it: `EveryUpdateTaken` and
  `EveryMessageAnswered` hold of behaviours in which the program is not from some
  point on always waiting for a token (`[]<>(~ Renewing)`, `[]<>(pc # "renew")`),
  which is what the code gives.
* Two calls of the Telegram library, `Send` and `GetFileDirectURL`, take no context,
  and the transcription command is waited for until whatever holds its output has
  ended, even after it was killed (`cmd.Run` with a buffer for its output): these are
  assumed to come back. While one does not, the real loop is stuck.
* The other modules state no liveness. In particular nothing says that a message is
  reviewed in the end: one that fails each time keeps the older ones waiting, and
  nothing starts a real review so far.


## 5. Proofs

All theorems hold for arbitrary constants under the named ASSUMEs of the modules,
which say that the "nothing" values are not among the things they stand beside,
that bounds and times are natural numbers (the program is started at least once,
the channel has room for something), and what the code fixes: the labels of
`EmailReview`, the order of the two limits and a finite table in `Recall`, and in
`Replies` that an answer says something. `ChunksFitHolds` alone has a hypothesis of
its own, `MaxRunes > 1`: with a limit of one character `cutTelegramChunk` would
never cut. The code has 3900.

Every safety invariant and every action property that a passing run checks is
stated by a theorem. The inductive invariants named below were checked by TLC on
the instances of section 3 before they were proved.

**The gate** (`CalendarConfirmProofs`). `Invariance` proves `Spec => []IInv`, and
from it `TypeCorrect`, `WritesAsProposed`, `NoBlindRetry`, `ExecutedIsTrue`,
`TrailIsConsistent`, and the action property `TokensStayClosed`. The properties
alone are not inductive; `IInv` adds

* `MapInv`: what is in the map is what was shown under that token, under a policy
  that asks for confirmation. Without it a write could carry something else.
* `LaunchInv`: what is known of a write that was launched, and that the slots of
  those to come are empty.
* `HandlerInv`: while a write is waited for or wound up, the handler's token is
  the write's and its entry is still in the map (only the handler removes
  entries, and the loop runs one handler at a time).
* `SuccessInv` and `UnknownInv`: a token with a success, or with a write nobody
  has heard of, is not in the map unless the handler is on it. This is what
  makes `RetryOnlyAfterError` inductive: a token that can be confirmed has only
  errors behind it.
* `AuditInv`: an `executed` event names a success and its token is out of the
  map; a `cancelled` one names a token out of the map without a success; of each
  there is one row. So neither can follow the other, or itself: what ends a trail
  is recorded in the step that takes the token out of the map.

Steps that touch neither map nor calls are dealt with once (`QuietKeeps`); each
of the others has a lemma.

**Refinement** (`CalendarGateProofs`). `GateKeepsPromise: Spec =>
ImplementsGate`. The life of a token is computed from the history and the map
(`Life`, by cases in `LifeCases`): open while it is confirmable *or* being
confirmed, so that an entry that expires during its own call closes only when the
call returns. `StepImplements` maps each step to `Issue`, `Launch`, `Apply`,
`Succeed`, `Fail`, `Drop` or a stutter.

**The running program** (`RobeBotProofs`). `BotIsGate: BotSpec =>
ImplementsConfirm`, so everything proved of `Spec` holds of the program;
`OneWriteEach`: a message makes at most one write, for any number of updates and
crashes; `RedeliveryIsRare`. The invariant `BotInv` says that one process sees
updates in ascending order (batch after channel after current), that a write was
launched by the confirmation that names its token (`CauseInv`), and that as long
as its token is in the map that confirmation lies behind the process
(`SpentInv`). A second write by one message would need the message to come again,
hence a new process, hence an empty map. `BotKeepsPromise` puts the two refinements
together: the program implements `ConfirmedWrites`.

`LossIsBoundedHolds` and `InOrderHolds` need more, `LossInv`: the batch continues
without a gap where this process or Telegram stopped counting (`Reached`,
`NoGapInv`), the channel keeps to its capacity (`RoomInv`), and the updates up to
`Reached` that were not taken and do not wait are at most a channel full for each
crash (`MissingInv`). The property `LossIsBounded` counts only what Telegram has
been told to forget, which is not inductive: what a process has pushed but not
acknowledged is not lost, but a poll acknowledges it without looking. Only a
restart adds to `Missing`, and no more than waits in the channel
(`RestartLosesChannel`, by a surjection from the places of the channel). Before
the first crash `Missing` is empty, so that everything before the head of the
channel has been taken: `InOrder`.

**The vault** (`ContactVaultProofs`). `VaultInvariance`, and from it
`VaultTyped`, `RowsStayTrue`, `KeysRetire` and the action properties
`NothingInClear`, `AddressesStay`, `NamesStay`, `RotationLosesNothing`. The
argument rests on two facts that the code does not state: what the rotation has
read is still what is stored when it is written back, because an upsert adds rows
and never changes one (`WorkInv`, with `UpsertInv`: the address to be linked is
not known); and, if every field could be read at the start and the service writes
with the same key or none, whatever is not in `work` any more needs that key only
(`CleanInv`), from which `SoleInv` and `OtherKeysRetired` follow. `CellsInv` (no
ciphertext of nothing) is needed because the code tells an unreadable field from
an empty one by the empty string.

**Memory** (`MemoryBookProofs`). `MemoryTyped`, `SavedIsWholeHolds`,
`OneRowHolds`, `TrailIsTrueHolds`. `BookInv` says of every point between two
statements what the request has made so far: no row before the INSERT, after it
one row of the request in the right project with all tags but those in `todo`,
and nothing but that row when the event is recorded (`CreateInv`); after an
UPDATE, that the row reads as it was changed (`ChangeInv`); and that neither row
nor event nor answer exists for requests to come or, as far as events go, for the
one being served (`UsedInv`, `CurrentInv`). The actions are dealt with by what
they do to the rows, `RowsStep`: rows stay, with request and project, tags are only
added, nothing leaves the archive, and at most one row is new. That is why what
was true when the user was told, or when an event was recorded, stays true.

**Review** (`EmailReviewProofs`). `ReviewTyped`, `ExecutedIsLabelledHolds`,
`ContactsFollowReviewHolds`, `NothingSkippedHolds` and the action properties
`ReviewedOnceHolds`, `DryRunIsInertHolds`. `ReviewInv` says that a message has no
label of Robe's or whole sets of labels with `Robe/Reviewed` among them, and that
those still to be looked at have none unless a call about them was given up
(`MailboxInv`): the labels themselves are the memory of what was reviewed, and it
is enough that they are applied in one call. `MailboxStep` says the same of steps,
and that what was given up is not forgotten. `StageInv` says that only a review in
earnest that the policy admits gets past the choice of a message, `TrailInv` that
events about labels agree with mailbox and policy. For `NothingSkipped`, `QueueInv`
adds the order: what is left of a search is older than the rest of it, and of that
all is labelled but the message underway.

**Recall** (`RecallProofs`). `RecallTyped`, `RecallInScopeHolds`,
`NamedIsRecalledHolds`, `ProjectHasItsPlaceHolds`. These are statements about what one
command computes, so the work is in lemmas about the operators: `BestRows` (the
best rows of a finite set under a limit: some, if there are any and there is room
for one, and never more than the limit), `LexicalFinds`, `SemanticFinds`,
`SearchFinds` (a search comes back empty only when no visible row contains the
question, whichever of the two queries answered) and `RelevantFinds` (the rows of
no project take at most the limit of one search, which is below that of the
prompt). `Found` and `Backed` are what a search and `retrieveRelevantMemories`
promise their callers; `AskKeeps` and `SearchKeeps` carry these over to the commands.

**The whole program** (`DialogueProofs`). `DialogueTyped`, `NothingSentAfterStopHolds`,
`ModelOnlyProposesHolds`, `RecordingsRemovedHolds`. `DialogueInv` says that a live
request belongs to a process that has seen no signal (`ContextInv`), that what is
left to call is what the command typed or the intent found allows, reads and no
write of another kind, and that a calendar write is alone (`TodoInv`, by the table
`Allowed` of what each handler may call), and whose recordings are on disk: those of
messages cut short, and that of the message at hand while a deferred removal is
set or the copying function has still to return (`FilesInv`). What was sent, the
history `launched`, is constrained where it grows: `OnlyCallsWrite` and
`LaunchWrites` say that only a call that is made now sends anything, that it is one
of those left, and that it is made under a live request, also when it has waited
for a token.

**Replies** (also in `DialogueProofs`). `ChunksFitHolds` and `NothingLostHolds`, for
every text and limit. `Replies` works with the smallest and the largest of a set of
positions; that these exist (`LeastOf`, `GreatestOf`) is proved from the
well-foundedness of strict inclusion on finite sets, because the library's
induction theorems take an operator. `TrimTightens` and `CutInRange` then bound
each chunk. For `NothingLost`, `FlattenSeq` is unrolled: the recursive function
behind it exists and is unique (`UnrollsExists`, `UnrollsAlike`, by the least
position at which it would not be), hence it takes a concatenation apart
(`FlattenConcats`); what a text says, `Solid`, is defined with it. `TrimSaysAll`,
`CutInside` and `ChunkSaysItsPart` follow, and `SaidInv`: what was sent and what is
left say the answer.

**Model-checked only.** Liveness (`EveryUpdateTaken`, `EveryMessageAnswered`), which the prover cannot do under
fairness, and the five findings, which are counterexamples.


## 6. Findings

1. `gate_audit` (`governance.go:149`): the event of a failed calendar write is
   inserted under the deadline that has just ended the write, so it is lost in
   exactly that case, while docs/ARCHITECTURE_GOVERNANCE.md:102 says the confirm
   flow emits events.
2. `memory_audit` (`memory.go:482`): archiving updates the row and reads it back;
   if the read fails, the handler returns before it records the change.
3. `memory_project` (`memory.go:96`): `/project create my_lab` stores `my_lab`,
   `/remember` looks for `my-lab`: the sequence README.md:326-328 shows fails for
   slugs that are not in normal form.
4. `vault_erase` (`postgres_crypto.go:190`): a rotation that lacks the key of an
   address overwrites it with the empty string; the loop over names, a few lines
   before, has the check that this one lacks.
5. `dialogue_panic` (`email.go:91`): without Gmail, which README.md:87 calls
   optional, a plain text that the model takes for an email search calls a method
   of a nil interface: only `/email` checks (`email.go:62`), `handleIntent` does
   not (`intent.go:84`). Nothing recovers, and the process ends.


## 7. Not modelled

* Redaction, identity rules, the normal form of slugs, the parsing of arguments,
  log lines of the transcriber, extraction of JSON: pure text. They are regular
  expressions and tables; a finite model would repeat them.
* The text of answers (formatting of events, emails and memories).
* The HTTP of the language model, the environment, the status server and the
  OAuth helper keep no state. What they return is arbitrary in the models.
* The check of the sender's id, a filter before everything `Dialogue` does;
  `RobeBot` has it as messages that are `foreign`.
* Telegram counts UTF-16 units where the code counts characters; its limit of
  4096 is beyond the 3900 of the code for any text without many characters
  outside the basic plane. What Telegram does with a chunk is not modelled.
* Email accounts: one upsert that nothing reads yet.
* Statements to Postgres that take effect after their call has returned an error
  (a server that commits after the connection was given up); an effect before the
  error is returned is modelled everywhere.
* A cell of the vault carries the key it was written under, so that a clear value
  that looks like a ciphertext cannot be told wrongly in the model. The name a mail
  displays (`display_name_seen`) goes the way of the address it is stored with and
  is not a value of its own.
* Telegram's `Send` and `GetFileDirectURL`, and the transcription command, hanging
  for ever (section 4).


## 8. Plan

Written in this order: `Governance`, `CalendarConfirm` with `ConfirmedWrites`,
`RobeBot`, `MemoryBook`, `ContactVault`, `EmailReview`; the proofs of the gate, of
the bot and of the vault; `Recall`, `Replies` and `Dialogue`; the proofs of the
memory, the review, the recall, the dialogue and the replies, and of what a crash
may lose. Next:

1. An abstract specification of delivery (a message is waiting, taken or lost)
   with a proof that `RobeBot` implements it, beside that of the gate.
2. The safety half of the liveness properties: that an action is enabled wherever
   the argument for progress needs it cannot be proved here, but that each of its
   steps decreases a measure can.
