----------------------------- MODULE MemoryBook -----------------------------
(***************************************************************************)
(* The structured memory: the commands of src/internal/core/memory.go, the *)
(* memory intent of intent.go and the statements they run on Postgres      *)
(* (src/internal/adapters/storage/postgres_memory.go, postgres_projects.go).*)
(* A command runs several statements, each committed on its own: any of    *)
(* them may fail, before or after it took effect, the deadline of the      *)
(* message may pass between two of them, and the process may die there.    *)
(*                                                                         *)
(* The content of a memory is the request it was made by: its text, kind,  *)
(* confidence, importance and embedding are carried along unread.          *)
(***************************************************************************)
EXTENDS Governance, Integers

CONSTANTS
  Slugs,          \* the project names a user may type
  Global,         \* the empty slug: no project
  NormalForm,     \* normalizeProjectSlug as a table
  AliasProjects,  \* the projects of MEMORY_PROJECT_ALIASES, in normal form
  Tags,           \* the tags a user may type
  MaxRows,        \* bound on the rows of the table memories
  MaxRequests,    \* bound on the memory requests of a behaviour
  NoRow,          \* the row of an id not in use
  AuditMayFail,   \* may the insert of an audit event fail for no reason of ours?
  AnswersMayBeLost \* may a statement take effect and yet return an error?

NoId == 0

Ids == 1 .. MaxRows

Requests == 1 .. MaxRequests

Projects == Slugs \cup {Global}

ASSUME SlugAssumption ==
  /\ Global \notin Slugs
  /\ NormalForm \in [Projects -> Projects]
  /\ NormalForm[Global] = Global
  /\ \A s \in Slugs : NormalForm[NormalForm[s]] = NormalForm[s]
  /\ AliasProjects \subseteq {NormalForm[s] : s \in Slugs} \ {Global}

ASSUME BoundAssumption == MaxRows \in Nat /\ MaxRequests \in Nat

ASSUME FailureAssumption ==
  AuditMayFail \in BOOLEAN /\ AnswersMayBeLost \in BOOLEAN

Rows == [request : Requests, project : Projects, tags : SUBSET Tags,
         status : {"active", "archived"}]

ASSUME NoRowAssumption == NoRow \notin Rows

\* What a request asks for, once its arguments are parsed and defaulted.
Asks ==
  [kind : {"memory.create"}, project : Projects, tags : SUBSET Tags, id : {NoId}]
    \cup [kind : {"memory.archive"}, project : {Global}, tags : {{}}, id : Ids]
    \cup [kind : {"memory.tag"}, project : {Global},
          tags : {{tag} : tag \in Tags}, id : Ids]

NoAsk == [kind |-> "none", project |-> Global, tags |-> {}, id |-> NoId]

VARIABLES
  policy,         \* the permission engine, fixed when the assistant is built
  memories,       \* the tables memories and memory_tags
  projects,       \* the slugs in the table projects
  activeProject,  \* Assistant.activeProject; it lives in memory
  pc,             \* what the handler of the current request does next
  target,         \* the row the current request has written
  todo,           \* tags that are still to be inserted
  erred,          \* did a statement of AddMemory fail?
  alive,          \* is the deadline of the message still ahead?
  requests,       \* number of requests made so far
  asked,          \* history: what a request asks for
  outcome,        \* history: what the user was told
  audit           \* the audit_events table

vars == <<policy, memories, projects, activeProject, pc, target, todo, erred,
          alive, requests, asked, outcome, audit>>

jobVars == <<target, todo, erred>>

TypeOK ==
  /\ policy \in [MemoryTypes -> Decisions]
  /\ memories \in [Ids -> Rows \cup {NoRow}]
  /\ projects \subseteq Slugs
  /\ activeProject \in Projects
  /\ pc \in {"idle", "inserting", "tagging", "recording", "updating", "reading"}
  /\ target \in Ids \cup {NoId}
  /\ todo \subseteq Tags
  /\ erred \in BOOLEAN
  /\ alive \in BOOLEAN
  /\ requests \in 0 .. MaxRequests
  /\ asked \in [Requests -> Asks \cup {NoAsk}]
  /\ outcome \in [Requests -> {"none", "done", "error", "refused", "answered"}]
  /\ audit \subseteq Events(Ids \cup {NoId}, Requests)

Init ==
  /\ policy \in [MemoryTypes -> Decisions]
  /\ memories = [id \in Ids |-> NoRow]
  /\ projects = {}
  /\ activeProject = Global
  /\ pc = "idle"
  /\ target = NoId
  /\ todo = {}
  /\ erred = FALSE
  /\ alive = TRUE
  /\ requests = 0
  /\ asked = [r \in Requests |-> NoAsk]
  /\ outcome = [r \in Requests |-> "none"]
  /\ audit = {}
------------------------------------------------------------------------------
(* Common parts.                                                           *)

Stored(id) == memories[id] # NoRow

FreeIds == {id \in Ids : ~ Stored(id)}

\* recordAudit: the insert fails once the deadline has passed, and may fail
\* anyway; either way the request goes on.
RecordAudit(event) ==
  \/ alive /\ audit' = audit \cup {event}
  \/ (~ alive \/ AuditMayFail) /\ UNCHANGED audit

\* The request is answered and the loop is free for the next message.
Reply(request, said) ==
  /\ outcome' = [outcome EXCEPT ![request] = said]
  /\ pc' = "idle"
  /\ target' = NoId
  /\ todo' = {}
  /\ erred' = FALSE
  /\ alive' = TRUE

\* A message arrives.
Arrive(ask) ==
  /\ pc = "idle"
  /\ requests < MaxRequests
  /\ requests' = requests + 1
  /\ asked' = [asked EXCEPT ![requests + 1] = ask]

\* The policy, or the validation of a proposal, turns the request down.
Refuse(type) ==
  /\ \/ audit' = audit \cup {Event(type, "deny", "rejected", NoId, requests + 1)}
     \/ AuditMayFail /\ UNCHANGED audit
  /\ Reply(requests + 1, "refused")

\* The request goes on to its first statement: anything but a denial lets it.
Admit(step) ==
  /\ pc' = step
  /\ UNCHANGED <<jobVars, alive, outcome, audit>>

Decide(type, step) ==
  \/ policy[type] = "deny" /\ Refuse(type)
  \/ policy[type] # "deny" /\ Admit(step)
------------------------------------------------------------------------------
(* Requests.                                                               *)

\* /remember: without a --project it goes to the active project.
Remember(slug, tags) ==
  LET project == IF slug = Global THEN activeProject ELSE slug
  IN  /\ Arrive([kind |-> "memory.create", project |-> NormalForm[project],
                 tags |-> tags, id |-> NoId])
      /\ Decide("memory.create", "inserting")
      /\ UNCHANGED <<policy, memories, projects, activeProject>>

\* projectForText: the active project, or else that of any alias in the text.
ProjectsForText ==
  IF activeProject # Global THEN {NormalForm[activeProject]}
  ELSE AliasProjects \cup {Global}

\* A memory intent of the language model whose user text says `remember that'.
ProposeMemory(slug, tags) ==
  \E project \in IF slug = Global THEN ProjectsForText ELSE {NormalForm[slug]} :
    /\ Arrive([kind |-> "memory.create", project |-> project, tags |-> tags,
               id |-> NoId])
    /\ \/ Decide("memory.create", "inserting")
       \/ Refuse("memory.create")   \* invalid: too long, unknown kind, empty
    /\ UNCHANGED <<policy, memories, projects, activeProject>>

\* A memory intent without such words is answered as a question, a /remember
\* without text or with too long a text with the reason.
IgnoreProposal ==
  /\ Arrive(NoAsk)
  /\ Reply(requests + 1, "answered")
  /\ UNCHANGED <<policy, memories, projects, activeProject, audit>>

\* /memory archive and /forget.
Archive(id) ==
  /\ Arrive([kind |-> "memory.archive", project |-> Global, tags |-> {},
             id |-> id])
  /\ Decide("memory.archive", "updating")
  /\ UNCHANGED <<policy, memories, projects, activeProject>>

\* /memory tag.
AddTag(id, tag) ==
  /\ Arrive([kind |-> "memory.tag", project |-> Global, tags |-> {tag},
             id |-> id])
  /\ Decide("memory.tag", "updating")
  /\ UNCHANGED <<policy, memories, projects, activeProject>>

\* /project create: one upsert; nothing is decided or audited.
CreateProject(slug) ==
  /\ pc = "idle"
  /\ projects' = projects \cup {slug}
  /\ UNCHANGED <<policy, memories, activeProject, pc, jobVars, alive, requests,
                 asked, outcome, audit>>

\* /project use, with the slug as the user typed it.
UseProject(slug) ==
  /\ pc = "idle"
  /\ slug \in projects
  /\ activeProject' = slug
  /\ UNCHANGED <<policy, memories, projects, pc, jobVars, alive, requests,
                 asked, outcome, audit>>
------------------------------------------------------------------------------
(* AddMemory.                                                              *)

Ask == asked[requests]

NewRow == [request |-> requests, project |-> Ask.project, tags |-> {},
           status |-> "active"]

Unchanged == UNCHANGED <<policy, projects, activeProject, requests, asked>>

\* projectIDBySlug and the INSERT into memories succeed.
InsertRow ==
  /\ pc = "inserting"
  /\ alive
  /\ Ask.project \in projects \cup {Global}
  /\ \E id \in FreeIds :
       /\ memories' = [memories EXCEPT ![id] = NewRow]
       /\ target' = id
  /\ todo' = Ask.tags
  /\ pc' = "tagging"
  /\ Unchanged /\ UNCHANGED <<erred, alive, outcome, audit>>

\* The answer to an INSERT that took effect is lost.
InsertUnanswered ==
  /\ AnswersMayBeLost
  /\ alive
  /\ Ask.project \in projects \cup {Global}
  /\ \E id \in FreeIds : memories' = [memories EXCEPT ![id] = NewRow]

\* Seeded fault: an insert that failed is tried again.
InsertRetried ==
  /\ pc = "inserting"
  /\ UNCHANGED memories \/ InsertUnanswered
  /\ UNCHANGED pc
  /\ Unchanged /\ UNCHANGED <<jobVars, alive, outcome, audit>>

\* One of them fails: there is no such project, the deadline passed, or the
\* database cannot be reached.
InsertFails ==
  /\ pc = "inserting"
  /\ UNCHANGED memories \/ InsertUnanswered
  /\ erred' = TRUE
  /\ pc' = "recording"
  /\ Unchanged /\ UNCHANGED <<target, todo, alive, outcome, audit>>

\* Seeded fault: an empty tag is not dropped.
InsertEmptyTag(tag) ==
  /\ pc = "tagging"
  /\ tag \in todo
  /\ alive
  /\ memories' = [memories EXCEPT ![target].tags = @ \cup {""}]
  /\ todo' = todo \ {tag}
  /\ Unchanged /\ UNCHANGED <<pc, target, erred, alive, outcome, audit>>

\* The INSERT of the next tag.
InsertTag(tag) ==
  /\ pc = "tagging"
  /\ tag \in todo
  /\ alive
  /\ memories' = [memories EXCEPT ![target].tags = @ \cup {tag}]
  /\ todo' = todo \ {tag}
  /\ Unchanged /\ UNCHANGED <<pc, target, erred, alive, outcome, audit>>

\* Seeded fault: a tag that could not be inserted is passed over.
SkipTag(tag) ==
  /\ pc = "tagging"
  /\ tag \in todo
  /\ todo' = todo \ {tag}
  /\ Unchanged /\ UNCHANGED <<memories, pc, target, erred, alive, outcome, audit>>

\* It fails: AddMemory returns no memory, but the row and some tags stay.
InsertTagFails(tag) ==
  /\ pc = "tagging"
  /\ tag \in todo
  /\ \/ UNCHANGED memories
     \/ /\ AnswersMayBeLost /\ alive
        /\ memories' = [memories EXCEPT ![target].tags = @ \cup {tag}]
  /\ erred' = TRUE
  /\ target' = NoId
  /\ pc' = "recording"
  /\ Unchanged /\ UNCHANGED <<todo, alive, outcome, audit>>

TagsDone ==
  /\ pc = "tagging"
  /\ todo = {}
  /\ pc' = "recording"
  /\ Unchanged /\ UNCHANGED <<memories, jobVars, alive, outcome, audit>>

\* The end of createMemory: one event, `executed' whether or not AddMemory
\* returned an error, about the id it returned.
RecordMemory ==
  /\ pc = "recording"
  /\ RecordAudit(Event("memory.create", policy["memory.create"], "executed",
                       target, requests))
  /\ Reply(requests, IF erred THEN "error" ELSE "done")
  /\ Unchanged /\ UNCHANGED memories
------------------------------------------------------------------------------
(* ArchiveMemory and AddMemoryTag.                                         *)

Changed(row) ==
  IF Ask.kind = "memory.archive" THEN [row EXCEPT !.status = "archived"]
  ELSE [row EXCEPT !.tags = @ \cup Ask.tags]

\* The write of the statement: an UPDATE passes over an id that is not there,
\* the INSERT of a tag does not.
Write ==
  IF Stored(Ask.id)
  THEN memories' = [memories EXCEPT ![Ask.id] = Changed(@)]
  ELSE Ask.kind = "memory.archive" /\ UNCHANGED memories

Update ==
  /\ pc = "updating"
  /\ alive
  /\ Write
  /\ pc' = "reading"
  /\ Unchanged /\ UNCHANGED <<jobVars, alive, outcome, audit>>

\* It fails, possibly after it took effect: the handler returns the error and
\* records nothing.
UpdateFails ==
  /\ pc = "updating"
  /\ UNCHANGED memories \/ (AnswersMayBeLost /\ alive /\ Write)
  /\ Reply(requests, "error")
  /\ Unchanged /\ UNCHANGED audit

\* Seeded fault: an update is recorded without reading the row back.
RecordUnread ==
  /\ pc = "reading"
  /\ RecordAudit(Event(Ask.kind, policy[Ask.kind], "executed", Ask.id, requests))
  /\ Reply(requests, "done")
  /\ Unchanged /\ UNCHANGED memories

\* GetMemory reads the row back and the change is recorded.
ReadBack ==
  /\ pc = "reading"
  /\ alive
  /\ Stored(Ask.id)
  /\ RecordAudit(Event(Ask.kind, policy[Ask.kind], "executed", Ask.id, requests))
  /\ Reply(requests, "done")
  /\ Unchanged /\ UNCHANGED memories

\* GetMemory fails or finds nothing: the handler returns the error and records
\* nothing, although the change was made.
ReadBackFails ==
  /\ pc = "reading"
  /\ Reply(requests, "error")
  /\ Unchanged /\ UNCHANGED <<memories, audit>>
------------------------------------------------------------------------------
(* The surroundings.                                                       *)

\* The deadline of the message passes.
DeadlinePasses ==
  /\ pc # "idle"
  /\ alive
  /\ alive' = FALSE
  /\ UNCHANGED <<policy, memories, projects, activeProject, pc, jobVars,
                 requests, asked, outcome, audit>>

\* The process dies: the active project is forgotten, no answer is sent.
Crash ==
  /\ pc' = "idle"
  /\ target' = NoId
  /\ todo' = {}
  /\ erred' = FALSE
  /\ alive' = TRUE
  /\ activeProject' = Global
  /\ UNCHANGED <<policy, memories, projects, requests, asked, outcome,
                 audit>>

Request ==
  \/ \E slug \in Projects, tags \in SUBSET Tags :
       Remember(slug, tags) \/ ProposeMemory(slug, tags)
  \/ IgnoreProposal
  \/ \E id \in Ids : Archive(id) \/ \E tag \in Tags : AddTag(id, tag)
  \/ \E slug \in Slugs : CreateProject(slug) \/ UseProject(slug)

Statement ==
  \/ InsertRow \/ InsertFails \/ TagsDone \/ RecordMemory
  \/ \E tag \in Tags : InsertTag(tag) \/ InsertTagFails(tag)
  \/ Update \/ UpdateFails \/ ReadBack \/ ReadBackFails

Next == Request \/ Statement \/ DeadlinePasses \/ Crash

Spec == Init /\ [][Next]_vars
------------------------------------------------------------------------------
(* Properties.                                                             *)

RowsOf(r) == {id \in Ids : Stored(id) /\ memories[id].request = r}

\* `Memory saved' is said only of a memory that is stored whole: one row, in
\* the project that was asked for, with every tag (createMemory, AddMemory).
SavedIsWhole ==
  \A r \in Requests :
    outcome[r] = "done" /\ asked[r].kind = "memory.create" =>
      \E id \in RowsOf(r) :
        /\ memories[id].project = asked[r].project
        /\ asked[r].tags \subseteq memories[id].tags

\* A request leaves at most one row, and only one that asks for a memory does:
\* no silent writes (docs/ARCHITECTURE_GOVERNANCE.md, memory rules).
OneRowPerRequest ==
  /\ \A r \in Requests : \A i, j \in RowsOf(r) : i = j
  /\ \A id \in Ids :
       Stored(id) => asked[memories[id].request].kind = "memory.create"

\* What the audit trail says is true, then and later.  `executed' about a row:
\* it was created by that request, is archived, or has the tag.  `rejected': the
\* request left no row, and nothing else is recorded of it.
TrailIsTrue ==
  \A e \in audit :
    /\ e.result = "executed" /\ e.subject # NoId =>
         /\ Stored(e.subject)
         /\ e.type = "memory.create" => memories[e.subject].request = e.call
         /\ e.type = "memory.archive" => memories[e.subject].status = "archived"
         /\ e.type = "memory.tag" =>
              asked[e.call].tags \subseteq memories[e.subject].tags
    /\ e.result = "rejected" =>
         /\ RowsOf(e.call) = {}
         /\ \A f \in audit : f.call = e.call => f = e

\* A request that archived a memory, and was answered, has left an event:
\* docs/ARCHITECTURE_GOVERNANCE.md:102 says that memory writes emit one.
ArchiveAudited ==
  \A r \in Requests :
    /\ asked[r].kind = "memory.archive"
    /\ outcome[r] \in {"done", "error"}
    /\ Stored(asked[r].id)
    /\ memories[asked[r].id].status = "archived"
    => \E e \in audit : e.type = "memory.archive" /\ e.subject = asked[r].id

\* A project that was created and is in use takes memories, as README.md:326
\* to 328 shows: the lookup of AddMemory finds it under the name that
\* /remember looks for.
ActiveProjectTakesMemories ==
  activeProject # Global => NormalForm[activeProject] \in projects
==============================================================================
