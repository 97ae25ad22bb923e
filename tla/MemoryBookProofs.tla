-------------------------- MODULE MemoryBookProofs --------------------------
(***************************************************************************)
(* Theorems about MemoryBook, for any tags and project names, any number   *)
(* of rows and of requests, and whether or not the database loses answers. *)
(* The invariant says of every point between two statements what the       *)
(* request has made so far; the rest is that rows only grow and that the   *)
(* audit trail is about rows that stay.                                    *)
(***************************************************************************)
EXTENDS MemoryBook, TLAPS

(***************************************************************************)
(* The inductive invariant.                                                *)
(***************************************************************************)

\* Nothing is known of a request before it is made.
UsedInv ==
  /\ \A r \in Requests : r > requests => asked[r] = NoAsk /\ outcome[r] = "none"
  /\ \A e \in audit : e.call <= requests
  /\ \A id \in Ids : Stored(id) => memories[id].request <= requests

\* The request being served has not been answered, and nothing is recorded.
CurrentInv ==
  pc # "idle" =>
    /\ requests \in Requests
    /\ outcome[requests] = "none"
    /\ \A e \in audit : e.call # requests

\* The row of the current request, with all its tags but those in `missing'.
OwnRow(id, missing) ==
  /\ id \in Ids
  /\ Stored(id)
  /\ memories[id].request = requests
  /\ memories[id].project = Ask.project
  /\ Ask.tags \subseteq memories[id].tags \cup missing

\* createMemory and AddMemory: no row before the INSERT, one row after it.
CreateInv ==
  /\ pc \in {"inserting", "tagging", "recording"} => Ask.kind = "memory.create"
  /\ pc \in {"idle", "inserting"} => target = NoId /\ ~ erred
  /\ pc = "inserting" => RowsOf(requests) = {}
  /\ pc = "tagging" => ~ erred /\ OwnRow(target, todo)
  /\ pc = "recording" => IF erred THEN target = NoId ELSE OwnRow(target, {})

\* ArchiveMemory and AddMemoryTag: between the write and the reading back, a
\* row that is there has been changed.
ChangeInv ==
  /\ pc \in {"updating", "reading"} => Ask.kind \in {"memory.archive", "memory.tag"}
  /\ pc = "reading" /\ Stored(Ask.id) =>
       /\ Ask.kind = "memory.archive" => memories[Ask.id].status = "archived"
       /\ Ask.kind = "memory.tag" => Ask.tags \subseteq memories[Ask.id].tags

BookInv ==
  /\ TypeOK
  /\ UsedInv
  /\ CurrentInv
  /\ CreateInv
  /\ ChangeInv
  /\ OneRowPerRequest
  /\ SavedIsWhole
  /\ TrailIsTrue
------------------------------------------------------------------------------
(* What a step does to the rows.                                           *)

\* A stored row stays, with its request and its project; tags are only added,
\* and nothing is taken out of the archive.
RowsGrow ==
  \A id \in Ids :
    Stored(id) =>
      /\ memories'[id] # NoRow
      /\ memories'[id].request = memories[id].request
      /\ memories'[id].project = memories[id].project
      /\ memories[id].tags \subseteq memories'[id].tags
      /\ memories[id].status = "archived" => memories'[id].status = "archived"

\* A row that was not there is the row of the request that is inserting.
NewRowsAreOurs ==
  \A id \in Ids :
    ~ Stored(id) /\ memories'[id] # NoRow =>
      pc = "inserting" /\ memories'[id] = NewRow

RowsTyped == memories' \in [Ids -> Rows \cup {NoRow}]

\* At most one row is new.
OneRowIsNew ==
  \A i, j \in Ids :
    /\ ~ Stored(i) /\ memories'[i] # NoRow
    /\ ~ Stored(j) /\ memories'[j] # NoRow
    => i = j

RowsStep == RowsTyped /\ RowsGrow /\ NewRowsAreOurs /\ OneRowIsNew

\* The request that is being served asks for something typed.
LEMMA AskTyped ==
  ASSUME TypeOK, CurrentInv, pc # "idle"
  PROVE  /\ Ask \in Asks \cup {NoAsk}
         /\ Ask.project \in Projects
         /\ Ask.tags \subseteq Tags
         /\ Ask.kind \in {"memory.archive", "memory.tag"} => Ask.id \in Ids
<1>1. Ask \in Asks \cup {NoAsk}
  BY DEF TypeOK, CurrentInv, Ask
<1>2. CASE Ask = NoAsk
  BY <1>2 DEF NoAsk, Projects
<1>3. CASE Ask \in Asks
  BY <1>3 DEF Asks, Projects
<1> QED
  BY <1>1, <1>2, <1>3

\* A step that leaves the tables alone.
LEMMA NoRowStep ==
  ASSUME TypeOK, UNCHANGED memories
  PROVE  RowsStep
BY DEF RowsStep, RowsTyped, RowsGrow, NewRowsAreOurs, OneRowIsNew, TypeOK, Stored

\* The row AddMemory inserts.
LEMMA NewRowTyped ==
  ASSUME TypeOK, CurrentInv, pc # "idle"
  PROVE  NewRow \in Rows
BY AskTyped DEF NewRow, Rows, CurrentInv

\* The INSERT into memories.
LEMMA InsertStep ==
  ASSUME TypeOK, CurrentInv, pc = "inserting", NEW id \in FreeIds,
         memories' = [memories EXCEPT ![id] = NewRow]
  PROVE  /\ RowsStep
         /\ memories'[id] = NewRow
         /\ \A other \in Ids : other # id => memories'[other] = memories[other]
<1>1. NewRow \in Rows
  BY NewRowTyped
<1>2. id \in Ids /\ ~ Stored(id)
  BY DEF FreeIds
<1>3. memories \in [Ids -> Rows \cup {NoRow}]
  BY DEF TypeOK
<1>4. /\ RowsTyped
      /\ memories'[id] = NewRow
      /\ \A other \in Ids : other # id => memories'[other] = memories[other]
  BY <1>1, <1>2, <1>3 DEF RowsTyped
<1>5. RowsGrow /\ NewRowsAreOurs /\ OneRowIsNew
  BY <1>2, <1>4 DEF RowsGrow, NewRowsAreOurs, OneRowIsNew, Stored
<1> QED
  BY <1>4, <1>5 DEF RowsStep

\* A write to a row that is there.
LEMMA ChangeStep ==
  ASSUME TypeOK, NEW id \in Ids, Stored(id), NEW row \in Rows,
         row.request = memories[id].request,
         row.project = memories[id].project,
         memories[id].tags \subseteq row.tags,
         memories[id].status = "archived" => row.status = "archived",
         memories' = [memories EXCEPT ![id] = row]
  PROVE  /\ RowsStep
         /\ memories'[id] = row
<1>1. memories \in [Ids -> Rows \cup {NoRow}]
  BY DEF TypeOK
<1>2. /\ RowsTyped
      /\ memories'[id] = row
      /\ \A other \in Ids : other # id => memories'[other] = memories[other]
  BY <1>1 DEF RowsTyped
<1>3. row # NoRow
  BY NoRowAssumption
<1>4. RowsGrow /\ NewRowsAreOurs /\ OneRowIsNew
  BY <1>2, <1>3 DEF RowsGrow, NewRowsAreOurs, OneRowIsNew, Stored
<1> QED
  BY <1>2, <1>4 DEF RowsStep

\* The INSERT of a tag in AddMemory.
LEMMA TagStep ==
  ASSUME TypeOK, CreateInv, pc = "tagging", NEW tag \in Tags,
         memories' = [memories EXCEPT ![target].tags = @ \cup {tag}]
  PROVE  /\ RowsStep
         /\ memories'[target] =
              [memories[target] EXCEPT !.tags = @ \cup {tag}]
<1> DEFINE old == memories[target]
           row == [old EXCEPT !.tags = @ \cup {tag}]
<1>1. target \in Ids /\ Stored(target)
  BY DEF CreateInv, OwnRow
<1>2. old \in Rows
  BY <1>1 DEF TypeOK, Stored
<1>3. /\ row \in Rows
      /\ row.request = old.request
      /\ row.project = old.project
      /\ old.tags \subseteq row.tags
      /\ old.status = "archived" => row.status = "archived"
  BY <1>2 DEF Rows
<1>4. memories' = [memories EXCEPT ![target] = row]
  OBVIOUS
<1> HIDE DEF row
<1>5. RowsStep /\ memories'[target] = row
  BY <1>1, <1>3, <1>4, ChangeStep
<1> QED
  BY <1>5 DEF row

\* The UPDATE of ArchiveMemory and the INSERT of AddMemoryTag.
LEMMA WriteStep ==
  ASSUME TypeOK, CurrentInv, ChangeInv, pc = "updating", Write
  PROVE  /\ RowsStep
         /\ memories'[Ask.id] # NoRow =>
              /\ Ask.kind = "memory.archive" => memories'[Ask.id].status = "archived"
              /\ Ask.kind = "memory.tag" => Ask.tags \subseteq memories'[Ask.id].tags
<1> DEFINE old == memories[Ask.id]
           row == Changed(old)
<1>1. /\ Ask.kind \in {"memory.archive", "memory.tag"}
      /\ Ask.id \in Ids
      /\ Ask.tags \subseteq Tags
  BY AskTyped DEF ChangeInv
<1>2. CASE Stored(Ask.id)
  <2>1. old \in Rows
    BY <1>1, <1>2 DEF TypeOK, Stored
  <2>2. /\ row \in Rows
        /\ row.request = old.request
        /\ row.project = old.project
        /\ old.tags \subseteq row.tags
        /\ old.status = "archived" => row.status = "archived"
        /\ Ask.kind = "memory.archive" => row.status = "archived"
        /\ Ask.kind = "memory.tag" => Ask.tags \subseteq row.tags
    <3>1. CASE Ask.kind = "memory.archive"
      BY <2>1, <3>1 DEF Changed, Rows
    <3>2. CASE Ask.kind = "memory.tag"
      BY <1>1, <2>1, <3>2 DEF Changed, Rows
    <3> QED
      BY <1>1, <3>1, <3>2
  <2>3. memories' = [memories EXCEPT ![Ask.id] = row]
    BY <1>2 DEF Write
  <2> HIDE DEF row
  <2>4. RowsStep /\ memories'[Ask.id] = row
    BY <1>1, <1>2, <2>2, <2>3, ChangeStep
  <2> QED
    BY <2>2, <2>4
<1>3. CASE ~ Stored(Ask.id)
  <2>1. UNCHANGED memories
    BY <1>3 DEF Write
  <2> QED
    BY <1>3, <2>1, NoRowStep DEF Stored
<1> QED
  BY <1>2, <1>3
------------------------------------------------------------------------------
(* What a growing table does to the invariant.                             *)

\* What was asked and answered before stays as it is.
PastKept ==
  \A r \in Requests : r <= requests => asked'[r] = asked[r]

\* A row of an earlier request is a row of it still, and no other is.
LEMMA RowsOfKept ==
  ASSUME TypeOK, RowsStep, NEW r \in Requests, r # requests \/ pc # "inserting"
  PROVE  RowsOf(r)' = RowsOf(r)
BY DEF RowsStep, RowsGrow, NewRowsAreOurs, RowsOf, Stored, NewRow

\* Every stored row is of a request that has been made.
LEMMA RowsUsed ==
  ASSUME TypeOK, UsedInv, CurrentInv, RowsStep, NEW id \in Ids, memories'[id] # NoRow
  PROVE  /\ memories'[id] \in Rows
         /\ memories'[id].request \in Requests
         /\ memories'[id].request <= requests
<1>1. memories'[id] \in Rows
  BY DEF RowsStep, RowsTyped
<1>2. memories'[id].request \in Requests
  BY <1>1 DEF Rows
<1>3. CASE Stored(id)
  BY <1>1, <1>2, <1>3 DEF RowsStep, RowsGrow, UsedInv
<1>4. CASE ~ Stored(id)
  <2>1. memories'[id].request = requests
    BY <1>4 DEF RowsStep, NewRowsAreOurs, NewRow
  <2>2. requests \in Int
    BY DEF TypeOK
  <2> QED
    BY <1>1, <1>2, <2>1, <2>2
<1> QED
  BY <1>3, <1>4

\* At most one row for a request, and only for one that asks for a memory.
LEMMA OneRowKeeps ==
  ASSUME BookInv, RowsStep, PastKept
  PROVE  OneRowPerRequest'
<1>1. ASSUME NEW r \in Requests, NEW i \in RowsOf(r)', NEW j \in RowsOf(r)'
      PROVE  i = j
  <2>1. CASE r # requests \/ pc # "inserting"
    <3>1. RowsOf(r)' = RowsOf(r)
      BY <2>1, RowsOfKept DEF BookInv
    <3> QED
      BY <1>1, <3>1 DEF BookInv, OneRowPerRequest
  <2>2. CASE r = requests /\ pc = "inserting"
    <3>1. RowsOf(r) = {}
      BY <2>2 DEF BookInv, CreateInv
    <3>2. /\ i \in Ids /\ memories'[i] # NoRow /\ memories'[i].request = r
          /\ j \in Ids /\ memories'[j] # NoRow /\ memories'[j].request = r
      BY <1>1 DEF RowsOf, Stored
    <3>3. ~ Stored(i) /\ ~ Stored(j)
      BY <3>1, <3>2 DEF RowsOf, RowsStep, RowsGrow
    <3> QED
      BY <3>2, <3>3 DEF RowsStep, OneRowIsNew
  <2> QED
    BY <2>1, <2>2
<1>2. ASSUME NEW id \in Ids, memories'[id] # NoRow
      PROVE  asked'[memories'[id].request].kind = "memory.create"
  <2>1. asked'[memories'[id].request] = asked[memories'[id].request]
    BY <1>2, RowsUsed DEF BookInv, PastKept
  <2>2. CASE Stored(id)
    BY <2>1, <2>2 DEF BookInv, OneRowPerRequest, RowsStep, RowsGrow
  <2>3. CASE ~ Stored(id)
    BY <1>2, <2>1, <2>3 DEF BookInv, CreateInv, RowsStep, NewRowsAreOurs, NewRow, Ask
  <2> QED
    BY <2>2, <2>3
<1> QED
  BY <1>1, <1>2 DEF OneRowPerRequest, Stored

\* What was reported as saved is still whole.
LEMMA SavedKeeps ==
  ASSUME BookInv, RowsStep, PastKept,
         NEW r \in Requests, r <= requests,
         outcome[r] = "done", asked'[r].kind = "memory.create"
  PROVE  \E id \in RowsOf(r)' :
           /\ memories'[id].project = asked'[r].project
           /\ asked'[r].tags \subseteq memories'[id].tags
<1>1. asked'[r] = asked[r]
  BY DEF PastKept
<1>2. PICK id \in RowsOf(r) :
        /\ memories[id].project = asked[r].project
        /\ asked[r].tags \subseteq memories[id].tags
  BY <1>1 DEF BookInv, SavedIsWhole
<1>3. id \in Ids /\ Stored(id) /\ memories[id].request = r
  BY DEF RowsOf
<1>4. /\ memories'[id] # NoRow
      /\ memories'[id].request = r
      /\ memories'[id].project = memories[id].project
      /\ memories[id].tags \subseteq memories'[id].tags
  BY <1>3 DEF RowsStep, RowsGrow
<1>5. id \in RowsOf(r)'
  BY <1>3, <1>4 DEF RowsOf, Stored
<1> QED
  BY <1>1, <1>2, <1>4, <1>5

\* What an event says of its subject.
EventHolds(e) ==
  e.result = "executed" /\ e.subject # NoId =>
    /\ Stored(e.subject)
    /\ e.type = "memory.create" => memories[e.subject].request = e.call
    /\ e.type = "memory.archive" => memories[e.subject].status = "archived"
    /\ e.type = "memory.tag" => asked[e.call].tags \subseteq memories[e.subject].tags

\* What an event says stays true while rows grow.
LEMMA EventKeeps ==
  ASSUME TypeOK, UsedInv, RowsStep, PastKept, NEW e \in audit, EventHolds(e)
  PROVE  EventHolds(e)'
<1>1. e.subject \in Ids \cup {NoId} /\ e.call \in Requests /\ e.call <= requests
  BY DEF TypeOK, Events, UsedInv
<1>2. asked'[e.call] = asked[e.call]
  BY <1>1 DEF PastKept
<1>3. e.subject # NoId => e.subject \in Ids
  BY <1>1
<1> QED
  BY <1>2, <1>3 DEF EventHolds, RowsStep, RowsGrow, Stored

\* The trail stays true when nothing is recorded.
LEMMA TrailKeeps ==
  ASSUME BookInv, RowsStep, PastKept, UNCHANGED audit
  PROVE  TrailIsTrue'
<1>1. ASSUME NEW e \in audit PROVE EventHolds(e)'
  <2>1. EventHolds(e)
    BY DEF BookInv, TrailIsTrue, EventHolds
  <2> QED
    BY <2>1, EventKeeps DEF BookInv
<1>2. ASSUME NEW e \in audit, e.result = "rejected"
      PROVE  RowsOf(e.call)' = {} /\ \A f \in audit : f.call = e.call => f = e
  <2>1. e.call \in Requests
    BY DEF BookInv, TypeOK, Events
  <2>2. e.call # requests \/ pc # "inserting"
    BY DEF BookInv, CurrentInv
  <2>3. RowsOf(e.call)' = RowsOf(e.call)
    BY <2>1, <2>2, RowsOfKept DEF BookInv
  <2> QED
    BY <1>2, <2>3 DEF BookInv, TrailIsTrue
<1> QED
  BY <1>1, <1>2 DEF TrailIsTrue, EventHolds

\* It stays true when one event about the current request is recorded that is
\* true itself; `call' is that request.
LEMMA RecordKeeps ==
  ASSUME BookInv, UNCHANGED memories, PastKept,
         NEW e, NEW call \in Requests,
         e.call = call, EventHolds(e)', audit' = audit \cup {e},
         \A f \in audit : f.call # call,
         e.result = "rejected" => RowsOf(call) = {}
  PROVE  TrailIsTrue'
<1>1. RowsStep
  BY NoRowStep DEF BookInv
<1>2. ASSUME NEW f \in audit' PROVE EventHolds(f)'
  <2>1. CASE f \in audit
    <3>1. EventHolds(f)
      BY <2>1 DEF BookInv, TrailIsTrue, EventHolds
    <3> QED
      BY <1>1, <2>1, <3>1, EventKeeps DEF BookInv
  <2>2. CASE f = e
    BY <2>2
  <2> QED
    BY <2>1, <2>2
<1>3. \A r \in Requests : RowsOf(r)' = RowsOf(r)
  BY DEF RowsOf, Stored
<1>4. ASSUME NEW f \in audit', f.result = "rejected"
      PROVE  RowsOf(f.call)' = {} /\ \A g \in audit' : g.call = f.call => g = f
  <2>1. CASE f \in audit
    <3>1. /\ f.call \in Requests
          /\ RowsOf(f.call) = {}
          /\ \A g \in audit : g.call = f.call => g = f
      BY <1>4, <2>1 DEF BookInv, TypeOK, Events, TrailIsTrue
    <3> QED
      BY <1>3, <2>1, <3>1
  <2>2. CASE f = e
    BY <1>3, <1>4, <2>2
  <2> QED
    BY <2>1, <2>2
<1> QED
  BY <1>2, <1>4 DEF TrailIsTrue, EventHolds
------------------------------------------------------------------------------
(* Statements of the request that is being served.                         *)

\* The bookkeeping of requests while one is served.
LEMMA UsedKeeps ==
  ASSUME BookInv, RowsStep, UNCHANGED <<requests, asked>>,
         \A r \in Requests : r > requests => outcome'[r] = outcome[r],
         \A e \in audit' : e \in audit \/ e.call = requests
  PROVE  UsedInv'
<1>1. requests \in Int
  BY DEF BookInv, TypeOK
<1>2. \A r \in Requests : r > requests => asked'[r] = NoAsk /\ outcome'[r] = "none"
  BY DEF BookInv, UsedInv
<1>3. \A e \in audit' : e.call <= requests
  BY <1>1 DEF BookInv, UsedInv
<1>4. \A id \in Ids : memories'[id] # NoRow => memories'[id].request <= requests
  BY RowsUsed DEF BookInv
<1> QED
  BY <1>2, <1>3, <1>4 DEF UsedInv, Stored

\* No answer is given.
LEMMA SavedStep ==
  ASSUME BookInv, RowsStep, UNCHANGED <<requests, asked, outcome>>
  PROVE  SavedIsWhole'
<1>1. PastKept
  BY DEF PastKept
<1>2. ASSUME NEW r \in Requests, outcome[r] = "done" PROVE r <= requests
  <2>1. ~ r > requests
    BY <1>2 DEF BookInv, UsedInv
  <2>2. r \in Int /\ requests \in Int
    BY DEF Requests, BookInv, TypeOK
  <2> QED
    BY <2>1, <2>2
<1> QED
  BY <1>1, <1>2, SavedKeeps DEF SavedIsWhole

\* The current request is answered: `done' to one that asked for a memory only
\* when its row is whole.
LEMMA SavedReply ==
  ASSUME BookInv, RowsStep, UNCHANGED <<requests, asked>>, pc # "idle",
         NEW said, outcome' = [outcome EXCEPT ![requests] = said],
         said = "done" /\ Ask.kind = "memory.create" => \E id \in Ids : OwnRow(id, {})'
  PROVE  SavedIsWhole'
<1>1. PastKept
  BY DEF PastKept
<1>2. ASSUME NEW r \in Requests, outcome'[r] = "done", asked'[r].kind = "memory.create"
      PROVE  \E id \in RowsOf(r)' :
               /\ memories'[id].project = asked'[r].project
               /\ asked'[r].tags \subseteq memories'[id].tags
  <2>1. /\ outcome \in [Requests -> {"none", "done", "error", "refused", "answered"}]
        /\ requests \in Requests
    BY DEF BookInv, TypeOK, CurrentInv
  <2>2. CASE r = requests
    <3>1. said = "done"
      BY <1>2, <2>1, <2>2
    <3>2. PICK id \in Ids : OwnRow(id, {})'
      BY <1>2, <2>2, <3>1 DEF Ask
    <3> QED
      BY <2>2, <3>2 DEF OwnRow, RowsOf, Ask
  <2>3. CASE r # requests
    <3>1. outcome[r] = "done"
      BY <1>2, <2>1, <2>3
    <3>2. ~ r > requests
      BY <3>1 DEF BookInv, UsedInv
    <3>3. r \in Int /\ requests \in Int
      BY DEF Requests, BookInv, TypeOK
    <3>4. r <= requests
      BY <3>2, <3>3
    <3> QED
      BY <1>1, <1>2, <3>1, <3>4, SavedKeeps
  <2> QED
    BY <2>2, <2>3
<1> QED
  BY <1>2 DEF SavedIsWhole

\* A statement after which the request goes on, with nothing recorded.
LEMMA StatementKeeps ==
  ASSUME BookInv, RowsStep, UNCHANGED <<requests, asked, outcome, audit>>,
         TypeOK', CreateInv', ChangeInv', pc # "idle"
  PROVE  BookInv'
<1>1. PastKept
  BY DEF PastKept
<1>2. UsedInv'
  BY UsedKeeps
<1>3. CurrentInv'
  BY DEF BookInv, CurrentInv
<1>4. OneRowPerRequest' /\ SavedIsWhole' /\ TrailIsTrue'
  BY <1>1, OneRowKeeps, SavedStep, TrailKeeps
<1> QED
  BY <1>2, <1>3, <1>4 DEF BookInv

\* Once a request is answered, nothing is to be said of its statements.
LEMMA IdleIsFree ==
  ASSUME pc' = "idle", target' = NoId, ~ erred'
  PROVE  CurrentInv' /\ CreateInv' /\ ChangeInv'
BY DEF CurrentInv, CreateInv, ChangeInv

\* An answer that records nothing.
LEMMA AnswerKeeps ==
  ASSUME BookInv, RowsStep, UNCHANGED <<policy, projects, activeProject, requests, asked, audit>>,
         pc # "idle", NEW said \in {"done", "error"}, Reply(requests, said),
         said = "done" => Ask.kind # "memory.create"
  PROVE  BookInv'
<1>1. PastKept
  BY DEF PastKept
<1>2. /\ outcome' = [outcome EXCEPT ![requests] = said]
      /\ pc' = "idle" /\ target' = NoId /\ todo' = {} /\ erred' = FALSE /\ alive' = TRUE
  BY DEF Reply
<1>3. requests \in Requests /\ requests \in Int
  BY DEF BookInv, TypeOK, CurrentInv
<1>4. TypeOK'
  BY <1>2, <1>3 DEF BookInv, TypeOK, RowsStep, RowsTyped
<1>5. \A r \in Requests : r > requests => outcome'[r] = outcome[r]
  BY <1>2, <1>3 DEF BookInv, TypeOK
<1>6. UsedInv'
  BY <1>5, UsedKeeps
<1>7. OneRowPerRequest' /\ SavedIsWhole' /\ TrailIsTrue'
  BY <1>1, <1>2, OneRowKeeps, SavedReply, TrailKeeps
<1> QED
  BY <1>2, <1>4, <1>6, <1>7, IdleIsFree DEF BookInv

\* An answer that records an event about the request, which is true of it.
LEMMA RecordedAnswerKeeps ==
  ASSUME BookInv, UNCHANGED <<policy, memories, projects, activeProject, requests, asked>>,
         pc # "idle", NEW said \in {"done", "error"}, Reply(requests, said),
         NEW type \in MemoryTypes, NEW subject \in Ids \cup {NoId},
         audit' = audit \cup {Event(type, policy[type], "executed", subject, requests)},
         EventHolds(Event(type, policy[type], "executed", subject, requests)),
         said = "done" /\ Ask.kind = "memory.create" => \E id \in Ids : OwnRow(id, {})
  PROVE  BookInv'
<1> PICK e : e = Event(type, policy[type], "executed", subject, requests)
  OBVIOUS
<1>1. PastKept /\ RowsStep
  BY NoRowStep DEF PastKept, BookInv
<1>2. /\ outcome' = [outcome EXCEPT ![requests] = said]
      /\ pc' = "idle" /\ target' = NoId /\ todo' = {} /\ erred' = FALSE /\ alive' = TRUE
  BY DEF Reply
<1>3. requests \in Requests /\ requests \in Int
  BY DEF BookInv, TypeOK, CurrentInv
<1>4. policy[type] \in Decisions
  BY DEF BookInv, TypeOK
<1>5. /\ e \in Events(Ids \cup {NoId}, Requests)
      /\ e.call = requests /\ e.result = "executed"
  BY <1>3, <1>4 DEF Event, Events, MemoryTypes, ActionTypes, Results
<1>6. EventHolds(e)'
  <2>1. EventHolds(e)
    OBVIOUS
  <2> QED
    BY <1>3, <2>1 DEF EventHolds, Stored
<1>7. audit' = audit \cup {e}
  OBVIOUS
<1>8. TypeOK'
  BY <1>2, <1>3, <1>5, <1>7 DEF BookInv, TypeOK
<1>9. UsedInv'
  <2>1. \A r \in Requests : r > requests => outcome'[r] = outcome[r]
    BY <1>2, <1>3 DEF BookInv, TypeOK
  <2> QED
    BY <1>1, <1>5, <1>7, <2>1, UsedKeeps
<1>10. TrailIsTrue'
  <2>1. \A f \in audit : f.call # requests
    BY DEF BookInv, CurrentInv
  <2>2. e.result = "rejected" => RowsOf(requests) = {}
    BY <1>5
  <2>3. UNCHANGED memories
    OBVIOUS
  <2>4. PastKept /\ e.call = requests
    BY <1>1, <1>5
  <2> QED
    BY <1>3, <1>6, <1>7, <2>1, <2>2, <2>3, <2>4, RecordKeeps
<1>11. OneRowPerRequest'
  BY <1>1, OneRowKeeps
<1>12. SavedIsWhole'
  <2>1. \A id \in Ids : OwnRow(id, {}) => OwnRow(id, {})'
    BY DEF OwnRow, Stored, Ask
  <2> QED
    BY <1>1, <1>2, <2>1, SavedReply
<1> QED
  BY <1>2, <1>8, <1>9, <1>10, <1>11, <1>12, IdleIsFree DEF BookInv
------------------------------------------------------------------------------
(* AddMemory.                                                              *)

\* The row is inserted: it still lacks all the tags that were asked for.
LEMMA InsertRowKeeps ==
  ASSUME BookInv, InsertRow
  PROVE  BookInv'
<1>1. /\ pc = "inserting" /\ pc' = "tagging" /\ todo' = Ask.tags
      /\ UNCHANGED <<policy, projects, activeProject, requests, asked, erred,
                     alive, outcome, audit>>
  BY DEF InsertRow, Unchanged
<1>2. PICK id \in FreeIds : memories' = [memories EXCEPT ![id] = NewRow] /\ target' = id
  BY DEF InsertRow
<1>3. id \in Ids
  BY DEF FreeIds
<1>4. RowsStep /\ memories'[id] = NewRow
  BY <1>1, <1>2, InsertStep DEF BookInv
<1>5. Ask.tags \subseteq Tags /\ NewRow \in Rows
  BY <1>1, AskTyped, NewRowTyped DEF BookInv
<1>6. TypeOK'
  BY <1>1, <1>2, <1>3, <1>4, <1>5 DEF BookInv, TypeOK, RowsStep, RowsTyped
<1>7. CreateInv'
  <2>1. memories'[id] # NoRow
    BY <1>4, <1>5, NoRowAssumption
  <2>2. OwnRow(id, Ask.tags)'
    BY <1>1, <1>3, <1>4, <2>1 DEF OwnRow, Stored, Ask, NewRow
  <2> QED
    BY <1>1, <1>2, <2>2 DEF BookInv, CreateInv, OwnRow, Ask, Stored
<1>8. ChangeInv'
  BY <1>1 DEF ChangeInv
<1> QED
  BY <1>1, <1>4, <1>6, <1>7, <1>8, StatementKeeps

\* The INSERT fails, with or without effect; AddMemory returns no memory.
LEMMA InsertFailsKeeps ==
  ASSUME BookInv, InsertFails
  PROVE  BookInv'
<1>1. /\ pc = "inserting" /\ pc' = "recording" /\ erred' = TRUE
      /\ UNCHANGED <<policy, projects, activeProject, requests, asked, target,
                     todo, alive, outcome, audit>>
  BY DEF InsertFails, Unchanged
<1>2. RowsStep
  <2>1. CASE UNCHANGED memories
    BY <2>1, NoRowStep DEF BookInv
  <2>2. CASE InsertUnanswered
    BY <1>1, <2>2, InsertStep DEF BookInv, InsertUnanswered
  <2> QED
    BY <2>1, <2>2 DEF InsertFails
<1>3. TypeOK'
  BY <1>1, <1>2 DEF BookInv, TypeOK, RowsStep, RowsTyped
<1>4. CreateInv' /\ ChangeInv'
  BY <1>1 DEF BookInv, CreateInv, ChangeInv, Ask
<1> QED
  BY <1>1, <1>2, <1>3, <1>4, StatementKeeps

\* One of the missing tags is inserted.
LEMMA InsertTagKeeps ==
  ASSUME BookInv, NEW tag \in Tags, InsertTag(tag)
  PROVE  BookInv'
<1>1. /\ pc = "tagging" /\ todo' = todo \ {tag}
      /\ memories' = [memories EXCEPT ![target].tags = @ \cup {tag}]
      /\ UNCHANGED <<policy, projects, activeProject, requests, asked, pc,
                     target, erred, alive, outcome, audit>>
  BY DEF InsertTag, Unchanged
<1>2. /\ RowsStep
      /\ memories'[target] = [memories[target] EXCEPT !.tags = @ \cup {tag}]
  BY <1>1, TagStep DEF BookInv
<1>3. TypeOK'
  BY <1>1, <1>2 DEF BookInv, TypeOK, RowsStep, RowsTyped
<1>4. OwnRow(target, todo)
  BY <1>1 DEF BookInv, CreateInv
<1>5. memories[target] \in Rows
  BY <1>4 DEF BookInv, TypeOK, OwnRow, Stored
<1>6. /\ memories'[target] # NoRow
      /\ memories'[target].request = memories[target].request
      /\ memories'[target].project = memories[target].project
  BY <1>2, <1>4 DEF RowsStep, RowsGrow, OwnRow
<1>7. memories'[target].tags = memories[target].tags \cup {tag}
  BY <1>2, <1>5 DEF Rows
<1>8. OwnRow(target, todo)'
  BY <1>1, <1>4, <1>6, <1>7 DEF OwnRow, Stored, Ask
<1>9. CreateInv' /\ ChangeInv'
  BY <1>1, <1>8 DEF BookInv, CreateInv, ChangeInv, Ask
<1> QED
  BY <1>1, <1>2, <1>3, <1>9, StatementKeeps

\* It fails; the row stays without some of its tags and is not reported.
LEMMA InsertTagFailsKeeps ==
  ASSUME BookInv, NEW tag \in Tags, InsertTagFails(tag)
  PROVE  BookInv'
<1>1. /\ pc = "tagging" /\ pc' = "recording" /\ erred' = TRUE /\ target' = NoId
      /\ UNCHANGED <<policy, projects, activeProject, requests, asked, todo,
                     alive, outcome, audit>>
  BY DEF InsertTagFails, Unchanged
<1>2. RowsStep
  BY <1>1, NoRowStep, TagStep DEF BookInv, InsertTagFails
<1>3. TypeOK'
  BY <1>1, <1>2 DEF BookInv, TypeOK, RowsStep, RowsTyped
<1>4. CreateInv' /\ ChangeInv'
  BY <1>1 DEF BookInv, CreateInv, ChangeInv, Ask
<1> QED
  BY <1>1, <1>2, <1>3, <1>4, StatementKeeps

\* No tag is missing.
LEMMA TagsDoneKeeps ==
  ASSUME BookInv, TagsDone
  PROVE  BookInv'
<1>1. /\ pc = "tagging" /\ pc' = "recording" /\ todo = {}
      /\ UNCHANGED <<policy, memories, projects, activeProject, requests, asked,
                     target, todo, erred, alive, outcome, audit>>
  BY DEF TagsDone, Unchanged, jobVars
<1>2. RowsStep
  BY <1>1, NoRowStep DEF BookInv
<1>3. TypeOK'
  BY <1>1 DEF BookInv, TypeOK
<1>4. CreateInv' /\ ChangeInv'
  BY <1>1 DEF BookInv, CreateInv, ChangeInv, OwnRow, Stored, Ask
<1> QED
  BY <1>1, <1>2, <1>3, <1>4, StatementKeeps

\* createMemory records and answers; `done' only when the row is whole.
LEMMA RecordMemoryKeeps ==
  ASSUME BookInv, RecordMemory
  PROVE  BookInv'
<1> DEFINE said == IF erred THEN "error" ELSE "done"
           type == "memory.create"
<1>1. /\ pc = "recording"
      /\ Reply(requests, said)
      /\ UNCHANGED <<policy, memories, projects, activeProject, requests, asked>>
      /\ \/ audit' = audit \cup {Event(type, policy[type], "executed", target, requests)}
         \/ UNCHANGED audit
  BY DEF RecordMemory, RecordAudit, Unchanged
<1>2. /\ target \in Ids \cup {NoId}
      /\ target # NoId => OwnRow(target, {})
      /\ ~ erred => OwnRow(target, {})
      /\ Ask.kind = "memory.create"
      /\ erred \in BOOLEAN
  BY <1>1 DEF BookInv, CreateInv, TypeOK
<1>3. said \in {"done", "error"} /\ (said = "done" => \E id \in Ids : OwnRow(id, {}))
  BY <1>2 DEF OwnRow
<1>4. CASE audit' = audit \cup {Event(type, policy[type], "executed", target, requests)}
  <2>1. EventHolds(Event(type, policy[type], "executed", target, requests))
    BY <1>2 DEF EventHolds, Event, OwnRow
  <2>2. type \in MemoryTypes
    BY DEF MemoryTypes
  <2> HIDE DEF said, type
  <2> QED
    BY <1>1, <1>2, <1>3, <1>4, <2>1, <2>2, RecordedAnswerKeeps
<1>5. CASE UNCHANGED audit
  <2>1. RowsStep
    BY <1>1, NoRowStep DEF BookInv
  <2>2. /\ outcome' = [outcome EXCEPT ![requests] = said]
        /\ pc' = "idle" /\ target' = NoId /\ todo' = {} /\ erred' = FALSE /\ alive' = TRUE
    BY <1>1 DEF Reply
  <2>3. requests \in Requests /\ requests \in Int
    BY <1>1 DEF BookInv, TypeOK, CurrentInv
  <2>4. TypeOK'
    BY <1>1, <1>3, <1>5, <2>2, <2>3 DEF BookInv, TypeOK
  <2>5. UsedInv'
    <3>1. \A r \in Requests : r > requests => outcome'[r] = outcome[r]
      BY <2>2, <2>3 DEF BookInv, TypeOK
    <3> QED
      BY <1>1, <1>5, <2>1, <3>1, UsedKeeps
  <2>6. OneRowPerRequest' /\ TrailIsTrue'
    BY <1>1, <1>5, <2>1, OneRowKeeps, TrailKeeps DEF PastKept
  <2>7. SavedIsWhole'
    <3>1. \A id \in Ids : OwnRow(id, {}) => OwnRow(id, {})'
      BY <1>1 DEF OwnRow, Stored, Ask
    <3> HIDE DEF said
    <3> QED
      BY <1>1, <1>3, <2>1, <2>2, <3>1, SavedReply
  <2> QED
    BY <2>2, <2>4, <2>5, <2>6, <2>7, IdleIsFree DEF BookInv
<1> QED
  BY <1>1, <1>4, <1>5
------------------------------------------------------------------------------
(* ArchiveMemory and AddMemoryTag.                                         *)

\* The write of ArchiveMemory or AddMemoryTag.
LEMMA UpdateKeeps ==
  ASSUME BookInv, Update
  PROVE  BookInv'
<1>1. /\ pc = "updating" /\ pc' = "reading" /\ Write
      /\ UNCHANGED <<policy, projects, activeProject, requests, asked, target,
                     todo, erred, alive, outcome, audit>>
  BY DEF Update, Unchanged, jobVars
<1>2. /\ RowsStep
      /\ memories'[Ask.id] # NoRow =>
           /\ Ask.kind = "memory.archive" => memories'[Ask.id].status = "archived"
           /\ Ask.kind = "memory.tag" => Ask.tags \subseteq memories'[Ask.id].tags
  BY <1>1, WriteStep DEF BookInv
<1>3. TypeOK'
  BY <1>1, <1>2 DEF BookInv, TypeOK, RowsStep, RowsTyped
<1>4. CreateInv' /\ ChangeInv'
  BY <1>1, <1>2 DEF BookInv, CreateInv, ChangeInv, Ask, Stored
<1> QED
  BY <1>1, <1>2, <1>3, <1>4, StatementKeeps

\* It fails, with or without effect.
LEMMA UpdateFailsKeeps ==
  ASSUME BookInv, UpdateFails
  PROVE  BookInv'
<1>1. /\ pc = "updating" /\ Reply(requests, "error")
      /\ UNCHANGED <<policy, projects, activeProject, requests, asked, audit>>
      /\ UNCHANGED memories \/ Write
  BY DEF UpdateFails, Unchanged
<1>2. RowsStep
  BY <1>1, NoRowStep, WriteStep DEF BookInv
<1> QED
  BY <1>1, <1>2, AnswerKeeps

\* The row is read back, recorded and shown: the change is there.
LEMMA ReadBackKeeps ==
  ASSUME BookInv, ReadBack
  PROVE  BookInv'
<1> DEFINE type == Ask.kind
<1>1. /\ pc = "reading" /\ Stored(Ask.id) /\ Reply(requests, "done")
      /\ UNCHANGED <<policy, memories, projects, activeProject, requests, asked>>
      /\ \/ audit' = audit \cup {Event(type, policy[type], "executed", Ask.id, requests)}
         \/ UNCHANGED audit
  BY DEF ReadBack, RecordAudit, Unchanged
<1>2. /\ type \in {"memory.archive", "memory.tag"}
      /\ Ask.id \in Ids
      /\ type = "memory.archive" => memories[Ask.id].status = "archived"
      /\ type = "memory.tag" => Ask.tags \subseteq memories[Ask.id].tags
  BY <1>1, AskTyped DEF BookInv, ChangeInv
<1>3. CASE audit' = audit \cup {Event(type, policy[type], "executed", Ask.id, requests)}
  <2>1. EventHolds(Event(type, policy[type], "executed", Ask.id, requests))
    BY <1>1, <1>2 DEF EventHolds, Event, Ask
  <2>2. type \in MemoryTypes /\ type # "memory.create"
    BY <1>2 DEF MemoryTypes
  <2> QED
    BY <1>1, <1>2, <1>3, <2>1, <2>2, RecordedAnswerKeeps
<1>4. CASE UNCHANGED audit
  BY <1>1, <1>2, <1>4, NoRowStep, AnswerKeeps DEF BookInv
<1> QED
  BY <1>1, <1>3, <1>4

\* It is not read back: nothing is recorded.
LEMMA ReadBackFailsKeeps ==
  ASSUME BookInv, ReadBackFails
  PROVE  BookInv'
BY NoRowStep, AnswerKeeps DEF BookInv, ReadBackFails, Unchanged
------------------------------------------------------------------------------
(* Requests.                                                               *)

\* The state that a new request finds, and what its arrival makes of the past.
LEMMA ArriveKeeps ==
  ASSUME BookInv, NEW ask \in Asks \cup {NoAsk}, Arrive(ask), UNCHANGED memories,
         NEW call, call = requests + 1
  PROVE  /\ call \in Requests
         /\ requests' = call
         /\ asked' \in [Requests -> Asks \cup {NoAsk}]
         /\ asked'[call] = ask
         /\ PastKept
         /\ RowsOf(call)' = {}
         /\ outcome[call] = "none"
         /\ \A e \in audit : e.call \in Int /\ e.call < call
         /\ RowsStep
         /\ OneRowPerRequest'
         /\ \A r \in Requests : r > requests' => asked'[r] = NoAsk
         /\ \A id \in Ids : memories'[id] # NoRow => memories'[id].request <= requests'
<1>1. /\ requests \in Nat /\ requests < MaxRequests /\ MaxRequests \in Nat
      /\ requests' = requests + 1
      /\ asked' = [asked EXCEPT ![call] = ask]
  BY BoundAssumption DEF BookInv, TypeOK, Arrive
<1>2. call \in Requests
  BY <1>1 DEF Requests
<1>3. /\ asked' \in [Requests -> Asks \cup {NoAsk}]
      /\ asked'[call] = ask
      /\ \A r \in Requests : r # call => asked'[r] = asked[r]
  BY <1>1, <1>2 DEF BookInv, TypeOK
<1>4. PastKept
  BY <1>1, <1>3 DEF PastKept
<1>5. /\ outcome[call] = "none"
      /\ \A e \in audit : e.call \in Int /\ e.call < call
  <2>1. call > requests
    BY <1>1
  <2>2. \A e \in audit : e.call \in Requests /\ e.call <= requests
    BY DEF BookInv, TypeOK, Events, UsedInv
  <2> QED
    BY <1>1, <1>2, <2>1, <2>2 DEF BookInv, UsedInv, Requests
<1>6. \A id \in Ids : Stored(id) => memories[id].request \in Int /\ memories[id].request <= requests
  BY DEF BookInv, TypeOK, UsedInv, Stored, Rows, Requests
<1>7. RowsOf(call)' = {}
  <2>1. \A id \in Ids : Stored(id) => memories[id].request # call
    BY <1>1, <1>6
  <2> QED
    BY <2>1 DEF RowsOf, Stored
<1>8. RowsStep
  BY NoRowStep DEF BookInv
<1>9. OneRowPerRequest'
  BY <1>4, <1>8, OneRowKeeps
<1>10. \A r \in Requests : r > requests' => asked'[r] = NoAsk
  BY <1>1, <1>3 DEF BookInv, UsedInv, Requests
<1>11. \A id \in Ids : memories'[id] # NoRow => memories'[id].request <= requests'
  BY <1>1, <1>6 DEF Stored
<1> QED
  BY <1>1, <1>2, <1>3, <1>4, <1>5, <1>7, <1>8, <1>9, <1>10, <1>11

\* What was reported as saved before is untouched by a request that arrives.
LEMMA ArriveSaved ==
  ASSUME BookInv, NEW ask \in Asks \cup {NoAsk}, Arrive(ask), UNCHANGED memories,
         \A r \in Requests : r # requests + 1 => outcome'[r] = outcome[r],
         outcome'[requests + 1] # "done"
  PROVE  SavedIsWhole'
<1>1. PastKept /\ RowsStep
  BY ArriveKeeps
<1>2. ASSUME NEW r \in Requests, outcome'[r] = "done", asked'[r].kind = "memory.create"
      PROVE  \E id \in RowsOf(r)' :
               /\ memories'[id].project = asked'[r].project
               /\ asked'[r].tags \subseteq memories'[id].tags
  <2>1. outcome[r] = "done"
    BY <1>2
  <2>2. r <= requests
    <3>1. ~ r > requests
      BY <2>1 DEF BookInv, UsedInv
    <3>2. r \in Int /\ requests \in Int
      BY DEF Requests, BookInv, TypeOK
    <3> QED
      BY <3>1, <3>2
  <2> QED
    BY <1>1, <1>2, <2>1, <2>2, SavedKeeps
<1> QED
  BY <1>2 DEF SavedIsWhole

\* A request that is answered at once, with an event or without.
LEMMA RejectKeeps ==
  ASSUME BookInv, NEW ask \in Asks \cup {NoAsk}, Arrive(ask),
         UNCHANGED <<policy, memories, projects, activeProject>>,
         NEW said \in {"refused", "answered"}, Reply(requests + 1, said),
         NEW type \in MemoryTypes,
         \/ audit' = audit \cup {Event(type, "deny", "rejected", NoId, requests + 1)}
         \/ UNCHANGED audit
  PROVE  BookInv'
<1> PICK call : call = requests + 1
  OBVIOUS
<1>1. /\ call \in Requests /\ requests' = call
      /\ asked' \in [Requests -> Asks \cup {NoAsk}]
      /\ PastKept
      /\ RowsOf(call)' = {}
      /\ \A e \in audit : e.call \in Int /\ e.call < call
      /\ RowsStep
      /\ OneRowPerRequest'
      /\ \A r \in Requests : r > requests' => asked'[r] = NoAsk
      /\ \A id \in Ids : memories'[id] # NoRow => memories'[id].request <= requests'
  BY ArriveKeeps
<1>2. /\ outcome' = [outcome EXCEPT ![call] = said]
      /\ pc' = "idle" /\ target' = NoId /\ todo' = {} /\ erred' = FALSE /\ alive' = TRUE
  BY DEF Reply
<1>3. /\ outcome' \in [Requests -> {"none", "done", "error", "refused", "answered"}]
      /\ \A r \in Requests : r # call => outcome'[r] = outcome[r]
      /\ outcome'[call] = said
  BY <1>1, <1>2 DEF BookInv, TypeOK
<1> PICK e : e = Event(type, "deny", "rejected", NoId, call)
  OBVIOUS
<1>4. /\ e \in Events(Ids \cup {NoId}, Requests)
      /\ e.call = call /\ e.result = "rejected"
  BY <1>1 DEF Event, Events, MemoryTypes, ActionTypes, Results, Decisions
<1>5. audit' = audit \cup {e} \/ UNCHANGED audit
  OBVIOUS
<1>6. call \in Int /\ requests \in Int /\ call = requests + 1 /\ call \in 0 .. MaxRequests
  BY <1>1, BoundAssumption DEF BookInv, TypeOK, Requests
<1>7. TypeOK'
  BY <1>1, <1>2, <1>3, <1>4, <1>5, <1>6 DEF BookInv, TypeOK
<1>8. UsedInv'
  <2>1. \A r \in Requests : r > requests' => outcome'[r] = "none"
    BY <1>1, <1>3, <1>6 DEF BookInv, UsedInv, Requests
  <2>2. \A f \in audit' : f.call <= requests'
    BY <1>1, <1>4, <1>5, <1>6
  <2> QED
    BY <1>1, <2>1, <2>2 DEF UsedInv, Stored
<1>9. SavedIsWhole'
  BY <1>3, ArriveSaved
<1>10. TrailIsTrue'
  <2>1. CASE UNCHANGED audit
    BY <1>1, <2>1, TrailKeeps
  <2>2. CASE audit' = audit \cup {e}
    <3>1. EventHolds(e)'
      BY <1>4 DEF EventHolds
    <3>2. RowsOf(call) = {}
      BY <1>1 DEF RowsOf, Stored
    <3>3. \A f \in audit : f.call # call
      BY <1>1, <1>6
    <3> QED
      BY <1>1, <1>4, <2>2, <3>1, <3>2, <3>3, RecordKeeps
  <2> QED
    BY <1>5, <2>1, <2>2
<1> QED
  BY <1>1, <1>2, <1>7, <1>8, <1>9, <1>10, IdleIsFree DEF BookInv

\* A request that goes on to its first statement.
LEMMA AdmitKeeps ==
  ASSUME BookInv, NEW ask \in Asks, Arrive(ask),
         UNCHANGED <<policy, memories, projects, activeProject>>,
         NEW step, Admit(step),
         \/ step = "inserting" /\ ask.kind = "memory.create"
         \/ step = "updating" /\ ask.kind \in {"memory.archive", "memory.tag"}
  PROVE  BookInv'
<1> PICK call : call = requests + 1
  OBVIOUS
<1>1. /\ call \in Requests /\ requests' = call
      /\ asked' \in [Requests -> Asks \cup {NoAsk}]
      /\ asked'[call] = ask
      /\ PastKept
      /\ RowsOf(call)' = {}
      /\ outcome[call] = "none"
      /\ \A e \in audit : e.call \in Int /\ e.call < call
      /\ RowsStep
      /\ OneRowPerRequest'
      /\ \A r \in Requests : r > requests' => asked'[r] = NoAsk
      /\ \A id \in Ids : memories'[id] # NoRow => memories'[id].request <= requests'
  BY ArriveKeeps
<1>2. pc' = step /\ UNCHANGED <<target, todo, erred, alive, outcome, audit>>
  BY DEF Admit, jobVars
<1>3. pc = "idle"
  BY DEF Arrive
<1>4. call \in Int /\ requests \in Int /\ call = requests + 1 /\ call \in 0 .. MaxRequests
  BY <1>1, BoundAssumption DEF BookInv, TypeOK, Requests
<1>5. TypeOK'
  BY <1>1, <1>2, <1>4 DEF BookInv, TypeOK
<1>6. UsedInv'
  BY <1>1, <1>2, <1>4 DEF BookInv, UsedInv, Requests, Stored
<1>7. CurrentInv'
  BY <1>1, <1>2, <1>4 DEF CurrentInv
<1>8. CreateInv'
  <2>1. RowsOf(requests)' = {}
    BY <1>1 DEF RowsOf
  <2>2. target' = NoId /\ ~ erred'
    BY <1>2, <1>3 DEF BookInv, CreateInv
  <2>3. pc' \in {"inserting", "updating"}
    BY <1>2
  <2>4. pc' = "inserting" => Ask'.kind = "memory.create"
    BY <1>1, <1>2 DEF Ask
  <2> QED
    BY <2>1, <2>2, <2>3, <2>4 DEF CreateInv
<1>9. ChangeInv'
  BY <1>1, <1>2 DEF ChangeInv, Ask
<1>10. SavedIsWhole'
  BY <1>1, <1>2, ArriveSaved
<1>11. TrailIsTrue'
  BY <1>1, <1>2, TrailKeeps
<1> QED
  BY <1>1, <1>5, <1>6, <1>7, <1>8, <1>9, <1>10, <1>11 DEF BookInv

\* The requests a user and the language model can make.
LEMMA RequestKeeps ==
  ASSUME BookInv, Request
  PROVE  BookInv'
<1>1. /\ "memory.create" \in MemoryTypes
      /\ "memory.archive" \in MemoryTypes
      /\ "memory.tag" \in MemoryTypes
  BY DEF MemoryTypes
<1>2. \A slug \in Projects : NormalForm[slug] \in Projects
  BY SlugAssumption
<1>3. ASSUME NEW project \in Projects, NEW tags \in SUBSET Tags,
             Arrive([kind |-> "memory.create", project |-> project,
                     tags |-> tags, id |-> NoId]),
             Decide("memory.create", "inserting") \/ Refuse("memory.create"),
             UNCHANGED <<policy, memories, projects, activeProject>>
      PROVE  BookInv'
  <2> PICK ask : ask = [kind |-> "memory.create", project |-> project,
                        tags |-> tags, id |-> NoId]
    OBVIOUS
  <2>1. ask \in Asks /\ ask.kind = "memory.create"
    BY DEF Asks
  <2>2. CASE Refuse("memory.create")
    BY <1>1, <1>3, <2>1, <2>2, RejectKeeps DEF Refuse
  <2>3. CASE Admit("inserting")
    BY <1>3, <2>1, <2>3, AdmitKeeps
  <2> QED
    BY <1>3, <2>2, <2>3 DEF Decide
<1>4. ASSUME NEW ask \in Asks, ask.kind \in {"memory.archive", "memory.tag"},
             Arrive(ask), Decide(ask.kind, "updating"),
             UNCHANGED <<policy, memories, projects, activeProject>>
      PROVE  BookInv'
  <2>1. CASE Refuse(ask.kind)
    BY <1>1, <1>4, <2>1, RejectKeeps DEF Refuse
  <2>2. CASE Admit("updating")
    BY <1>4, <2>2, AdmitKeeps
  <2> QED
    BY <1>4, <2>1, <2>2 DEF Decide
<1>5. ASSUME NEW slug \in Projects, NEW tags \in SUBSET Tags, Remember(slug, tags)
      PROVE  BookInv'
  <2> DEFINE project == NormalForm[IF slug = Global THEN activeProject ELSE slug]
  <2>1. project \in Projects
    BY <1>2 DEF BookInv, TypeOK
  <2>2. /\ Arrive([kind |-> "memory.create", project |-> project,
                   tags |-> tags, id |-> NoId])
        /\ Decide("memory.create", "inserting")
        /\ UNCHANGED <<policy, memories, projects, activeProject>>
    BY <1>5 DEF Remember
  <2> QED
    BY <1>3, <2>1, <2>2
<1>6. ASSUME NEW slug \in Projects, NEW tags \in SUBSET Tags, ProposeMemory(slug, tags)
      PROVE  BookInv'
  <2>1. ProjectsForText \subseteq Projects
    BY <1>2, SlugAssumption DEF ProjectsForText, Projects, BookInv, TypeOK
  <2>2. PICK project \in IF slug = Global THEN ProjectsForText ELSE {NormalForm[slug]} :
          /\ Arrive([kind |-> "memory.create", project |-> project,
                     tags |-> tags, id |-> NoId])
          /\ Decide("memory.create", "inserting") \/ Refuse("memory.create")
          /\ UNCHANGED <<policy, memories, projects, activeProject>>
    BY <1>6 DEF ProposeMemory
  <2>3. project \in Projects
    BY <1>2, <2>1
  <2> QED
    BY <1>3, <2>2, <2>3
<1>7. CASE IgnoreProposal
  BY <1>1, <1>7, RejectKeeps DEF IgnoreProposal
<1>8. ASSUME NEW id \in Ids, Archive(id)
      PROVE  BookInv'
  <2> PICK ask : ask = [kind |-> "memory.archive", project |-> Global, tags |-> {}, id |-> id]
    OBVIOUS
  <2>1. ask \in Asks /\ ask.kind = "memory.archive"
    BY DEF Asks
  <2> QED
    BY <1>4, <1>8, <2>1 DEF Archive
<1>9. ASSUME NEW id \in Ids, NEW tag \in Tags, AddTag(id, tag)
      PROVE  BookInv'
  <2> PICK ask : ask = [kind |-> "memory.tag", project |-> Global, tags |-> {tag}, id |-> id]
    OBVIOUS
  <2>1. ask \in Asks /\ ask.kind = "memory.tag"
    BY DEF Asks
  <2> QED
    BY <1>4, <1>9, <2>1 DEF AddTag
<1>10. ASSUME NEW slug \in Slugs, CreateProject(slug) \/ UseProject(slug)
       PROVE  BookInv'
  <2>1. /\ pc = "idle"
        /\ UNCHANGED <<policy, memories, pc, target, todo, erred, alive,
                       requests, asked, outcome, audit>>
        /\ projects' \subseteq Slugs /\ activeProject' \in Projects
    BY <1>10 DEF CreateProject, UseProject, jobVars, BookInv, TypeOK, Projects
  <2>2. TypeOK'
    BY <2>1 DEF BookInv, TypeOK
  <2>3. UsedInv' /\ CurrentInv' /\ CreateInv' /\ ChangeInv'
    BY <2>1 DEF BookInv, UsedInv, CurrentInv, CreateInv, ChangeInv, Stored
  <2>4. OneRowPerRequest' /\ SavedIsWhole' /\ TrailIsTrue'
    BY <2>1, NoRowStep, OneRowKeeps, SavedStep, TrailKeeps DEF BookInv, PastKept
  <2> QED
    BY <2>2, <2>3, <2>4 DEF BookInv
<1> QED
  BY <1>5, <1>6, <1>7, <1>8, <1>9, <1>10 DEF Request
------------------------------------------------------------------------------
(* The whole specification.                                                *)

\* The deadline of the message passes.
LEMMA DeadlineKeeps ==
  ASSUME BookInv, DeadlinePasses
  PROVE  BookInv'
<1>1. /\ pc # "idle" /\ alive' = FALSE
      /\ UNCHANGED <<policy, memories, projects, activeProject, pc, target, todo,
                     erred, requests, asked, outcome, audit>>
  BY DEF DeadlinePasses, jobVars
<1>2. TypeOK'
  BY <1>1 DEF BookInv, TypeOK
<1>3. CreateInv' /\ ChangeInv'
  BY <1>1 DEF BookInv, CreateInv, ChangeInv, OwnRow, RowsOf, Stored, Ask
<1> QED
  BY <1>1, <1>2, <1>3, NoRowStep, StatementKeeps DEF BookInv

\* A crash forgets the request; its rows stay and it is never answered.
LEMMA CrashKeeps ==
  ASSUME BookInv, Crash
  PROVE  BookInv'
<1>1. /\ pc' = "idle" /\ target' = NoId /\ todo' = {} /\ erred' = FALSE
      /\ alive' = TRUE /\ activeProject' = Global
      /\ UNCHANGED <<policy, memories, projects, requests, asked, outcome, audit>>
  BY DEF Crash
<1>2. TypeOK'
  BY <1>1 DEF BookInv, TypeOK, Projects
<1>3. RowsStep /\ PastKept
  BY <1>1, NoRowStep DEF BookInv, PastKept
<1>4. UsedInv' /\ OneRowPerRequest' /\ SavedIsWhole' /\ TrailIsTrue'
  BY <1>1, <1>3, UsedKeeps, OneRowKeeps, SavedStep, TrailKeeps
<1> QED
  BY <1>1, <1>2, <1>4, IdleIsFree DEF BookInv

\* The invariant holds of empty tables.
LEMMA BookInitInv == Init => BookInv
<1> SUFFICES ASSUME Init PROVE BookInv
  OBVIOUS
<1>1. \A id \in Ids : ~ Stored(id)
  BY DEF Init, Stored
<1>2. \A r \in Requests : asked[r] = NoAsk /\ outcome[r] = "none"
  BY DEF Init
<1>3. TypeOK
  <2>1. /\ memories \in [Ids -> Rows \cup {NoRow}]
        /\ asked \in [Requests -> Asks \cup {NoAsk}]
        /\ outcome \in [Requests -> {"none", "done", "error", "refused", "answered"}]
    BY DEF Init
  <2>2. activeProject \in Projects /\ requests \in 0 .. MaxRequests
    BY BoundAssumption DEF Init, Projects
  <2> QED
    BY <2>1, <2>2 DEF Init, TypeOK
<1>4. UsedInv /\ CurrentInv /\ CreateInv /\ ChangeInv
  BY <1>1, <1>2 DEF Init, UsedInv, CurrentInv, CreateInv, ChangeInv
<1>5. OneRowPerRequest /\ SavedIsWhole /\ TrailIsTrue
  BY <1>1, <1>2 DEF Init, OneRowPerRequest, SavedIsWhole, TrailIsTrue, RowsOf
<1> QED
  BY <1>3, <1>4, <1>5 DEF BookInv

\* Every step preserves it.
LEMMA BookNextInv == BookInv /\ [Next]_vars => BookInv'
<1> SUFFICES ASSUME BookInv, [Next]_vars PROVE BookInv'
  OBVIOUS
<1>1. CASE Request
  BY <1>1, RequestKeeps
<1>2. CASE InsertRow \/ InsertFails \/ TagsDone \/ RecordMemory
  BY <1>2, InsertRowKeeps, InsertFailsKeeps, TagsDoneKeeps, RecordMemoryKeeps
<1>3. CASE \E tag \in Tags : InsertTag(tag) \/ InsertTagFails(tag)
  BY <1>3, InsertTagKeeps, InsertTagFailsKeeps
<1>4. CASE Update \/ UpdateFails \/ ReadBack \/ ReadBackFails
  BY <1>4, UpdateKeeps, UpdateFailsKeeps, ReadBackKeeps, ReadBackFailsKeeps
<1>5. CASE DeadlinePasses
  BY <1>5, DeadlineKeeps
<1>6. CASE Crash
  BY <1>6, CrashKeeps
<1>7. CASE UNCHANGED vars
  <2>1. TypeOK' /\ UsedInv' /\ CurrentInv'
    BY <1>7 DEF vars, BookInv, TypeOK, UsedInv, CurrentInv, Stored
  <2>2. CreateInv' /\ ChangeInv'
    BY <1>7
    DEF vars, BookInv, CreateInv, ChangeInv, OwnRow, RowsOf, Stored, Ask
  <2>3. OneRowPerRequest' /\ SavedIsWhole' /\ TrailIsTrue'
    <3>1. UNCHANGED <<memories, requests, asked, outcome, audit>>
      BY <1>7 DEF vars
    <3> QED
      BY <3>1, NoRowStep, OneRowKeeps, SavedStep, TrailKeeps DEF BookInv, PastKept
  <2> QED
    BY <2>1, <2>2, <2>3 DEF BookInv
<1> QED
  BY <1>1, <1>2, <1>3, <1>4, <1>5, <1>6, <1>7 DEF Next, Statement

\* The invariant holds in every state.
LEMMA BookCorrect == Spec => []BookInv
BY BookInitInv, BookNextInv, PTL DEF Spec

\* The variables of the memory commands and their tables have their types:
\* an update or a tag never leaves a row that AddMemory could not have made.
THEOREM MemoryTyped == Spec => []TypeOK
<1>1. BookInv => TypeOK
  BY DEF BookInv
<1> QED
  BY <1>1, BookCorrect, PTL

\* A user who is told `Memory saved' has it whole, in the project asked for and
\* with all tags, ever after (createMemory, AddMemory).
THEOREM SavedIsWholeHolds == Spec => []SavedIsWhole
<1>1. BookInv => SavedIsWhole
  BY DEF BookInv
<1> QED
  BY <1>1, BookCorrect, PTL

\* No request leaves two rows, whatever statement fails and whether or not it
\* took effect, and none but a request for a memory leaves one.
THEOREM OneRowHolds == Spec => []OneRowPerRequest
<1>1. BookInv => OneRowPerRequest
  BY DEF BookInv
<1> QED
  BY <1>1, BookCorrect, PTL

\* The audit trail never claims what did not happen, and what it claims stays
\* true; a rejected request leaves no row and no second event.
THEOREM TrailIsTrueHolds == Spec => []TrailIsTrue
<1>1. BookInv => TrailIsTrue
  BY DEF BookInv
<1> QED
  BY <1>1, BookCorrect, PTL
==============================================================================
