-------------------------------- MODULE Recall --------------------------------
(***************************************************************************)
(* What the assistant remembers when it is asked: /ask, /askmem and        *)
(* /memories of src/internal/core/memory.go over SearchMemories of         *)
(* src/internal/adapters/storage/postgres_memory.go, with the embedder of  *)
(* src/internal/adapters/llm/ollama.go, which may be missing, fail, or be  *)
(* another one than the rows were embedded with.                           *)
(*                                                                         *)
(* A command is one step: messages are handled one at a time, and nobody   *)
(* else writes the table.  What it takes to write a row is the subject of  *)
(* MemoryBook.  A question and a text are related by what the searches     *)
(* make of them: does the text contain the question, and how near are      *)
(* their embeddings.                                                       *)
(***************************************************************************)
EXTENDS Naturals, FiniteSets, FiniteSetsExt

CONSTANTS
  Slugs,       \* the project names a user may type
  Global,      \* the empty slug: no project
  NormalForm,  \* normalizeProjectSlug as a table
  Mentions,    \* Mentions[q]: the projects whose aliases occur in question q
  Texts,       \* the texts of memories
  Importance,  \* Importance[t]: the importance given with text t
  Questions,   \* what is asked
  Holds,       \* Holds[q]: the texts that contain q literally
  Near,        \* Near[q][t]: their similarity under one model, 0 if none
  Models,      \* the embedding models
  NoModel,     \* no embedder, or a row without an embedding
  SameLength,  \* the sets of models whose vectors have the same length
  Ids,         \* the ids of memories
  NoRow,       \* the row of an id not in use
  ScopeLimit,  \* rows /ask takes from each of its two searches (3)
  PromptLimit, \* rows /ask puts before a question (5)
  SearchLimit, \* rows /askmem and /memories take (5)
  MaxForgets   \* bound on the archived rows

Projects == Slugs \cup {Global}

Scores == UNION {{Near[q][t] : t \in Texts} : q \in Questions}

ASSUME ScopeAssumption ==
  /\ Global \notin Slugs
  /\ NormalForm \in [Projects -> Projects]
  /\ NormalForm[Global] = Global
  /\ \A s \in Slugs : NormalForm[NormalForm[s]] = NormalForm[s]
  /\ Mentions \in [Questions -> SUBSET ({NormalForm[s] : s \in Slugs} \ {Global})]

ASSUME TextAssumption ==
  /\ Importance \in [Texts -> Nat]
  /\ Holds \in [Questions -> SUBSET Texts]
  /\ Near \in [Questions -> [Texts -> Nat]]

ASSUME ModelAssumption ==
  /\ NoModel \notin Models
  /\ SameLength \subseteq SUBSET Models

ASSUME LimitAssumption ==
  /\ ScopeLimit \in Nat \ {0}
  /\ PromptLimit \in Nat
  /\ SearchLimit \in Nat \ {0}
  /\ ScopeLimit < PromptLimit
  /\ MaxForgets \in Nat

Rows == [project : Projects, text : Texts, vector : Models \cup {NoModel},
         status : {"active", "archived"}]

\* The table has a size.
ASSUME RowAssumption ==
  /\ IsFiniteSet(Ids)
  /\ NoRow \notin Rows

Kinds == {"ask", "askmem", "memories"}

VARIABLES
  memories,      \* the table memories
  activeProject, \* Assistant.activeProject; it lives in memory
  embedder,      \* the model of Assistant.embedder, NoModel when there is none
  recalled       \* the command underway and the rows it found, if it did not fail

vars == <<memories, activeProject, embedder, recalled>>

NoRecall == [kind |-> "none", question |-> "", project |-> Global, used |-> {}]

Failure == [NoRecall EXCEPT !.kind = "failed"]

Stored(id) == memories[id] # NoRow

TypeOK ==
  /\ memories \in [Ids -> Rows \cup {NoRow}]
  /\ activeProject \in Projects
  /\ embedder \in Models \cup {NoModel}
  /\ recalled \in {NoRecall, Failure} \/
       /\ recalled.kind \in Kinds
       /\ recalled.question \in Questions
       /\ recalled.project \in Projects
       /\ recalled.used \subseteq Ids

Init ==
  /\ memories = [id \in Ids |-> NoRow]
  /\ activeProject = Global
  /\ embedder \in Models \cup {NoModel}
  /\ recalled = NoRecall
------------------------------------------------------------------------------
(* SearchMemories.                                                         *)

\* The filter of a search; every caller asks for active memories.  The kinds
\* and tags that /memories may ask for narrow it like a project does.
Filter(q, project, withGlobal, onlyGlobal, limit) ==
  [question |-> q, project |-> project, withGlobal |-> withGlobal,
   onlyGlobal |-> onlyGlobal, limit |-> limit]

\* The WHERE clause both searches share.
Passes(row, f) ==
  /\ row.status = "active"
  /\ \/ f.project \in {Global, row.project}
     \/ f.withGlobal /\ row.project = Global
  /\ f.onlyGlobal => row.project = Global

\* Rows whose vectors are of another model and yet of the right length: their
\* similarity says nothing.
Stale ==
  {id \in Ids : /\ Stored(id)
                /\ memories[id].vector # embedder
                /\ {memories[id].vector, embedder} \in SameLength}

\* The rows of a search that have an embedding.
Embedded(f) ==
  {id \in Ids : /\ Stored(id)
                /\ Passes(memories[id], f)
                /\ memories[id].vector # NoModel}

\* cosineSimilarity of each of them with the question; 0 for a vector of
\* another length.
Scorings(f) ==
  {[id \in Embedded(f) |->
      IF id \in Stale THEN junk[id]
      ELSE IF memories[id].vector = embedder
      THEN Near[f.question][memories[id].text] ELSE 0] :
     junk \in [Stale \cap Embedded(f) -> Scores]}

\* The first rows of a ranking, as sets: which equals come first is open.
Best(rank, limit) ==
  LET found == DOMAIN rank IN
  {rows \in kSubset(Min({limit, Cardinality(found)}), found) :
     \A id \in rows, other \in found \ rows : rank[id] >= rank[other]}

ImportanceOf(id) == Importance[memories[id].text]

TopImportance == Max({Importance[t] : t \in Texts})

\* ILIKE, most important first.
Lexical(f) ==
  LET found == {id \in Ids : /\ Stored(id)
                             /\ Passes(memories[id], f)
                             /\ memories[id].text \in Holds[f.question]}
  IN  Best([id \in found |-> ImportanceOf(id)], f.limit)

\* searchMemoriesSemantic: rows with an embedding at a positive angle, the
\* nearest first, then the most important.
Nearest(score, limit) ==
  LET found == {id \in DOMAIN score : score[id] > 0} IN
  Best([id \in found |-> score[id] * (TopImportance + 1) + ImportanceOf(id)],
       limit)

Semantic(f) == UNION {Nearest(score, f.limit) : score \in Scorings(f)}

\* Seeded fault: what the embeddings do not find is not looked up.
SearchWithoutFallback(f, embedded) ==
  IF embedded THEN Semantic(f) ELSE Lexical(f)

\* The embeddings first, if the question has one; the words when they find
\* nothing.
SearchMemories(f, embedded) ==
  LET near == IF embedded THEN Semantic(f) ELSE {{}} IN
  (near \ {{}}) \cup (IF {} \in near THEN Lexical(f) ELSE {})
------------------------------------------------------------------------------
(* The commands that recall.                                               *)

\* projectForText: the project in use, else any one whose alias is mentioned.
ProjectsForText(q) ==
  IF activeProject # Global THEN {NormalForm[activeProject]}
  ELSE IF Mentions[q] = {} THEN {Global} ELSE Mentions[q]

Recalled(kind, q, project, used) ==
  /\ recalled = NoRecall
  /\ recalled' = [kind |-> kind, question |-> q, project |-> project,
                  used |-> used]
  /\ UNCHANGED <<memories, activeProject, embedder>>

\* Seeded fault: the prompt is filled with what belongs to no project first.
RelevantGlobalFirst(q, project, embedded) ==
  UNION {{global \cup ofProject :
            ofProject \in
              IF project = Global \/ Cardinality(global) = PromptLimit THEN {{}}
              ELSE SearchMemories(
                     Filter(q, project, FALSE, FALSE,
                            PromptLimit - Cardinality(global)),
                     embedded)} :
         global \in SearchMemories(Filter(q, Global, FALSE, TRUE, PromptLimit),
                                  embedded)}

\* Seeded fault: the prompt takes all that the two searches return.
RelevantUncut(q, project, embedded) ==
  UNION {{global \cup ofProject :
            ofProject \in
              IF project = Global THEN {{}}
              ELSE SearchMemories(Filter(q, project, FALSE, FALSE, ScopeLimit),
                                  embedded)} :
         global \in SearchMemories(Filter(q, Global, FALSE, TRUE, ScopeLimit),
                                  embedded)}

\* retrieveRelevantMemories: a search of what belongs to no project, then one
\* of the project for the text.  Without an embedding of the question they are
\* literal, whatever the reason.  No row is found by both, so that
\* uniqueMemories cuts off the last rows of the second.
Relevant(q, project, embedded) ==
  UNION {{global \cup ofProject :
            ofProject \in
              IF project = Global THEN {{}}
              ELSE SearchMemories(
                     Filter(q, project, FALSE, FALSE,
                            Min({ScopeLimit, PromptLimit - Cardinality(global)})),
                     embedded)} :
         global \in SearchMemories(Filter(q, Global, FALSE, TRUE, ScopeLimit),
                                  embedded)}

\* /ask, and every text that turns out to be a question.
Ask(q) ==
  \E project \in ProjectsForText(q), embedded \in {FALSE, embedder # NoModel} :
    \E used \in Relevant(q, project, embedded) :
      Recalled("ask", q, activeProject, used)

\* handleAskWithMemory: here the question fails with its embedding.
AskMem(q) ==
  \E used \in SearchMemories(Filter(q, activeProject, TRUE, FALSE, SearchLimit),
                             embedder # NoModel) :
    Recalled("askmem", q, activeProject, used)

\* handleMemories: words only, in the project that is named or in use; without
\* one, in all of them.
ListMemories(q, named) ==
  LET project == IF named = Global THEN activeProject ELSE named IN
  \E used \in Lexical(Filter(q, project, FALSE, FALSE, SearchLimit)) :
    Recalled("memories", q, project, used)

\* A search that fails, or the embedder under /askmem: whichever command it is,
\* it answers with an error.
Fail ==
  /\ recalled = NoRecall
  /\ recalled' = Failure
  /\ UNCHANGED <<memories, activeProject, embedder>>

\* The answer is sent, or the question goes to the model with what was found.
Reply ==
  /\ recalled # NoRecall
  /\ recalled' = NoRecall
  /\ UNCHANGED <<memories, activeProject, embedder>>
------------------------------------------------------------------------------
(* The commands that write, as far as recalling depends on them.           *)

\* createMemory: without an embedder, or when it fails, the row is stored
\* without a vector.  The project is the normal form of a slug.
Remember(id, project, t) ==
  /\ recalled = NoRecall
  /\ ~ Stored(id)
  /\ \E vector \in {NoModel, embedder} :
       memories' = [memories EXCEPT ![id] =
         [project |-> project, text |-> t, vector |-> vector,
          status |-> "active"]]
  /\ UNCHANGED <<activeProject, embedder, recalled>>

Archived == {id \in Ids : Stored(id) /\ memories[id].status = "archived"}

Forget(id) ==
  /\ recalled = NoRecall
  /\ Stored(id)
  /\ Cardinality(Archived) < MaxForgets
  /\ memories' = [memories EXCEPT ![id].status = "archived"]
  /\ UNCHANGED <<activeProject, embedder, recalled>>

\* useProject keeps the slug as it was typed.
UseProject(slug) ==
  /\ recalled = NoRecall
  /\ activeProject' = slug
  /\ UNCHANGED <<memories, embedder, recalled>>

\* The process starts again, perhaps with another embedding model.  One that
\* dies with a command underway has changed nothing by it.
Restart ==
  /\ recalled = NoRecall
  /\ embedder' \in Models \cup {NoModel}
  /\ activeProject' = Global
  /\ UNCHANGED <<memories, recalled>>

Next ==
  \/ \E q \in Questions :
       \/ Ask(q)
       \/ AskMem(q)
       \/ \E named \in Projects : ListMemories(q, named)
  \/ \E id \in Ids :
       \/ Forget(id)
       \/ \E project \in {NormalForm[s] : s \in Projects}, t \in Texts :
            Remember(id, project, t)
  \/ \E slug \in Slugs : UseProject(slug)
  \/ Fail
  \/ Reply
  \/ Restart

Spec == Init /\ [][Next]_vars
------------------------------------------------------------------------------
(* Properties.                                                             *)

Answered(kind) == recalled.kind = kind

Used == recalled.used

\* The projects a command may see, that of no project among them.
Visible(kind) ==
  LET project == recalled.project
      mentioned == Mentions[recalled.question] IN
  CASE kind = "ask" -> IF project = Global THEN mentioned \cup {Global}
                       ELSE {NormalForm[project], Global}
    [] kind = "askmem" -> IF project = Global THEN Projects
                          ELSE {project, Global}
    [] kind = "memories" -> IF project = Global THEN Projects ELSE {project}

\* Active rows a command may see that contain its question literally.
Named(projects) ==
  {id \in Ids : /\ Stored(id)
                /\ memories[id].status = "active"
                /\ memories[id].project \in projects
                /\ memories[id].text \in Holds[recalled.question]}

\* Nothing that was forgotten, and nothing of a project that is not asked
\* about, reaches a prompt or a list, and no more rows than the limit do.
RecallInScope ==
  recalled.kind \in Kinds =>
    /\ \A id \in Used :
         /\ Stored(id)
         /\ memories[id].status = "active"
         /\ memories[id].project \in Visible(recalled.kind)
    /\ Cardinality(Used) <= IF recalled.kind = "ask" THEN PromptLimit
                             ELSE SearchLimit

\* A memory that contains the question is a reason not to come back with empty
\* hands: whichever embedder wrote the rows, and whether it answers now, each
\* search that could see it finds something.
NamedIsRecalled ==
  /\ Answered("askmem") /\ Named(Visible("askmem")) # {} => Used # {}
  /\ Answered("memories") /\ Named(Visible("memories")) # {} => Used # {}
  /\ Answered("ask") /\ Named({Global}) # {} =>
       \E id \in Used : memories[id].project = Global

\* However much there is to say about no project, the project in use keeps a
\* place in the prompt of a question its memories name.
ProjectHasItsPlace ==
  Answered("ask") /\ activeProject # Global
    /\ Named({NormalForm[activeProject]}) # {} =>
      \E id \in Used : memories[id].project = NormalForm[activeProject]
==============================================================================
