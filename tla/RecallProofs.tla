----------------------------- MODULE RecallProofs -----------------------------
(***************************************************************************)
(* What the assistant recalls, for every table of memories, every question *)
(* and every pair of limits of which the one per search is the smaller:    *)
(* nothing out of scope and no more than the limit, and never nothing when *)
(* a memory names the question, whatever the embeddings make of it.        *)
(***************************************************************************)
EXTENDS Recall, FiniteSetTheorems, TLAPS

\* The rows a search may return.
Seen(f) == {id \in Ids : Stored(id) /\ Passes(memories[id], f)}

\* Those among them that contain the question literally.
SeenNamed(f) == {id \in Seen(f) : memories[id].text \in Holds[f.question]}

\* Active rows of some projects that contain a question.
NamedBy(q, projects) ==
  {id \in Ids : /\ Stored(id)
                /\ memories[id].status = "active"
                /\ memories[id].project \in projects
                /\ memories[id].text \in Holds[q]}

\* Active rows of some projects, whatever they contain.
ActiveOf(projects) ==
  {id \in Ids : /\ Stored(id)
                /\ memories[id].status = "active"
                /\ memories[id].project \in projects}

\* What a search promises its caller.
Found(rows, f) ==
  /\ rows \subseteq Seen(f)
  /\ IsFiniteSet(rows)
  /\ Cardinality(rows) <= f.limit
  /\ SeenNamed(f) # {} => rows # {}

\* What is put before a question about a project.
Backed(used, q, project) ==
  /\ used \subseteq ActiveOf({Global, project})
  /\ Cardinality(used) <= PromptLimit
  /\ NamedBy(q, {Global}) # {} => \E id \in used : memories[id].project = Global
  /\ NamedBy(q, {project}) # {} => \E id \in used : memories[id].project = project

RecallInv ==
  /\ TypeOK
  /\ RecallInScope
  /\ NamedIsRecalled
  /\ ProjectHasItsPlace
------------------------------------------------------------------------------
(* The searches.                                                           *)

\* The smaller of two limits.
LEMMA SmallerOf ==
  ASSUME NEW a \in Nat, NEW b \in Nat
  PROVE  Min({a, b}) = IF a <= b THEN a ELSE b
<1>1. \E x \in {a, b} : \A y \in {a, b} : x <= y
  OBVIOUS
<1>2. Min({a, b}) \in {a, b} /\ \A y \in {a, b} : Min({a, b}) <= y
  BY <1>1 DEF Min
<1>. QED BY <1>2

\* The first rows of a ranking are some of its rows, as many as the limit
\* allows, and there are some if there is any.
LEMMA BestRows ==
  ASSUME NEW rank, IsFiniteSet(DOMAIN rank), NEW limit \in Nat,
         NEW rows \in Best(rank, limit)
  PROVE  /\ rows \subseteq DOMAIN rank
         /\ IsFiniteSet(rows)
         /\ Cardinality(rows) <= limit
         /\ rows = {} => limit = 0 \/ DOMAIN rank = {}
<1>. DEFINE size == Min({limit, Cardinality(DOMAIN rank)})
<1>1. Cardinality(DOMAIN rank) \in Nat
  BY FS_CardinalityType
<1>2. rows \subseteq DOMAIN rank /\ Cardinality(rows) = size
  BY DEF Best, kSubset
<1>3. IsFiniteSet(rows)
  BY <1>2, FS_Subset
<1>4. size = IF limit <= Cardinality(DOMAIN rank) THEN limit
             ELSE Cardinality(DOMAIN rank)
  BY <1>1, SmallerOf
<1>5. Cardinality(rows) <= limit
  BY <1>1, <1>2, <1>4
<1>6. ASSUME rows = {}
      PROVE  limit = 0 \/ DOMAIN rank = {}
  <2>1. size = 0
    BY <1>2, <1>6, FS_EmptySet
  <2>2. QED BY <1>1, <1>4, <2>1, FS_EmptySet
<1>. QED BY <1>2, <1>3, <1>5, <1>6

\* The literal search finds what contains the question.
LEMMA LexicalFinds ==
  ASSUME NEW f, f.limit \in Nat \ {0}, NEW rows \in Lexical(f)
  PROVE  Found(rows, f)
<1>. DEFINE rank == [id \in SeenNamed(f) |-> ImportanceOf(id)]
<1>1. SeenNamed(f) = {id \in Ids : /\ Stored(id)
                                   /\ Passes(memories[id], f)
                                   /\ memories[id].text \in Holds[f.question]}
  BY DEF SeenNamed, Seen
<1>2. rows \in Best(rank, f.limit)
  BY <1>1 DEF Lexical
<1>3. DOMAIN rank = SeenNamed(f) /\ SeenNamed(f) \subseteq Seen(f)
  BY DEF SeenNamed
<1>4. IsFiniteSet(DOMAIN rank)
  BY <1>1, <1>3, RowAssumption, FS_Subset
<1>. HIDE DEF rank
<1>5. /\ rows \subseteq DOMAIN rank
      /\ IsFiniteSet(rows)
      /\ Cardinality(rows) <= f.limit
      /\ rows = {} => f.limit = 0 \/ DOMAIN rank = {}
  BY <1>2, <1>4, BestRows
<1>. QED BY <1>3, <1>5 DEF Found

\* So does the other, among what it may see, and it may come back with nothing.
LEMMA SemanticFinds ==
  ASSUME NEW f, f.limit \in Nat \ {0}, NEW rows \in Semantic(f)
  PROVE  /\ rows \subseteq Seen(f)
         /\ IsFiniteSet(rows)
         /\ Cardinality(rows) <= f.limit
<1>1. PICK score \in Scorings(f) : rows \in Nearest(score, f.limit)
  BY DEF Semantic
<1>. DEFINE found == {id \in DOMAIN score : score[id] > 0}
            rank == [id \in found |->
                       score[id] * (TopImportance + 1) + ImportanceOf(id)]
<1>2. DOMAIN score = Embedded(f)
  BY <1>1 DEF Scorings
<1>3. DOMAIN rank = found /\ found \subseteq Seen(f) /\ found \subseteq Ids
  BY <1>2 DEF Embedded, Seen
<1>4. IsFiniteSet(DOMAIN rank)
  BY <1>3, RowAssumption, FS_Subset
<1>5. rows \in Best(rank, f.limit)
  BY <1>1 DEF Nearest
<1>. HIDE DEF rank, found
<1>6. /\ rows \subseteq DOMAIN rank
      /\ IsFiniteSet(rows)
      /\ Cardinality(rows) <= f.limit
  BY <1>4, <1>5, BestRows
<1>. QED BY <1>3, <1>6

\* SearchMemories finds something when a row it may see contains the question.
LEMMA SearchFinds ==
  ASSUME NEW f, f.limit \in Nat \ {0}, NEW embedded,
         NEW rows \in SearchMemories(f, embedded)
  PROVE  Found(rows, f)
<1>1. CASE rows \in Semantic(f) /\ rows # {}
  BY <1>1, SemanticFinds DEF Found
<1>2. CASE rows \in Lexical(f)
  BY <1>2, LexicalFinds
<1>. QED BY <1>1, <1>2 DEF SearchMemories
------------------------------------------------------------------------------
(* The commands.                                                           *)

\* What the rows before a question are: at least one of no project that names
\* it, if there is one, and at least one of the project at hand.
LEMMA RelevantFinds ==
  ASSUME TypeOK, NEW q \in Questions, NEW project \in Projects,
         NEW embedded,
         NEW used \in Relevant(q, project, embedded)
  PROVE  Backed(used, q, project)
<1>. DEFINE f == Filter(q, Global, FALSE, TRUE, ScopeLimit)
            g(global) == Filter(q, project, FALSE, FALSE,
                           Min({ScopeLimit, PromptLimit - Cardinality(global)}))
<1>1. PICK global \in SearchMemories(f, embedded) :
        \E ofProject \in IF project = Global THEN {{}}
                         ELSE SearchMemories(g(global), embedded) :
          used = global \cup ofProject
  BY Zenon DEF Relevant
<1>2. PICK ofProject \in IF project = Global THEN {{}}
                         ELSE SearchMemories(g(global), embedded) :
        used = global \cup ofProject
  BY <1>1, Zenon
<1>3. Found(global, f)
  <2>1. f.limit \in Nat \ {0}
    BY LimitAssumption DEF Filter
  <2>. HIDE DEF f
  <2>2. QED BY <2>1, SearchFinds
<1>4. /\ global \subseteq ActiveOf({Global})
      /\ IsFiniteSet(global)
      /\ Cardinality(global) <= ScopeLimit
      /\ NamedBy(q, {Global}) # {} => global # {}
  <2>1. Seen(f) \subseteq ActiveOf({Global})
    BY DEF Seen, Passes, Filter, ActiveOf
  <2>2. NamedBy(q, {Global}) \subseteq SeenNamed(f)
    BY DEF NamedBy, SeenNamed, Seen, Passes, Filter
  <2>3. f.limit = ScopeLimit
    BY DEF Filter
  <2>. HIDE DEF f
  <2>4. QED BY <1>3, <2>1, <2>2, <2>3 DEF Found
<1>5. Cardinality(global) \in Nat
  BY <1>4, FS_CardinalityType
<1>6. CASE project = Global
  <2>1. used = global
    BY <1>2, <1>6
  <2>2. Cardinality(used) <= PromptLimit
    BY <1>4, <1>5, <2>1, LimitAssumption
  <2>3. QED BY <1>4, <1>6, <2>1, <2>2 DEF Backed, ActiveOf
<1>7. CASE project # Global
  <2>. DEFINE left == Min({ScopeLimit, PromptLimit - Cardinality(global)})
  <2>1. /\ left \in Nat \ {0}
        /\ Cardinality(global) + left <= PromptLimit
    <3>1. PromptLimit - Cardinality(global) \in Nat \ {0} /\ ScopeLimit \in Nat \ {0}
      BY <1>4, <1>5, LimitAssumption
    <3>2. left = IF ScopeLimit <= PromptLimit - Cardinality(global) THEN ScopeLimit
                 ELSE PromptLimit - Cardinality(global)
      BY <3>1, SmallerOf
    <3>3. QED BY <1>5, <3>1, <3>2, LimitAssumption
  <2>2. g(global) = Filter(q, project, FALSE, FALSE, left)
    OBVIOUS
  <2>3. ofProject \in SearchMemories(g(global), embedded)
    BY <1>2, <1>7
  <2>. HIDE DEF left
  <2>4. Found(ofProject, g(global))
    <3>1. g(global).limit \in Nat \ {0}
      BY <2>1, <2>2 DEF Filter
    <3>. HIDE DEF g
    <3>2. QED BY <2>3, <3>1, SearchFinds
  <2>5. /\ ofProject \subseteq ActiveOf({project})
        /\ IsFiniteSet(ofProject)
        /\ Cardinality(ofProject) <= left
        /\ NamedBy(q, {project}) # {} => ofProject # {}
    <3>1. Seen(g(global)) \subseteq ActiveOf({project})
      BY <1>7, <2>2 DEF Seen, Passes, Filter, ActiveOf
    <3>2. NamedBy(q, {project}) \subseteq SeenNamed(g(global))
      BY <2>2 DEF NamedBy, SeenNamed, Seen, Passes, Filter
    <3>3. g(global).limit = left
      BY <2>2 DEF Filter
    <3>. HIDE DEF g
    <3>4. QED BY <2>4, <3>1, <3>2, <3>3 DEF Found
  <2>6. Cardinality(used) <= PromptLimit
    <3>1. /\ Cardinality(used) = Cardinality(global) + Cardinality(ofProject)
                                   - Cardinality(global \cap ofProject)
      BY <1>2, <1>4, <2>5, FS_Union
    <3>2. IsFiniteSet(global \cap ofProject)
      BY <1>4, FS_Subset
    <3>3. /\ Cardinality(ofProject) \in Nat
          /\ Cardinality(global \cap ofProject) \in Nat
      BY <2>5, <3>2, FS_CardinalityType
    <3>4. PromptLimit \in Nat
      BY LimitAssumption
    <3>5. QED BY <1>5, <2>1, <2>5, <3>1, <3>3, <3>4
  <2>7. QED BY <1>2, <1>4, <2>5, <2>6 DEF Backed, ActiveOf
<1>. QED BY <1>6, <1>7

\* The recall of a command shows in the next state what the command found in
\* this one.
LEMMA RecalledIs ==
  ASSUME NEW kind, NEW q, NEW project, NEW used,
         Recalled(kind, q, project, used)
  PROVE  /\ recalled'.kind = kind /\ recalled'.question = q
         /\ recalled'.project = project
         /\ recalled'.used = used
         /\ UNCHANGED <<memories, activeProject, embedder>>
BY DEF Recalled

\* The type of what is recalled.
LEMMA RecalledTyped ==
  ASSUME TypeOK, NEW kind \in Kinds, NEW q \in Questions, NEW project \in Projects,
         NEW used \in SUBSET Ids,
         Recalled(kind, q, project, used)
  PROVE  TypeOK'
BY RecalledIs DEF TypeOK

\* A command that fails has used nothing.
LEMMA FailKeeps ==
  ASSUME RecallInv, Fail
  PROVE  RecallInv'
<1>1. recalled' = Failure /\ recalled'.kind = "failed"
  BY DEF Fail, Failure, NoRecall
<1>2. TypeOK'
  BY <1>1 DEF Fail, RecallInv, TypeOK
<1>. QED
  BY <1>1, <1>2 DEF RecallInv, RecallInScope, NamedIsRecalled,
       ProjectHasItsPlace, Answered, Kinds

\* A question of /ask, with the rows put before it.
LEMMA AskKeeps ==
  ASSUME RecallInv, NEW q \in Questions, Ask(q)
  PROVE  RecallInv'
<1>1. PICK project \in ProjectsForText(q), embedded \in {FALSE, embedder # NoModel} :
        \E used \in Relevant(q, project, embedded) :
          Recalled("ask", q, activeProject, used)
  BY DEF Ask
<1>2. PICK used \in Relevant(q, project, embedded) :
        Recalled("ask", q, activeProject, used)
  BY <1>1
<1>. TypeOK
  BY DEF RecallInv
<1>3. project \in Projects
  BY ScopeAssumption DEF TypeOK, ProjectsForText, Projects
<1>4. /\ used \subseteq ActiveOf({Global, project})
      /\ Cardinality(used) <= PromptLimit
      /\ NamedBy(q, {Global}) # {} =>
           \E id \in used : memories[id].project = Global
      /\ NamedBy(q, {project}) # {} =>
           \E id \in used : memories[id].project = project
  <2>1. Backed(used, q, project)
    BY <1>3, RelevantFinds
  <2>2. QED BY <2>1 DEF Backed
<1>5. /\ recalled'.kind = "ask" /\ recalled'.question = q
      /\ recalled'.project = activeProject /\ recalled'.used = used
      /\ UNCHANGED <<memories, activeProject>>
  BY <1>2 DEF Recalled
<1>6. TypeOK'
  <2>1. activeProject \in Projects /\ used \in SUBSET Ids
    BY <1>4 DEF TypeOK, ActiveOf
  <2>2. "ask" \in Kinds
    BY DEF Kinds
  <2>3. QED BY <1>2, <2>1, <2>2, RecalledTyped, Zenon
<1>7. {Global, project} \subseteq Visible("ask")'
  <2>1. Visible("ask")' = IF activeProject = Global THEN Mentions[q] \cup {Global}
                          ELSE {NormalForm[activeProject], Global}
    BY <1>5, Zenon DEF Visible
  <2>2. QED BY <2>1 DEF ProjectsForText
<1>8. RecallInScope'
  BY <1>4, <1>5, <1>7 DEF RecallInScope, Used, ActiveOf, Stored
<1>9. NamedIsRecalled'
  <2>1. Named({Global})' = NamedBy(q, {Global})
    BY <1>5 DEF Named, NamedBy, Stored
  <2>2. QED BY <1>4, <1>5, <2>1 DEF NamedIsRecalled, Answered, Used
<1>10. ProjectHasItsPlace'
  <2>1. activeProject # Global => project = NormalForm[activeProject]
    BY DEF ProjectsForText
  <2>2. activeProject # Global =>
          Named({NormalForm[activeProject]})' = NamedBy(q, {project})
    BY <1>5, <2>1 DEF Named, NamedBy, Stored
  <2>3. QED BY <1>4, <1>5, <2>1, <2>2 DEF ProjectHasItsPlace, Used
<1>. QED BY <1>6, <1>8, <1>9, <1>10 DEF RecallInv

\* What /askmem and /memories do with what one search has found.
LEMMA SearchKeeps ==
  ASSUME RecallInv, NEW kind \in {"askmem", "memories"}, NEW q \in Questions,
         NEW project \in Projects, NEW f, f.limit = SearchLimit,
         NEW used, Found(used, f), Recalled(kind, q, project, used),
         Seen(f) \subseteq ActiveOf(Visible(kind)'),
         NamedBy(q, Visible(kind)') \subseteq SeenNamed(f)
  PROVE  RecallInv'
<1>1. /\ recalled'.kind = kind /\ recalled'.question = q
      /\ recalled'.project = project /\ recalled'.used = used
      /\ UNCHANGED <<memories, activeProject>>
  BY RecalledIs
<1>2. TypeOK'
  <2>1. used \in SUBSET Ids /\ TypeOK /\ kind \in Kinds
    BY DEF Found, Seen, RecallInv, Kinds
  <2>2. QED BY <2>1, RecalledTyped
<1>3. RecallInScope'
  BY <1>1 DEF RecallInScope, Used, ActiveOf, Stored, Found
<1>4. Named(Visible(kind))' # {} => Used' # {}
  <2>1. Named(Visible(kind))' = NamedBy(q, Visible(kind)')
    BY <1>1 DEF Named, NamedBy, Stored
  <2>2. QED BY <1>1, <2>1 DEF Used, Found
<1>5. NamedIsRecalled'
  BY <1>1, <1>4 DEF NamedIsRecalled, Answered
<1>6. ProjectHasItsPlace'
  BY <1>1 DEF ProjectHasItsPlace, Answered
<1>. QED BY <1>2, <1>3, <1>5, <1>6 DEF RecallInv

\* A question of /askmem.
LEMMA AskMemKeeps ==
  ASSUME RecallInv, NEW q \in Questions, AskMem(q)
  PROVE  RecallInv'
<1>. PICK f : f = Filter(q, activeProject, TRUE, FALSE, SearchLimit)
  OBVIOUS
<1>2. PICK used \in SearchMemories(f, embedder # NoModel) :
        Recalled("askmem", q, activeProject, used)
  BY Zenon DEF AskMem
<1>3. f.limit = SearchLimit /\ Found(used, f)
  BY LimitAssumption, SearchFinds DEF Filter
<1>4. activeProject \in Projects /\ memories \in [Ids -> Rows \cup {NoRow}]
  BY DEF RecallInv, TypeOK
<1>5. Visible("askmem")' = IF activeProject = Global THEN Projects
                           ELSE {activeProject, Global}
  <2>1. recalled'.project = activeProject
    BY <1>2, RecalledIs
  <2>2. QED BY <2>1, Zenon DEF Visible
<1>6. Seen(f) \subseteq ActiveOf(Visible("askmem")')
  BY <1>4, <1>5 DEF Seen, Passes, Filter, ActiveOf, Stored, Rows
<1>7. NamedBy(q, Visible("askmem")') \subseteq SeenNamed(f)
  BY <1>5 DEF NamedBy, SeenNamed, Seen, Passes, Filter
<1>. QED BY <1>2, <1>3, <1>4, <1>6, <1>7, SearchKeeps

\* A list of /memories.
LEMMA ListKeeps ==
  ASSUME RecallInv, NEW q \in Questions, NEW named \in Projects,
         ListMemories(q, named)
  PROVE  RecallInv'
<1>4. activeProject \in Projects /\ memories \in [Ids -> Rows \cup {NoRow}]
  BY DEF RecallInv, TypeOK
<1>. PICK project \in Projects :
       project = IF named = Global THEN activeProject ELSE named
  BY <1>4
<1>. PICK f : f = Filter(q, project, FALSE, FALSE, SearchLimit)
  OBVIOUS
<1>2. PICK used \in Lexical(f) : Recalled("memories", q, project, used)
  BY Zenon DEF ListMemories
<1>3. f.limit = SearchLimit /\ Found(used, f)
  BY LimitAssumption, LexicalFinds DEF Filter
<1>5. Visible("memories")' = IF project = Global THEN Projects ELSE {project}
  <2>1. recalled'.project = project
    BY <1>2, RecalledIs
  <2>2. QED BY <2>1, Zenon DEF Visible
<1>6. Seen(f) \subseteq ActiveOf(Visible("memories")')
  BY <1>4, <1>5 DEF Seen, Passes, Filter, ActiveOf, Stored, Rows
<1>7. NamedBy(q, Visible("memories")') \subseteq SeenNamed(f)
  BY <1>5 DEF NamedBy, SeenNamed, Seen, Passes, Filter
<1>. QED BY <1>2, <1>3, <1>6, <1>7, SearchKeeps

\* A step that recalls nothing, and after which nothing is recalled.
LEMMA QuietKeeps ==
  ASSUME TypeOK', recalled' = NoRecall
  PROVE  RecallInv'
<1>1. recalled'.kind = "none"
  BY DEF NoRecall
<1>. QED BY <1>1 DEF RecallInv, RecallInScope, NamedIsRecalled,
       ProjectHasItsPlace, Answered, Kinds

\* The steps that write keep the types.
LEMMA WritesKeep ==
  ASSUME TypeOK, recalled = NoRecall,
         \/ \E id \in Ids : Forget(id)
         \/ \E id \in Ids :
              \E project \in {NormalForm[s] : s \in Projects}, t \in Texts :
                Remember(id, project, t)
         \/ \E slug \in Slugs : UseProject(slug)
         \/ Restart
  PROVE  RecallInv'
<1>. /\ memories \in [Ids -> Rows \cup {NoRow}]
     /\ activeProject \in Projects
     /\ embedder \in Models \cup {NoModel}
  BY DEF TypeOK
<1>1. ASSUME memories' \in [Ids -> Rows \cup {NoRow}],
             activeProject' \in Projects,
             embedder' \in Models \cup {NoModel},
             recalled' = NoRecall
      PROVE  RecallInv'
  BY <1>1, QuietKeeps DEF TypeOK
<1>2. ASSUME NEW id \in Ids, Forget(id)
      PROVE  RecallInv'
  <2>1. /\ memories[id] \in Rows
        /\ memories' = [memories EXCEPT ![id].status = "archived"]
        /\ UNCHANGED <<activeProject, embedder, recalled>>
    BY <1>2 DEF Forget, Stored
  <2>2. [memories[id] EXCEPT !.status = "archived"] \in Rows
    BY <2>1 DEF Rows
  <2>3. memories' \in [Ids -> Rows \cup {NoRow}]
    BY <2>1, <2>2
  <2>4. QED BY <1>1, <2>1, <2>3
<1>3. ASSUME NEW id \in Ids, NEW project \in {NormalForm[s] : s \in Projects},
             NEW t \in Texts, Remember(id, project, t)
      PROVE  RecallInv'
  <2>1. project \in Projects
    BY ScopeAssumption
  <2>2. PICK vector \in {NoModel, embedder} :
          memories' = [memories EXCEPT ![id] =
            [project |-> project, text |-> t, vector |-> vector,
             status |-> "active"]]
    BY <1>3 DEF Remember
  <2>3. [project |-> project, text |-> t, vector |-> vector,
         status |-> "active"] \in Rows
    BY <2>1 DEF Rows
  <2>4. memories' \in [Ids -> Rows \cup {NoRow}]
    BY <2>2, <2>3
  <2>5. QED BY <1>1, <1>3, <2>4 DEF Remember
<1>4. ASSUME NEW slug \in Slugs, UseProject(slug)
      PROVE  RecallInv'
  BY <1>1, <1>4 DEF UseProject, Projects
<1>5. CASE Restart
  BY <1>1, <1>5 DEF Restart, Projects
<1>. QED BY <1>2, <1>3, <1>4, <1>5

\* The invariant holds at the first start.
LEMMA RecallStarts == Init => RecallInv
<1>. SUFFICES ASSUME Init PROVE RecallInv
  OBVIOUS
<1>1. TypeOK
  BY DEF Init, TypeOK, Projects
<1>2. recalled.kind = "none"
  BY DEF Init, NoRecall
<1>. QED BY <1>1, <1>2 DEF RecallInv, RecallInScope, NamedIsRecalled,
       ProjectHasItsPlace, Answered, Kinds

\* Every step keeps it.
LEMMA RecallSteps == RecallInv /\ [Next]_vars => RecallInv'
<1>. SUFFICES ASSUME RecallInv, [Next]_vars PROVE RecallInv'
  OBVIOUS
<1>. TypeOK
  BY DEF RecallInv
<1>1. ASSUME NEW q \in Questions,
             \/ Ask(q)
             \/ AskMem(q)
             \/ \E named \in Projects : ListMemories(q, named)
      PROVE  RecallInv'
  BY <1>1, AskKeeps, AskMemKeeps, ListKeeps
<1>2. CASE \/ \E id \in Ids : Forget(id)
           \/ \E id \in Ids :
                \E project \in {NormalForm[s] : s \in Projects}, t \in Texts :
                  Remember(id, project, t)
           \/ \E slug \in Slugs : UseProject(slug)
           \/ Restart
  <2>1. recalled = NoRecall
    BY <1>2 DEF Forget, Remember, UseProject, Restart
  <2>2. QED BY <1>2, <2>1, WritesKeep
<1>3. CASE Reply
  <2>1. recalled' = NoRecall /\ UNCHANGED <<memories, activeProject, embedder>>
    BY <1>3 DEF Reply
  <2>2. TypeOK'
    BY <2>1 DEF TypeOK
  <2>3. QED BY <2>1, <2>2, QuietKeeps
<1>4. CASE UNCHANGED vars
  BY <1>4 DEF vars, RecallInv, TypeOK, RecallInScope, NamedIsRecalled,
       ProjectHasItsPlace, Answered, Used, Named, Visible, Stored
<1>. QED BY <1>1, <1>2, <1>3, <1>4, FailKeeps DEF Next

\* The invariant that the theorems are read off.
LEMMA RecallHolds == Spec => []RecallInv
BY RecallStarts, RecallSteps, PTL DEF Spec
------------------------------------------------------------------------------
(* The theorems.                                                           *)

\* The variables have their types.
THEOREM RecallTyped == Spec => []TypeOK
<1>1. RecallInv => TypeOK
  BY DEF RecallInv
<1>. QED BY <1>1, RecallHolds, PTL

\* retrieveRelevantMemories and SearchMemories bring nothing back that was
\* archived or belongs elsewhere, and no more rows than their limits allow.
THEOREM RecallInScopeHolds == Spec => []RecallInScope
<1>1. RecallInv => RecallInScope
  BY DEF RecallInv
<1>. QED BY <1>1, RecallHolds, PTL

\* Every search that could see a memory naming the question finds something,
\* whichever models wrote the vectors: the words are looked up when the
\* embeddings bring nothing.
THEOREM NamedIsRecalledHolds == Spec => []NamedIsRecalled
<1>1. RecallInv => NamedIsRecalled
  BY DEF RecallInv
<1>. QED BY <1>1, RecallHolds, PTL

\* The rows of no project never take all the places before a question: the
\* limit of one search is below that of the prompt.
THEOREM ProjectHasItsPlaceHolds == Spec => []ProjectHasItsPlace
<1>1. RecallInv => ProjectHasItsPlace
  BY DEF RecallInv
<1>. QED BY <1>1, RecallHolds, PTL
==============================================================================
