------------------------------- MODULE MCRecall -------------------------------
(***************************************************************************)
(* Instances of Recall for TLC.                                            *)
(***************************************************************************)
EXTENDS Recall, TLC

CONSTANTS m1, m2, r1, r2, r3, r4

\* One project, typed in two ways, and two texts: the question occurs in
\* one; the other, more important, is merely near.  One question mentions the
\* project.
MCSlugs == {"lab", "Lab"}
MCNormalForm == ("lab" :> "lab") @@ ("Lab" :> "lab") @@ ("" :> "")
MCTexts == {"named", "near"}
MCImportance == ("named" :> 1) @@ ("near" :> 2)
MCQuestions == {"named?", "named in lab?"}
MCMentions == ("named?" :> {}) @@ ("named in lab?" :> {"lab"})
MCHolds == [q \in MCQuestions |-> {"named"}]
MCNear == [q \in MCQuestions |-> ("named" :> 0) @@ ("near" :> 1)]
MCModels == {m1, m2}
MCSameLength == {{m1, m2}}
MCIds == {r1, r2, r3, r4}
RecallSymmetry == Permutations(MCIds) \cup Permutations(MCModels)
==============================================================================
