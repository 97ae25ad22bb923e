---------------------------- MODULE MCMemoryBook ----------------------------
(***************************************************************************)
(* Instances of MemoryBook for TLC.                                        *)
(***************************************************************************)
EXTENDS MemoryBook

OneSlug == {"my-lab"}
TwoSlugs == {"my_lab", "my-lab"}

\* normalizeProjectSlug on these slugs: `_' becomes `-', global is no project.
Normal(s) ==
  IF s = "my_lab" THEN "my-lab" ELSE IF s = "global" THEN Global ELSE s

MCNormalForm == [s \in Slugs \cup {Global} |-> Normal(s)]
==============================================================================
