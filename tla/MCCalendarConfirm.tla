-------------------------- MODULE MCCalendarConfirm --------------------------
(***************************************************************************)
(* Instances of CalendarConfirm for TLC.                                   *)
(***************************************************************************)
EXTENDS CalendarConfirm, TLC

CONSTANTS t1, t2, d1, e1

MCTokens == {t1, t2}
OneToken == {t1}
MCDrafts == {d1}
MCTargets == {e1}

\* No property tells one token from another, and none is about liveness.
TokenSymmetry == Permutations(MCTokens)
==============================================================================
