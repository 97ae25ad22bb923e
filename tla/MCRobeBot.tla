------------------------------ MODULE MCRobeBot ------------------------------
(***************************************************************************)
(* Instances of RobeBot for TLC.                                           *)
(***************************************************************************)
EXTENDS RobeBot

CONSTANTS t1, t2, d1, e1

OneToken == {t1}
MCDrafts == {d1}
NoTargets == {}
==============================================================================
