---------------------------- MODULE MCEmailReview ----------------------------
(***************************************************************************)
(* Instances of EmailReview for TLC.                                       *)
(***************************************************************************)
EXTENDS EmailReview, TLC

CONSTANTS p1, p2

TwoPeople == {p1, p2}
MCFrom == (1 :> p1) @@ (2 :> p2)

MCCategories == {"Other"}
NoneUrgent == {}

\* The default engine, and one denial each; `confirm' is treated as `allow'.
MCPolicies ==
  {[type \in MailTypes |-> DefaultDecide(type)],
   [type \in MailTypes |-> IF type = "email.label" THEN "deny" ELSE "confirm"],
   [type \in MailTypes |-> IF type = "email.label" THEN "confirm" ELSE "deny"]}

\* No known label; one the model made up beside one it knows, with a proposal
\* about the sender; an important message without a category, with an invalid
\* proposal.
MCClassifications ==
  {[labels |-> {"Bad"}, important |-> FALSE, proposal |-> "valid"],
   [labels |-> {"Bad", "Other"}, important |-> FALSE, proposal |-> "valid"],
   [labels |-> {Reviewed}, important |-> TRUE, proposal |-> "invalid"]}
==============================================================================
