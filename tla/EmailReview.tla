----------------------------- MODULE EmailReview -----------------------------
(***************************************************************************)
(* The review of unread email: ReviewUnreadEmails of                       *)
(* src/internal/core/email_review.go with the contact proposals of         *)
(* contact.go.  It searches unread messages without the label              *)
(* Robe/Reviewed, classifies each, and either proposes labels (a dry run)  *)
(* or creates and applies them in Gmail, and then stores what was learned  *)
(* about the sender.  Every call to Gmail or to the store may fail, before *)
(* or after it took effect, and one to Gmail may take effect when it has   *)
(* long been given up; the mailbox changes while the review goes on.       *)
(*                                                                         *)
(* A message is its number, larger when newer, and its sender.  Subjects,  *)
(* summaries and links are left out, and a contact is the profile stored   *)
(* about a sender (its rows are the subject of ContactVault).              *)
(***************************************************************************)
EXTENDS Governance, Integers, FiniteSets

CONSTANTS
  MaxEmail,        \* the messages are 1 .. MaxEmail
  People,          \* senders
  From,            \* the sender of each message
  Limit,           \* messages per review
  Categories,      \* the labels Robe/Category/...
  RuleCategories,  \* those the keyword rules choose from
  Urgent,          \* those the rules consider important
  Classifications, \* what the language model may answer
  Policies,        \* the permission engines an assistant may be built with
  MaxFaults,       \* bound on the failures of a behaviour
  AuditMayFail     \* may the insert of an audit event fail for no reason of ours?

Emails == 1 .. MaxEmail

Reviewed == "Robe/Reviewed"

Alerts == {"Robe/Important", "Robe/NeedsAttention"}

\* DefaultEmailReviewLabels.
ReviewLabels == {Reviewed} \cup Alerts \cup Categories

Proposals == {"none", "valid", "invalid"}

ASSUME BoundAssumption ==
  /\ MaxEmail \in Nat /\ Limit \in Nat \ {0} /\ MaxFaults \in Nat
  /\ From \in [Emails -> People]
  /\ AuditMayFail \in BOOLEAN

ASSUME PolicyAssumption == Policies \subseteq [MailTypes -> Decisions]

ASSUME LabelAssumption ==
  /\ RuleCategories \subseteq Categories
  /\ Urgent \subseteq RuleCategories
  /\ \A c \in Classifications : c.important \in BOOLEAN /\ c.proposal \in Proposals

VARIABLES
  policy,    \* the permission engine, fixed when the assistant is built
  inbox,     \* Gmail: is a message unread, read, gone or still to come?
  mailbox,   \* Gmail: the labels of each message
  labels,    \* Gmail: the labels that exist
  profiles,  \* the contact directory: what is stored about a sender
  pc,        \* where ReviewUnreadEmails is
  dry,       \* is this a dry run?
  late,      \* calls that were given up on the way and may still take effect
  found,     \* history: what the latest search has found
  batch,     \* messages found and not yet looked at
  current,   \* the message being reviewed
  result,    \* its classification
  todo,      \* its labels that are still to be looked up or created
  alive,     \* is the deadline of the request still ahead?
  faults,    \* failures still to come
  audit      \* the audit_events table

vars == <<policy, inbox, mailbox, labels, profiles, pc, dry, late, found, batch,
          current, result, todo, alive, faults, audit>>

messageVars == <<current, result, todo>>

stores == <<mailbox, labels, profiles>>

NoEmail == 0

\* What the review asks Gmail to change: the labels of a message, or, about no
\* message, which labels there are.
Calls == [email : Emails \cup {NoEmail}, labels : SUBSET ReviewLabels]

NoResult == [labels |-> {}, proposal |-> "none"]

TypeOK ==
  /\ policy \in Policies
  /\ inbox \in [Emails -> {"absent", "unread", "read", "gone"}]
  /\ mailbox \in [Emails -> SUBSET ReviewLabels]
  /\ labels \subseteq ReviewLabels
  /\ profiles \in [People -> {"none", "known", "profiled"}]
  /\ pc \in {"idle", "picking", "ensuring", "applied", "upserting", "profiling"}
  /\ dry \in BOOLEAN
  /\ late \subseteq Calls
  /\ found \subseteq Emails
  /\ batch \subseteq found
  /\ current \in Emails \cup {NoEmail}
  /\ result.labels \subseteq ReviewLabels /\ result.proposal \in Proposals
  /\ todo \subseteq result.labels
  /\ alive \in BOOLEAN
  /\ faults \in 0 .. MaxFaults
  /\ audit \subseteq Events(Emails \cup People, Emails)

Init ==
  /\ policy \in Policies
  /\ inbox = [e \in Emails |-> "absent"]
  /\ mailbox = [e \in Emails |-> {}]
  /\ labels = {}
  /\ profiles = [p \in People |-> "none"]
  /\ pc = "idle"
  /\ dry = TRUE
  /\ late = {}
  /\ found = {}
  /\ batch = {}
  /\ current = NoEmail
  /\ result = NoResult
  /\ todo = {}
  /\ alive = TRUE
  /\ faults = MaxFaults
  /\ audit = {}
------------------------------------------------------------------------------
(* Classification.                                                         *)

\* classifyEmailForReviewRules: the fallback, one category by keyword.
RuleResults ==
  {[labels |-> {Reviewed, c} \cup IF c \in Urgent THEN Alerts ELSE {},
    proposal |-> "none"] : c \in RuleCategories}

Valid(c) == c.labels \cap ReviewLabels

\* Seeded fault: the labels of the model are not checked.
ClassifiedFreely(c) ==
  [labels |-> c.labels \cup {Reviewed} \cup IF c.important THEN Alerts ELSE {},
   proposal |-> c.proposal]

\* emailReviewResultFromClassification: labels that Robe does not know are
\* dropped, Robe/Reviewed is always there.
Classified(c) ==
  [labels |-> Valid(c) \cup {Reviewed} \cup IF c.important THEN Alerts ELSE {},
   proposal |-> c.proposal]

\* The model's answer, or the rules' when it fails or names no known label.
Reviews ==
  RuleResults \cup {Classified(c) : c \in {d \in Classifications : Valid(d) # {}}}

Decision(type) == policy[type]

LabelEvent(e, outcome) ==
  Event("email.label", Decision("email.label"), outcome, e, e)

ContactEvent(e, decision, outcome) ==
  Event("contact.profile", decision, outcome, From[e], e)

\* Events recorded one after the other: the inserts fail once the deadline has
\* passed, and each may fail anyway.
RecordAudit(events) ==
  \E kept \in SUBSET events :
    /\ alive \/ kept = {}
    /\ kept = events \/ ~ alive \/ AuditMayFail
    /\ audit' = audit \cup kept

\* Nothing is held of the message any more.
NoMessage == current' = NoEmail /\ result' = NoResult /\ todo' = {}

\* The loop goes on to the next message.
Continue == pc' = "picking" /\ NoMessage

\* ReviewUnreadEmails returns.
Return ==
  /\ pc' = "idle"
  /\ NoMessage
  /\ batch' = {}
  /\ dry' = TRUE
  /\ alive' = TRUE

\* A call fails: its deadline has passed, or for a reason of its own.
Fails ==
  \/ ~ alive /\ UNCHANGED faults
  \/ alive /\ faults > 0 /\ faults' = faults - 1
------------------------------------------------------------------------------
(* ReviewUnreadEmails.                                                     *)

\* Seeded fault: reviewed messages are found again.
UnreadOnly == {e \in Emails : inbox[e] = "unread"}

Unreviewed == {e \in Emails : inbox[e] = "unread" /\ Reviewed \notin mailbox[e]}

\* The first page of the search, newest first.
Page ==
  {e \in Unreviewed : Cardinality({f \in Unreviewed : f > e}) < Limit}

Newest(S) == {e \in S : \A f \in S : f <= e}

\* A message that cannot be fetched is skipped; when the search fails there is
\* nothing to review.
Search(dryRun) ==
  /\ pc = "idle"
  /\ dry' = dryRun
  /\ \/ batch' = Page /\ UNCHANGED faults
     \/ batch' \in (SUBSET Page) \ {Page} /\ Fails
  /\ found' = batch'
  /\ pc' = "picking"
  /\ UNCHANGED <<policy, inbox, stores, late, messageVars, alive, audit>>

Pick(e) ==
  /\ pc = "picking"
  /\ e \in Newest(batch)
  /\ batch' = batch \ {e}
  /\ UNCHANGED <<policy, inbox, stores, dry, late, found, alive, faults>>

\* The policy denies: the message is passed over.
Deny(e) ==
  /\ Pick(e)
  /\ Decision("email.label") = "deny"
  /\ RecordAudit({LabelEvent(e, "rejected")})
  /\ UNCHANGED <<pc, messageVars>>

\* auditContactProposalIfPresent.
ProposalEvents(e, proposal) ==
  IF proposal = "none" THEN {}
  ELSE IF proposal = "invalid" THEN {ContactEvent(e, "deny", "rejected")}
  ELSE LET decision == Decision("contact.profile")
       IN  {ContactEvent(e, decision,
                         IF decision = "deny" THEN "rejected" ELSE "proposed")}

\* A dry run only records what it would do.
Propose(e, res) ==
  /\ dry
  /\ Pick(e)
  /\ Decision("email.label") # "deny"
  /\ RecordAudit({LabelEvent(e, "proposed")} \cup ProposalEvents(e, res.proposal))
  /\ UNCHANGED <<pc, messageVars>>

Start(e, res) ==
  /\ current' = e
  /\ result' = res
  /\ todo' = res.labels
  /\ pc' = "ensuring"
  /\ UNCHANGED audit

\* Seeded fault: a dry run goes on to label the message.
BeginAnyway(e, res) ==
  /\ Pick(e)
  /\ Decision("email.label") # "deny"
  /\ Start(e, res)

Begin(e, res) ==
  /\ ~ dry
  /\ Pick(e)
  /\ Decision("email.label") # "deny"
  /\ Start(e, res)

\* EnsureEmailLabel: the label is there or is created.  The loop takes the
\* labels in the order of the classification; which order that is does not
\* matter here.
NextLabel == CHOOSE name \in todo : TRUE

\* The call to Gmail that the message waits for.
Awaited ==
  IF todo # {} THEN [email |-> NoEmail, labels |-> {NextLabel}]
  ELSE [email |-> current, labels |-> result.labels]

\* What a call changes at Gmail: one modification adds all labels to a message.
TakesEffect(call) ==
  IF call.email = NoEmail
  THEN /\ labels' = labels \cup call.labels
       /\ UNCHANGED mailbox
  ELSE /\ inbox[call.email] # "gone"
       /\ mailbox' = [mailbox EXCEPT ![call.email] = @ \cup call.labels]
       /\ UNCHANGED labels

EnsureLabel ==
  /\ pc = "ensuring"
  /\ todo # {}
  /\ alive
  /\ TakesEffect(Awaited)
  /\ todo' = todo \ {NextLabel}
  /\ UNCHANGED <<policy, inbox, profiles, pc, dry, late, found, batch, current,
                 result, alive, faults, audit>>

\* Whoever gives a call up does not know what becomes of it.
MayBeLate == late' = late \/ late' = late \cup {Awaited}

\* A call that returns an error had no effect, has had it, or will have it.
NoAnswer ==
  \/ UNCHANGED <<mailbox, labels, late>>
  \/ alive /\ TakesEffect(Awaited) /\ UNCHANGED late
  \/ alive /\ MayBeLate /\ UNCHANGED <<mailbox, labels>>

\* The review ends with an error; the messages left in the batch wait for the
\* next one.
Abandon ==
  /\ RecordAudit({LabelEvent(current, "failed")})
  /\ Return
  /\ UNCHANGED <<policy, inbox, profiles, found>>

EnsureFails ==
  /\ pc = "ensuring"
  /\ todo # {}
  /\ Fails
  /\ NoAnswer
  /\ Abandon

\* Seeded fault: a call that failed is taken for done.
ApplyFailsUnseen ==
  /\ pc = "ensuring"
  /\ todo = {}
  /\ Fails
  /\ pc' = "applied"
  /\ UNCHANGED <<policy, inbox, stores, dry, late, found, batch, messageVars, alive,
                 audit>>

\* Seeded fault: the labels are forgotten, the contact is not.
ForgetLabels ==
  /\ pc = "ensuring"
  /\ todo = {}
  /\ alive
  /\ pc' = IF result.proposal = "none" THEN "applied" ELSE "upserting"
  /\ UNCHANGED <<policy, inbox, stores, dry, late, found, batch, messageVars, alive,
                 faults, audit>>

\* ApplyEmailLabels: one call adds them all.
ApplyLabels ==
  /\ pc = "ensuring"
  /\ todo = {}
  /\ alive
  /\ TakesEffect(Awaited)
  /\ pc' = "applied"
  /\ UNCHANGED <<policy, inbox, profiles, dry, late, found, batch, messageVars,
                 alive, faults, audit>>

\* Seeded fault: the review goes on to the next message.
ApplyFailsOnward ==
  /\ pc = "ensuring"
  /\ todo = {}
  /\ Fails \/ (inbox[current] = "gone" /\ UNCHANGED faults)
  /\ RecordAudit({LabelEvent(current, "failed")})
  /\ Continue
  /\ UNCHANGED <<policy, inbox, stores, dry, late, found, batch, alive>>

\* The call fails, or the message is gone.
ApplyFails ==
  /\ pc = "ensuring"
  /\ todo = {}
  /\ \/ Fails /\ NoAnswer
     \/ inbox[current] = "gone" /\ UNCHANGED <<mailbox, labels, late, faults>>
  /\ Abandon

RecordLabels ==
  /\ pc = "applied"
  /\ RecordAudit({LabelEvent(current, "executed")})
  /\ IF result.proposal = "none" THEN Continue
     ELSE pc' = "upserting" /\ UNCHANGED messageVars
  /\ UNCHANGED <<policy, inbox, stores, dry, late, found, batch, alive, faults>>
------------------------------------------------------------------------------
(* persistContactProposalIfPresent.                                        *)

Sender == From[current]

\* UpsertEmailContact.
UpsertContact ==
  /\ pc = "upserting"
  /\ alive
  /\ profiles' = [profiles EXCEPT ![Sender] = IF @ = "none" THEN "known" ELSE @]
  /\ pc' = "profiling"
  /\ UNCHANGED <<policy, inbox, mailbox, labels, dry, late, found, batch,
                 messageVars, alive, faults, audit>>

\* Its error is noted in the result of the message, and the review goes on.
UpsertFails ==
  /\ pc = "upserting"
  /\ Fails
  /\ \/ UNCHANGED profiles
     \/ /\ alive
        /\ profiles' = [profiles EXCEPT ![Sender] = IF @ = "none" THEN "known" ELSE @]
  /\ Continue
  /\ UNCHANGED <<policy, inbox, mailbox, labels, dry, late, found, batch, alive,
                 audit>>

Profiling(outcome, decision) ==
  /\ pc = "profiling"
  /\ RecordAudit({ContactEvent(current, decision, outcome)})
  /\ Continue
  /\ UNCHANGED <<policy, inbox, mailbox, labels, dry, late, found, batch, alive>>

\* ApplyContactProfileProposal: the proposal is invalid or denied.
RejectProfile ==
  /\ \/ result.proposal = "invalid" /\ Profiling("rejected", "deny")
     \/ /\ result.proposal = "valid"
        /\ Decision("contact.profile") = "deny"
        /\ Profiling("rejected", "deny")
  /\ UNCHANGED <<profiles, faults>>

\* It is stored; the event says `executed' also when the store returns an error.
StoreProfile ==
  /\ result.proposal = "valid"
  /\ Decision("contact.profile") # "deny"
  /\ \/ alive /\ profiles' = [profiles EXCEPT ![Sender] = "profiled"] /\ UNCHANGED faults
     \/ /\ Fails
        /\ \/ UNCHANGED profiles
           \/ alive /\ profiles' = [profiles EXCEPT ![Sender] = "profiled"]
  /\ Profiling("executed", Decision("contact.profile"))

Finish ==
  /\ pc = "picking"
  /\ batch = {}
  /\ Return
  /\ UNCHANGED <<policy, inbox, stores, late, found, faults, audit>>
------------------------------------------------------------------------------
(* The surroundings.                                                       *)

\* A message arrives, is read, or is deleted.
Mail(e, from, to) ==
  /\ inbox[e] = from
  /\ inbox' = [inbox EXCEPT ![e] = to]
  /\ UNCHANGED <<policy, stores, pc, dry, late, found, batch, messageVars, alive,
                 faults, audit>>

\* A call that was given up takes effect; doing so twice would change nothing more.
LateEffect(call) ==
  /\ call \in late
  /\ TakesEffect(call)
  /\ UNCHANGED <<policy, inbox, profiles, pc, dry, late, found, batch, messageVars,
                 alive, faults, audit>>

DeadlinePasses ==
  /\ pc # "idle"
  /\ alive
  /\ faults > 0
  /\ alive' = FALSE
  /\ faults' = faults - 1
  /\ UNCHANGED late \/ (pc = "ensuring" /\ MayBeLate)
  /\ UNCHANGED <<policy, inbox, stores, pc, dry, found, batch, messageVars, audit>>

Crash ==
  /\ pc # "idle"
  /\ faults > 0
  /\ faults' = faults - 1
  /\ UNCHANGED late \/ (pc = "ensuring" /\ MayBeLate)
  /\ Return
  /\ UNCHANGED <<policy, inbox, stores, found, audit>>

\* The steps of a review that is underway.
Step ==
  \/ \E e \in Emails :
       Deny(e) \/ \E res \in Reviews : Propose(e, res) \/ Begin(e, res)
  \/ EnsureLabel \/ EnsureFails
  \/ ApplyLabels \/ ApplyFails \/ RecordLabels
  \/ UpsertContact \/ UpsertFails \/ RejectProfile \/ StoreProfile
  \/ Finish

Next ==
  \/ Search(TRUE) \/ Search(FALSE)
  \/ Step
  \/ \E e \in Emails :
       Mail(e, "absent", "unread") \/ Mail(e, "unread", "read")
         \/ Mail(e, "unread", "gone")
  \/ \E call \in late : LateEffect(call)
  \/ DeadlinePasses \/ Crash

Spec == Init /\ [][Next]_vars

------------------------------------------------------------------------------
(* Properties.                                                             *)

\* The calls about a message that were given up.
GivenUp(e) == {call \in late : call.email = e}

\* A dry run leaves Gmail and the contacts alone
\* (docs/ARCHITECTURE_GOVERNANCE.md:202); what changes at Gmail meanwhile is the
\* doing of an earlier review in earnest.
DryRunIsInert ==
  [][dry /\ pc # "idle" =>
       /\ UNCHANGED <<profiles, late>>
       /\ UNCHANGED <<mailbox, labels>> \/ \E call \in late : TakesEffect(call)]_vars

\* A message is labelled once, with the labels of one review: a second review
\* only adds its own if the call of the first was given up, and may then find its
\* labels mixed with those of the first.  None lacks Robe/Reviewed or carries
\* what the model made up (docs/ARCHITECTURE_GOVERNANCE.md:94).
ReviewedOnce ==
  [][\A e \in Emails :
       /\ mailbox[e] # {} => mailbox'[e] = mailbox[e] \/ GivenUp(e) # {}
       /\ mailbox'[e] # {} =>
            /\ Reviewed \in mailbox'[e]
            /\ mailbox'[e] \subseteq ReviewLabels]_vars

\* A message of which the trail says that it was labelled is, and the trail does
\* not also say that it was turned down.
ExecutedIsLabelled ==
  \A ev \in audit :
    ev.type = "email.label" /\ ev.result = "executed" =>
      /\ Reviewed \in mailbox[ev.subject]
      /\ \A other \in audit :
           other.type = "email.label" /\ other.subject = ev.subject =>
             other.result # "rejected"

\* A sender becomes a contact only after a message of theirs was reviewed in
\* earnest.
ContactsFollowReview ==
  \A p \in People :
    profiles[p] # "none" =>
      \E e \in Emails : From[e] = p /\ Reviewed \in mailbox[e]

\* A review takes the newest first and ends at the first error: what it leaves
\* is older than all that it has labelled, so that no error hides a message
\* behind ones that are done (ReviewUnreadEmails).
NothingSkipped ==
  policy["email.label"] # "deny" =>
    \A e, f \in found :
      e < f /\ Reviewed \in mailbox[e] /\ Reviewed \notin mailbox[f] =>
        GivenUp(e) # {}
==============================================================================
