-------------------------- MODULE EmailReviewProofs --------------------------
(***************************************************************************)
(* Theorems about EmailReview, for any mailbox and senders, any answers of *)
(* the language model, any permission engine and any number of failures.   *)
(* The review looks only at messages without a label of Robe's, and it     *)
(* adds all labels of a message in one call: what a message carries tells  *)
(* whether it was reviewed, unless a call about it was given up and may    *)
(* still take effect.                                                      *)
(***************************************************************************)
EXTENDS EmailReview, TLAPS

(***************************************************************************)
(* The inductive invariant.                                                *)
(***************************************************************************)

Underway == pc \notin {"idle", "picking"}

\* Only a review in earnest, which the policy admits, gets past the choice of
\* a message; the message is not chosen again.
StageInv ==
  /\ dry => ~ Underway
  /\ Underway =>
       /\ current \in Emails \ batch
       /\ Reviewed \in result.labels
       /\ Decision("email.label") # "deny"

\* Nothing is known to have been done to it, or a call about it was given up.
Untouched(e) == mailbox[e] = {} \/ GivenUp(e) # {}

\* A message has no label, or whole sets of labels with Robe/Reviewed among them.
\* Those still to be looked at have none, unless a call was given up.
MailboxInv ==
  /\ \A e \in Emails : mailbox[e] = {} \/ Reviewed \in mailbox[e]
  /\ \A call \in late : call.email # NoEmail => Reviewed \in call.labels
  /\ \A e \in batch : Untouched(e)
  /\ pc = "ensuring" => Untouched(current)
  /\ pc \in {"applied", "upserting", "profiling"} => Reviewed \in mailbox[current]

\* Events about labels are about messages, and the policy decides which.
TrailInv ==
  \A ev \in audit :
    ev.type = "email.label" =>
      /\ ev.subject \in Emails
      /\ ev.result = "rejected" => Decision("email.label") = "deny"
      /\ ev.result = "executed" =>
           Decision("email.label") # "deny" /\ Reviewed \in mailbox[ev.subject]

\* The messages of the search are taken newest first: those that are left are
\* older than the others, all of which are labelled, but for the one underway.
QueueInv ==
  pc # "idle" /\ ~ dry /\ Decision("email.label") # "deny" =>
    /\ \A e \in batch : \A f \in found \ batch : e < f
    /\ \A f \in found \ batch :
         Reviewed \in mailbox[f] \/ (pc = "ensuring" /\ f = current)

ReviewInv ==
  /\ TypeOK
  /\ StageInv
  /\ MailboxInv
  /\ TrailInv
  /\ ContactsFollowReview
------------------------------------------------------------------------------
(* The operators of the model.                                             *)

\* emailReviewResultFromClassification and classifyEmailForReviewRules: the
\* labels of a result are known ones, with Robe/Reviewed.
LEMMA ReviewsTyped ==
  ASSUME NEW res \in Reviews
  PROVE  /\ res.labels \subseteq ReviewLabels
         /\ Reviewed \in res.labels
         /\ res.proposal \in Proposals
<1>1. CASE res \in RuleResults
  <2>1. PICK c \in RuleCategories :
          res = [labels |-> {Reviewed, c} \cup IF c \in Urgent THEN Alerts ELSE {},
                 proposal |-> "none"]
    BY <1>1 DEF RuleResults
  <2>2. c \in Categories
    BY LabelAssumption
  <2> QED
    BY <2>1, <2>2 DEF ReviewLabels, Proposals
<1>2. CASE res \in {Classified(c) : c \in {d \in Classifications : Valid(d) # {}}}
  <2>1. PICK c \in Classifications : res = Classified(c)
    BY <1>2
  <2>2. c.proposal \in Proposals
    BY LabelAssumption
  <2> QED
    BY <2>1, <2>2 DEF Classified, Valid, ReviewLabels
<1> QED
  BY <1>1, <1>2 DEF Reviews

\* The events of a review are events.
LEMMA EventsTyped ==
  ASSUME TypeOK, NEW e \in Emails
  PROVE  /\ \A outcome \in Results :
              LabelEvent(e, outcome) \in Events(Emails \cup People, Emails)
         /\ \A outcome \in Results, decision \in Decisions :
              ContactEvent(e, decision, outcome) \in Events(Emails \cup People, Emails)
<1>1. policy \in [MailTypes -> Decisions]
  BY PolicyAssumption DEF TypeOK
<1>2. policy["email.label"] \in Decisions /\ From[e] \in People
  BY <1>1, BoundAssumption DEF MailTypes
<1> QED
  BY <1>2
  DEF LabelEvent, ContactEvent, Event, Events, Decision, ActionTypes, MailTypes

\* The proposal of a dry run is recorded as denied or proposed.
LEMMA ProposalEventsTyped ==
  ASSUME TypeOK, NEW e \in Emails, NEW proposal \in Proposals
  PROVE  /\ ProposalEvents(e, proposal) \subseteq Events(Emails \cup People, Emails)
         /\ \A ev \in ProposalEvents(e, proposal) : ev.type = "contact.profile"
<1>1. policy \in [MailTypes -> Decisions]
  BY PolicyAssumption DEF TypeOK
<1>2. Decision("contact.profile") \in Decisions /\ "deny" \in Decisions
  BY <1>1 DEF Decision, MailTypes, Decisions
<1>3. "rejected" \in Results /\ "proposed" \in Results
  BY DEF Results
<1>4. ASSUME NEW ev \in ProposalEvents(e, proposal)
      PROVE  \E decision \in Decisions, outcome \in Results :
               ev = ContactEvent(e, decision, outcome)
  <2>1. CASE proposal = "none"
    BY <1>4, <2>1 DEF ProposalEvents
  <2>2. CASE proposal = "invalid"
    BY <1>2, <1>3, <1>4, <2>2 DEF ProposalEvents
  <2>3. CASE proposal = "valid"
    BY <1>2, <1>3, <1>4, <2>3 DEF ProposalEvents
  <2> QED
    BY <2>1, <2>2, <2>3 DEF Proposals
<1>5. \A decision \in Decisions, outcome \in Results :
        /\ ContactEvent(e, decision, outcome) \in Events(Emails \cup People, Emails)
        /\ ContactEvent(e, decision, outcome).type = "contact.profile"
  BY EventsTyped DEF ContactEvent, Event
<1> QED
  BY <1>4, <1>5
------------------------------------------------------------------------------
(* Steps.                                                                  *)

\* The labels of a message change, all at once, only while it has none or after
\* a call about it was given up, which is not forgotten.
MailboxStep ==
  /\ late \subseteq late'
  /\ \A e \in Emails :
       mailbox'[e] # mailbox[e] =>
         /\ (pc = "ensuring" /\ e = current) \/ GivenUp(e) # {}
         /\ Untouched(e)
         /\ mailbox[e] \subseteq mailbox'[e]
         /\ Reviewed \in mailbox'[e]

\* What the trail says stays true when true events are added.
LEMMA TrailKeeps ==
  ASSUME ReviewInv, UNCHANGED policy, MailboxStep,
         \A ev \in audit' \ audit :
           ev.type = "email.label" =>
             /\ ev.subject \in Emails
             /\ ev.result = "rejected" => Decision("email.label") = "deny"
             /\ ev.result = "executed" =>
                  Decision("email.label") # "deny" /\ Reviewed \in mailbox[ev.subject]
  PROVE  TrailInv'
<1>1. \A e \in Emails : Reviewed \in mailbox[e] => Reviewed \in mailbox'[e]
  BY DEF MailboxStep
<1> QED
  BY <1>1 DEF ReviewInv, TrailInv, Decision

\* Contacts stay those of reviewed senders.
LEMMA ContactsKeep ==
  ASSUME ReviewInv, MailboxStep,
         \A p \in People :
           profiles'[p] = "none" \/ profiles[p] # "none"
             \/ \E e \in Emails : From[e] = p /\ Reviewed \in mailbox[e]
  PROVE  ContactsFollowReview'
<1>1. \A e \in Emails : Reviewed \in mailbox[e] => Reviewed \in mailbox'[e]
  BY DEF MailboxStep
<1> QED
  BY <1>1 DEF ReviewInv, ContactsFollowReview

\* A step that leaves the mailbox alone leaves its part of the invariant alone.
LEMMA MailboxKeeps ==
  ASSUME ReviewInv, UNCHANGED mailbox,
         late \subseteq late',
         \A call \in late' \ late : call.email # NoEmail => Reviewed \in call.labels,
         batch' \subseteq batch,
         \/ pc' \in {"idle", "picking"}
         \/ current' = current /\ pc' = pc
         \/ current' = current /\ Underway /\ pc # "ensuring" /\ pc' # "ensuring"
  PROVE  MailboxStep /\ MailboxInv'
<1>1. \A e \in Emails : Untouched(e) => Untouched(e)'
  BY DEF Untouched, GivenUp
<1>2. batch \subseteq Emails
  BY DEF ReviewInv, TypeOK
<1>3. pc = "ensuring" => current \in Emails
  BY DEF ReviewInv, StageInv, Underway
<1>4. MailboxInv
  BY DEF ReviewInv
<1>5. (\A e \in batch : Untouched(e))'
  BY <1>1, <1>2, <1>4 DEF MailboxInv
<1>6. (pc = "ensuring" => Untouched(current))'
  BY <1>1, <1>3, <1>4 DEF MailboxInv
<1>7. (\A call \in late : call.email # NoEmail => Reviewed \in call.labels)'
  BY <1>4 DEF MailboxInv
<1>8. (\A e \in Emails : mailbox[e] = {} \/ Reviewed \in mailbox[e])'
  BY <1>4 DEF MailboxInv
<1>9. (pc \in {"applied", "upserting", "profiling"} => Reviewed \in mailbox[current])'
  <2> SUFFICES ASSUME pc' \in {"applied", "upserting", "profiling"}
               PROVE  Reviewed \in mailbox'[current']
    OBVIOUS
  <2>1. current' = current /\ pc \in {"applied", "upserting", "profiling"}
    BY DEF Underway, ReviewInv, TypeOK
  <2> QED
    BY <1>4, <2>1 DEF MailboxInv
<1>10. MailboxInv'
  BY <1>5, <1>6, <1>7, <1>8, <1>9 DEF MailboxInv
<1> QED
  BY <1>10 DEF MailboxStep

\* The search finds messages without labels.
LEMMA SearchKeeps ==
  ASSUME ReviewInv, NEW dryRun \in BOOLEAN, Search(dryRun)
  PROVE  ReviewInv' /\ MailboxStep
<1>1. /\ pc = "idle" /\ pc' = "picking" /\ dry' = dryRun
      /\ UNCHANGED <<policy, inbox, mailbox, labels, profiles, late, current,
                     result, todo, alive, audit>>
      /\ batch' \subseteq Page /\ found' = batch'
      /\ UNCHANGED faults \/ Fails
  BY DEF Search, stores, messageVars
<1>2. Page \subseteq Emails /\ \A e \in Page : mailbox[e] = {}
  BY DEF Page, Unreviewed, ReviewInv, MailboxInv
<1>3. faults' \in 0 .. MaxFaults
  BY <1>1, BoundAssumption DEF ReviewInv, TypeOK, Fails
<1>4. TypeOK'
  BY <1>1, <1>2, <1>3 DEF ReviewInv, TypeOK
<1>5. StageInv' /\ MailboxInv' /\ MailboxStep
  BY <1>1, <1>2 DEF ReviewInv, StageInv, Underway, MailboxInv, MailboxStep, Untouched
<1>6. TrailInv' /\ ContactsFollowReview'
  BY <1>1, <1>5, TrailKeeps, ContactsKeep
<1> QED
  BY <1>4, <1>5, <1>6 DEF ReviewInv

\* A message that is passed over, or only spoken of, is left as it is.
LEMMA PassKeeps ==
  ASSUME ReviewInv, NEW e \in Emails, Pick(e), UNCHANGED <<pc, messageVars>>,
         audit' \ audit \subseteq Events(Emails \cup People, Emails),
         \A ev \in audit' \ audit :
           ev.type = "email.label" =>
             /\ ev.subject \in Emails
             /\ ev.result = "rejected" => Decision("email.label") = "deny"
             /\ ev.result # "executed"
  PROVE  ReviewInv' /\ MailboxStep
<1>1. /\ pc = "picking" /\ batch' = batch \ {e}
      /\ UNCHANGED <<policy, inbox, mailbox, labels, profiles, pc, dry, late, found,
                     current, result, todo, alive, faults>>
  BY DEF Pick, stores, messageVars
<1>2. TypeOK'
  BY <1>1 DEF ReviewInv, TypeOK
<1>3. StageInv' /\ MailboxInv' /\ MailboxStep
  BY <1>1, MailboxKeeps DEF ReviewInv, StageInv, Underway
<1>4. TrailInv' /\ ContactsFollowReview'
  BY <1>1, <1>3, TrailKeeps, ContactsKeep
<1> QED
  BY <1>2, <1>3, <1>4 DEF ReviewInv

\* The policy denies.
LEMMA DenyKeeps ==
  ASSUME ReviewInv, NEW e \in Emails, Deny(e)
  PROVE  ReviewInv' /\ MailboxStep
<1>1. /\ Pick(e) /\ UNCHANGED <<pc, messageVars>>
      /\ Decision("email.label") = "deny"
      /\ audit' \ audit \subseteq {LabelEvent(e, "rejected")}
  BY DEF Deny, RecordAudit
<1>2. LabelEvent(e, "rejected") \in Events(Emails \cup People, Emails)
  BY EventsTyped DEF ReviewInv, Results
<1> QED
  BY <1>1, <1>2, PassKeeps DEF LabelEvent, Event

\* A dry run.
LEMMA ProposeKeeps ==
  ASSUME ReviewInv, NEW e \in Emails, NEW res \in Reviews, Propose(e, res)
  PROVE  ReviewInv' /\ MailboxStep
<1>1. /\ Pick(e) /\ UNCHANGED <<pc, messageVars>>
      /\ audit' \ audit \subseteq
           {LabelEvent(e, "proposed")} \cup ProposalEvents(e, res.proposal)
  BY DEF Propose, RecordAudit
<1>2. LabelEvent(e, "proposed") \in Events(Emails \cup People, Emails)
  BY EventsTyped DEF ReviewInv, Results
<1>3. /\ ProposalEvents(e, res.proposal) \subseteq Events(Emails \cup People, Emails)
      /\ \A ev \in ProposalEvents(e, res.proposal) : ev.type = "contact.profile"
  BY ReviewsTyped, ProposalEventsTyped DEF ReviewInv
<1>4. /\ LabelEvent(e, "proposed").subject = e
      /\ LabelEvent(e, "proposed").result = "proposed"
  BY DEF LabelEvent, Event
<1>5. \A ev \in audit' \ audit :
        /\ ev \in Events(Emails \cup People, Emails)
        /\ ev.type = "email.label" => ev.subject \in Emails /\ ev.result = "proposed"
  BY <1>1, <1>2, <1>3, <1>4
<1> QED
  BY <1>1, <1>5, PassKeeps

\* The labelling of a message begins: it has no label yet.
LEMMA BeginKeeps ==
  ASSUME ReviewInv, NEW e \in Emails, NEW res \in Reviews, Begin(e, res)
  PROVE  ReviewInv' /\ MailboxStep
<1>1. /\ pc = "picking" /\ pc' = "ensuring" /\ ~ dry
      /\ e \in batch /\ batch' = batch \ {e}
      /\ current' = e /\ result' = res /\ todo' = res.labels
      /\ Decision("email.label") # "deny"
      /\ UNCHANGED <<policy, inbox, mailbox, labels, profiles, dry, late, found,
                     alive, faults, audit>>
  BY DEF Begin, Pick, Start, Newest, stores
<1>2. /\ res.labels \subseteq ReviewLabels /\ Reviewed \in res.labels
      /\ res.proposal \in Proposals
  BY ReviewsTyped
<1>3. TypeOK'
  BY <1>1, <1>2 DEF ReviewInv, TypeOK
<1>4. StageInv'
  BY <1>1, <1>2 DEF ReviewInv, StageInv, Underway, Decision
<1>5. MailboxInv' /\ MailboxStep
  BY <1>1 DEF ReviewInv, MailboxInv, MailboxStep, Untouched, GivenUp
<1>6. TrailInv' /\ ContactsFollowReview'
  BY <1>1, <1>5, TrailKeeps, ContactsKeep
<1> QED
  BY <1>3, <1>4, <1>5, <1>6 DEF ReviewInv
------------------------------------------------------------------------------
(* The message that is being labelled.                                     *)

\* A step that may end the review.
LEMMA EndingTyped ==
  ASSUME TypeOK, Fails \/ UNCHANGED faults
  PROVE  faults' \in 0 .. MaxFaults
BY BoundAssumption DEF TypeOK, Fails

\* The label that is looked up next is one of the result.
LEMMA NextLabelTyped ==
  ASSUME TypeOK, todo # {}
  PROVE  NextLabel \in ReviewLabels
BY DEF NextLabel, TypeOK

\* The call that is awaited is about the message underway or about no message.
LEMMA AwaitedCall ==
  ASSUME ReviewInv, pc = "ensuring"
  PROVE  /\ Awaited \in Calls
         /\ todo # {} => Awaited.email = NoEmail /\ Awaited.labels = {NextLabel}
         /\ todo = {} => Awaited.email # NoEmail
         /\ Awaited.email # NoEmail =>
              Awaited.email = current /\ Reviewed \in Awaited.labels
<1>1. /\ current \in Emails /\ Reviewed \in result.labels
      /\ result.labels \subseteq ReviewLabels
      /\ NoEmail \notin Emails
  BY BoundAssumption DEF ReviewInv, StageInv, Underway, TypeOK, NoEmail, Emails
<1>2. CASE todo # {}
  <2>1. NextLabel \in ReviewLabels
    BY <1>2, NextLabelTyped DEF ReviewInv
  <2>2. Awaited = [email |-> NoEmail, labels |-> {NextLabel}]
    BY <1>2 DEF Awaited
  <2> QED
    BY <1>2, <2>1, <2>2 DEF Calls
<1>3. CASE todo = {}
  <2>1. Awaited = [email |-> current, labels |-> result.labels]
    BY <1>3 DEF Awaited
  <2> QED
    BY <1>1, <1>3, <2>1 DEF Calls
<1> QED
  BY <1>2, <1>3

\* What a call about an untouched message changes.
LEMMA EffectStep ==
  ASSUME ReviewInv, NEW call \in Calls, TakesEffect(call), late \subseteq late',
         call.email # NoEmail =>
           /\ (pc = "ensuring" /\ call.email = current) \/ GivenUp(call.email) # {}
           /\ Untouched(call.email)
           /\ Reviewed \in call.labels
  PROVE  /\ MailboxStep
         /\ mailbox' \in [Emails -> SUBSET ReviewLabels]
         /\ labels' \subseteq ReviewLabels
         /\ \A e \in Emails : mailbox'[e] = {} \/ Reviewed \in mailbox'[e]
         /\ \A e \in Emails : e # call.email => mailbox'[e] = mailbox[e]
<1>1. /\ mailbox \in [Emails -> SUBSET ReviewLabels] /\ labels \subseteq ReviewLabels
      /\ call.labels \subseteq ReviewLabels /\ call.email \in Emails \cup {NoEmail}
      /\ \A e \in Emails : mailbox[e] = {} \/ Reviewed \in mailbox[e]
  BY DEF ReviewInv, TypeOK, MailboxInv, Calls
<1>2. CASE call.email = NoEmail
  <2>1. labels' = labels \cup call.labels /\ mailbox' = mailbox
    BY <1>2 DEF TakesEffect
  <2> QED
    BY <1>1, <2>1 DEF MailboxStep
<1>3. CASE call.email # NoEmail
  <2>1. /\ mailbox' = [mailbox EXCEPT ![call.email] = @ \cup call.labels]
        /\ labels' = labels
    BY <1>3 DEF TakesEffect
  <2>2. /\ mailbox' \in [Emails -> SUBSET ReviewLabels]
        /\ mailbox'[call.email] = mailbox[call.email] \cup call.labels
        /\ \A e \in Emails : e # call.email => mailbox'[e] = mailbox[e]
    BY <1>1, <1>3, <2>1
  <2>3. MailboxStep
    BY <1>1, <1>3, <2>2 DEF MailboxStep
  <2> QED
    BY <1>1, <1>3, <2>1, <2>2, <2>3
<1> QED
  BY <1>2, <1>3

\* The effect of the call that is awaited.
LEMMA AwaitedEffect ==
  ASSUME ReviewInv, pc = "ensuring", TakesEffect(Awaited), late \subseteq late'
  PROVE  /\ MailboxStep
         /\ mailbox' \in [Emails -> SUBSET ReviewLabels]
         /\ labels' \subseteq ReviewLabels
         /\ \A e \in Emails : mailbox'[e] = {} \/ Reviewed \in mailbox'[e]
         /\ \A e \in batch : mailbox'[e] = mailbox[e]
<1>1. /\ Awaited \in Calls
      /\ Awaited.email # NoEmail =>
           /\ Awaited.email = current
           /\ Untouched(Awaited.email) /\ Reviewed \in Awaited.labels
  BY AwaitedCall DEF ReviewInv, MailboxInv
<1>2. \A e \in batch : e \in Emails /\ e # Awaited.email
  BY <1>1, BoundAssumption
  DEF ReviewInv, StageInv, Underway, TypeOK, NoEmail, Emails
<1> QED
  BY <1>1, <1>2, EffectStep

\* A label is looked up or created.
LEMMA EnsureLabelKeeps ==
  ASSUME ReviewInv, EnsureLabel
  PROVE  ReviewInv' /\ MailboxStep
<1>1. /\ pc = "ensuring" /\ todo # {} /\ TakesEffect(Awaited)
      /\ todo' = todo \ {NextLabel}
      /\ UNCHANGED <<policy, inbox, profiles, pc, dry, late, found, batch, current,
                     result, alive, faults, audit>>
  BY DEF EnsureLabel
<1>2. UNCHANGED mailbox /\ labels' \subseteq ReviewLabels
  BY <1>1, AwaitedCall, AwaitedEffect DEF TakesEffect
<1>3. TypeOK'
  BY <1>1, <1>2 DEF ReviewInv, TypeOK
<1>4. StageInv' /\ MailboxInv' /\ MailboxStep
  BY <1>1, <1>2, MailboxKeeps DEF ReviewInv, StageInv, Underway, Decision
<1>5. TrailInv' /\ ContactsFollowReview'
  BY <1>1, <1>4, TrailKeeps, ContactsKeep
<1> QED
  BY <1>3, <1>4, <1>5 DEF ReviewInv

\* One call adds all labels.
LEMMA ApplyLabelsKeeps ==
  ASSUME ReviewInv, ApplyLabels
  PROVE  ReviewInv' /\ MailboxStep
<1>1. /\ pc = "ensuring" /\ pc' = "applied" /\ todo = {} /\ TakesEffect(Awaited)
      /\ UNCHANGED <<policy, inbox, profiles, dry, late, found, batch, current,
                     result, todo, alive, faults, audit>>
  BY DEF ApplyLabels, messageVars
<1>2. /\ MailboxStep
      /\ mailbox' \in [Emails -> SUBSET ReviewLabels]
      /\ labels' \subseteq ReviewLabels
      /\ \A e \in Emails : mailbox'[e] = {} \/ Reviewed \in mailbox'[e]
      /\ \A e \in batch : mailbox'[e] = mailbox[e]
  BY <1>1, AwaitedEffect
<1>3. Reviewed \in mailbox'[current]
  <2>1. /\ Awaited.email = current /\ current # NoEmail /\ current \in Emails
        /\ Reviewed \in Awaited.labels
    BY <1>1, AwaitedCall, BoundAssumption
    DEF ReviewInv, StageInv, Underway, NoEmail, Emails
  <2>2. mailbox' = [mailbox EXCEPT ![current] = @ \cup Awaited.labels]
    BY <1>1, <2>1 DEF TakesEffect
  <2> QED
    BY <2>1, <2>2 DEF ReviewInv, TypeOK
<1>4. TypeOK'
  BY <1>1, <1>2 DEF ReviewInv, TypeOK
<1>5. StageInv'
  BY <1>1 DEF ReviewInv, StageInv, Underway, Decision
<1>6. MailboxInv'
  BY <1>1, <1>2, <1>3 DEF ReviewInv, MailboxInv, Untouched, GivenUp
<1>7. TrailInv' /\ ContactsFollowReview'
  BY <1>1, <1>2, TrailKeeps, ContactsKeep
<1> QED
  BY <1>2, <1>4, <1>5, <1>6, <1>7 DEF ReviewInv

\* A call that returns an error adds labels to the message underway or to none,
\* and may be remembered.
LEMMA NoAnswerStep ==
  ASSUME ReviewInv, pc = "ensuring", NoAnswer
  PROVE  /\ MailboxStep
         /\ mailbox' \in [Emails -> SUBSET ReviewLabels]
         /\ labels' \subseteq ReviewLabels
         /\ \A e \in Emails : mailbox'[e] = {} \/ Reviewed \in mailbox'[e]
         /\ late' \subseteq Calls
         /\ \A call \in late' : call.email # NoEmail => Reviewed \in call.labels
<1>1. /\ mailbox \in [Emails -> SUBSET ReviewLabels] /\ labels \subseteq ReviewLabels
      /\ late \subseteq Calls
      /\ \A e \in Emails : mailbox[e] = {} \/ Reviewed \in mailbox[e]
      /\ \A call \in late : call.email # NoEmail => Reviewed \in call.labels
  BY DEF ReviewInv, TypeOK, MailboxInv
<1>2. Awaited \in Calls /\ (Awaited.email # NoEmail => Reviewed \in Awaited.labels)
  BY AwaitedCall
<1>3. late \subseteq late' /\ late' \subseteq late \cup {Awaited}
  BY DEF NoAnswer, MayBeLate
<1>4. CASE UNCHANGED <<mailbox, labels>>
  BY <1>1, <1>2, <1>3, <1>4 DEF MailboxStep
<1>5. CASE TakesEffect(Awaited)
  BY <1>1, <1>2, <1>3, <1>5, AwaitedEffect
<1> QED
  BY <1>4, <1>5 DEF NoAnswer

\* A label cannot be created, or the labels cannot be added: the review ends, and
\* what it changed before stays.
LEMMA FailureKeeps ==
  ASSUME ReviewInv, EnsureFails \/ ApplyFails
  PROVE  ReviewInv' /\ MailboxStep
<1>1. /\ pc = "ensuring" /\ Abandon /\ NoAnswer
      /\ Fails \/ UNCHANGED faults
  BY DEF EnsureFails, ApplyFails, NoAnswer
<1>2. /\ pc' = "idle" /\ batch' = {} /\ dry' = TRUE /\ alive' = TRUE
      /\ current' = NoEmail /\ result' = NoResult /\ todo' = {}
      /\ audit' \ audit \subseteq {LabelEvent(current, "failed")}
      /\ UNCHANGED <<policy, inbox, profiles, found>>
  BY <1>1 DEF Abandon, Return, NoMessage, RecordAudit
<1>3. current \in Emails
  BY <1>1 DEF ReviewInv, StageInv, Underway
<1>4. /\ MailboxStep
      /\ mailbox' \in [Emails -> SUBSET ReviewLabels]
      /\ labels' \subseteq ReviewLabels
      /\ \A e \in Emails : mailbox'[e] = {} \/ Reviewed \in mailbox'[e]
      /\ late' \subseteq Calls
      /\ \A call \in late' : call.email # NoEmail => Reviewed \in call.labels
  BY <1>1, NoAnswerStep
<1>5. /\ LabelEvent(current, "failed") \in Events(Emails \cup People, Emails)
      /\ LabelEvent(current, "failed").subject = current
      /\ LabelEvent(current, "failed").result = "failed"
  BY <1>3, EventsTyped DEF ReviewInv, Results, LabelEvent, Event
<1>6. TypeOK'
  <2>1. faults' \in 0 .. MaxFaults
    BY <1>1, EndingTyped DEF ReviewInv
  <2>2. audit' \subseteq Events(Emails \cup People, Emails)
    <3>1. audit \subseteq Events(Emails \cup People, Emails)
      BY DEF ReviewInv, TypeOK
    <3> QED
      BY <1>2, <1>5, <3>1
  <2>3. NoResult.labels = {} /\ NoResult.proposal \in Proposals
    BY DEF NoResult, Proposals
  <2> QED
    BY <1>2, <1>4, <2>1, <2>2, <2>3 DEF ReviewInv, TypeOK
<1>7. StageInv' /\ MailboxInv'
  BY <1>2, <1>4 DEF StageInv, MailboxInv, Underway
<1>8. TrailInv' /\ ContactsFollowReview'
  BY <1>2, <1>3, <1>4, <1>5, TrailKeeps, ContactsKeep
<1> QED
  BY <1>4, <1>6, <1>7, <1>8 DEF ReviewInv

\* Steps after the labels were added: they leave the mailbox alone and only
\* record that it was labelled, or speak of the sender.
LEMMA AfterwardsKeeps ==
  ASSUME ReviewInv, pc \in {"applied", "upserting", "profiling"},
         pc' \in {"picking", "upserting", "profiling"},
         (NoMessage /\ pc' = "picking") \/ UNCHANGED messageVars,
         UNCHANGED <<policy, inbox, mailbox, labels, dry, late, found, batch, alive>>,
         Fails \/ UNCHANGED faults,
         profiles' \in [People -> {"none", "known", "profiled"}],
         \A p \in People : p # Sender => profiles'[p] = profiles[p],
         audit' \ audit \subseteq Events(Emails \cup People, Emails),
         \A ev \in audit' \ audit :
           ev.type = "email.label" => ev.subject = current /\ ev.result = "executed"
  PROVE  ReviewInv' /\ MailboxStep
<1>1. /\ current \in Emails /\ Reviewed \in mailbox[current]
      /\ Decision("email.label") # "deny"
      /\ Underway /\ ~ dry
  BY DEF ReviewInv, StageInv, Underway, MailboxInv
<1>2. MailboxStep /\ MailboxInv'
  BY MailboxKeeps DEF Underway, messageVars
<1>3. TypeOK'
  <2>1. faults' \in 0 .. MaxFaults
    BY EndingTyped DEF ReviewInv
  <2>2. NoResult.labels = {} /\ NoResult.proposal \in Proposals
    BY DEF NoResult, Proposals
  <2> QED
    BY <2>1, <2>2 DEF ReviewInv, TypeOK, NoMessage, messageVars
<1>4. StageInv'
  BY <1>1 DEF ReviewInv, StageInv, Underway, Decision, messageVars
<1>5. TrailInv'
  BY <1>1, <1>2, TrailKeeps
<1>6. ContactsFollowReview'
  BY <1>1, <1>2, ContactsKeep DEF Sender
<1> QED
  BY <1>2, <1>3, <1>4, <1>5, <1>6 DEF ReviewInv

\* The outcome of the labelling is recorded.
LEMMA RecordLabelsKeeps ==
  ASSUME ReviewInv, RecordLabels
  PROVE  ReviewInv' /\ MailboxStep
<1>1. /\ pc = "applied" /\ pc' \in {"picking", "upserting"}
      /\ (NoMessage /\ pc' = "picking") \/ UNCHANGED messageVars
      /\ UNCHANGED <<policy, inbox, mailbox, labels, profiles, dry, late, found,
                     batch, alive, faults>>
      /\ audit' \ audit \subseteq {LabelEvent(current, "executed")}
  BY DEF RecordLabels, RecordAudit, Continue, stores
<1>2. current \in Emails
  BY <1>1 DEF ReviewInv, StageInv, Underway
<1>3. /\ LabelEvent(current, "executed") \in Events(Emails \cup People, Emails)
      /\ LabelEvent(current, "executed").subject = current
      /\ LabelEvent(current, "executed").result = "executed"
  BY <1>2, EventsTyped DEF ReviewInv, Results, LabelEvent, Event
<1>4. profiles' \in [People -> {"none", "known", "profiled"}]
  BY <1>1 DEF ReviewInv, TypeOK
<1> QED
  BY <1>1, <1>3, <1>4, AfterwardsKeeps

\* The contact is stored, or the error is noted.
LEMMA UpsertKeeps ==
  ASSUME ReviewInv, UpsertContact \/ UpsertFails
  PROVE  ReviewInv' /\ MailboxStep
<1>1. /\ pc = "upserting" /\ pc' \in {"picking", "profiling"}
      /\ (NoMessage /\ pc' = "picking") \/ UNCHANGED messageVars
      /\ UNCHANGED <<policy, inbox, mailbox, labels, dry, late, found, batch, alive,
                     audit>>
      /\ Fails \/ UNCHANGED faults
      /\ \/ UNCHANGED profiles
         \/ profiles' = [profiles EXCEPT ![Sender] = IF @ = "none" THEN "known" ELSE @]
  BY DEF UpsertContact, UpsertFails, Continue
<1>2. /\ profiles' \in [People -> {"none", "known", "profiled"}]
      /\ \A p \in People : p # Sender => profiles'[p] = profiles[p]
  BY <1>1 DEF ReviewInv, TypeOK
<1>3. audit' \ audit = {}
  BY <1>1
<1> QED
  BY <1>1, <1>2, <1>3, AfterwardsKeeps

\* The proposal about the sender is recorded and the next message is taken.
LEMMA ProfilingKeeps ==
  ASSUME ReviewInv, NEW outcome \in {"rejected", "executed"}, NEW decision \in Decisions,
         Profiling(outcome, decision),
         Fails \/ UNCHANGED faults,
         UNCHANGED profiles \/ profiles' = [profiles EXCEPT ![Sender] = "profiled"]
  PROVE  ReviewInv' /\ MailboxStep
<1>1. /\ pc = "profiling" /\ pc' = "picking" /\ NoMessage
      /\ UNCHANGED <<policy, inbox, mailbox, labels, dry, late, found, batch, alive>>
      /\ audit' \ audit \subseteq {ContactEvent(current, decision, outcome)}
  BY DEF Profiling, Continue, RecordAudit
<1>2. current \in Emails
  BY <1>1 DEF ReviewInv, StageInv, Underway
<1>3. /\ ContactEvent(current, decision, outcome) \in Events(Emails \cup People, Emails)
      /\ ContactEvent(current, decision, outcome).type = "contact.profile"
  BY <1>2, EventsTyped DEF ReviewInv, Results, ContactEvent, Event
<1>4. /\ profiles' \in [People -> {"none", "known", "profiled"}]
      /\ \A p \in People : p # Sender => profiles'[p] = profiles[p]
  BY DEF ReviewInv, TypeOK
<1> QED
  BY <1>1, <1>3, <1>4, AfterwardsKeeps

\* ApplyContactProfileProposal.
LEMMA ProfileKeeps ==
  ASSUME ReviewInv, RejectProfile \/ StoreProfile
  PROVE  ReviewInv' /\ MailboxStep
<1>1. "deny" \in Decisions /\ Decision("contact.profile") \in Decisions
  BY PolicyAssumption DEF ReviewInv, TypeOK, Decisions, Decision, MailTypes
<1>2. CASE RejectProfile
  BY <1>1, <1>2, ProfilingKeeps DEF RejectProfile
<1>3. CASE StoreProfile
  <2> PICK decision \in Decisions : decision = Decision("contact.profile")
    BY <1>1
  <2>1. /\ Profiling("executed", decision)
        /\ Fails \/ UNCHANGED faults
        /\ UNCHANGED profiles \/ profiles' = [profiles EXCEPT ![Sender] = "profiled"]
    BY <1>3 DEF StoreProfile
  <2> QED
    BY <2>1, ProfilingKeeps
<1> QED
  BY <1>2, <1>3
------------------------------------------------------------------------------
(* The end of a review and the surroundings.                               *)

\* A call may be given up with the review or with the deadline.
MayGiveUp == late' = late \/ (pc = "ensuring" /\ late' = late \cup {Awaited})

LEMMA GivenUpCalls ==
  ASSUME ReviewInv, MayGiveUp
  PROVE  /\ late \subseteq late' /\ late' \subseteq Calls
         /\ \A call \in late' \ late : call.email # NoEmail => Reviewed \in call.labels
BY AwaitedCall DEF MayGiveUp, ReviewInv, TypeOK

\* The review returns or dies; nothing outside it changes.
LEMMA ReturnKeeps ==
  ASSUME ReviewInv, Return, UNCHANGED <<policy, inbox, stores, found, audit>>,
         faults' \in 0 .. MaxFaults, MayGiveUp
  PROVE  ReviewInv' /\ MailboxStep
<1>1. /\ pc' = "idle" /\ batch' = {} /\ dry' = TRUE /\ alive' = TRUE
      /\ current' = NoEmail /\ result' = NoResult /\ todo' = {}
      /\ UNCHANGED <<policy, inbox, mailbox, labels, profiles, found, audit>>
  BY DEF Return, NoMessage, stores
<1>2. TypeOK'
  <2>1. NoResult.labels = {} /\ NoResult.proposal \in Proposals
    BY DEF NoResult, Proposals
  <2> QED
    BY <1>1, <2>1, GivenUpCalls DEF ReviewInv, TypeOK
<1>3. StageInv' /\ MailboxInv' /\ MailboxStep
  BY <1>1, GivenUpCalls, MailboxKeeps DEF StageInv, Underway
<1>4. TrailInv' /\ ContactsFollowReview'
  BY <1>1, <1>3, TrailKeeps, ContactsKeep
<1> QED
  BY <1>2, <1>3, <1>4 DEF ReviewInv

\* Mail that arrives, is read or deleted, and the deadline.
LEMMA SurroundingsKeep ==
  ASSUME ReviewInv,
         UNCHANGED <<policy, stores, pc, dry, found, batch, messageVars, audit>>,
         inbox' \in [Emails -> {"absent", "unread", "read", "gone"}],
         alive' \in BOOLEAN,
         faults' \in 0 .. MaxFaults,
         MayGiveUp
  PROVE  ReviewInv' /\ MailboxStep
<1>1. UNCHANGED <<policy, mailbox, labels, profiles, pc, dry, found, batch, current,
                  result, todo, audit>>
  BY DEF stores, messageVars
<1>2. TypeOK'
  BY <1>1, GivenUpCalls DEF ReviewInv, TypeOK
<1>3. StageInv' /\ MailboxInv' /\ MailboxStep
  BY <1>1, GivenUpCalls, MailboxKeeps DEF ReviewInv, StageInv, Underway, Decision
<1>4. TrailInv' /\ ContactsFollowReview'
  BY <1>1, <1>3, TrailKeeps, ContactsKeep
<1> QED
  BY <1>2, <1>3, <1>4 DEF ReviewInv

\* A call that was given up takes effect.
LEMMA LateEffectKeeps ==
  ASSUME ReviewInv, NEW call \in late, LateEffect(call)
  PROVE  ReviewInv' /\ MailboxStep
<1>1. /\ TakesEffect(call)
      /\ UNCHANGED <<policy, inbox, profiles, pc, dry, late, found, batch, current,
                     result, todo, alive, faults, audit>>
  BY DEF LateEffect, messageVars
<1>2. call \in Calls /\ (call.email # NoEmail => Reviewed \in call.labels)
  BY DEF ReviewInv, TypeOK, MailboxInv
<1>3. call \in GivenUp(call.email)
  BY DEF GivenUp
<1>4. /\ MailboxStep
      /\ mailbox' \in [Emails -> SUBSET ReviewLabels]
      /\ labels' \subseteq ReviewLabels
      /\ \A e \in Emails : mailbox'[e] = {} \/ Reviewed \in mailbox'[e]
      /\ \A e \in Emails : e # call.email => mailbox'[e] = mailbox[e]
  BY <1>1, <1>2, <1>3, EffectStep DEF Untouched
<1>5. TypeOK'
  BY <1>1, <1>4 DEF ReviewInv, TypeOK
<1>6. StageInv'
  BY <1>1 DEF ReviewInv, StageInv, Underway, Decision
<1>7. MailboxInv'
  <2>1. \A e \in Emails : Untouched(e) => Untouched(e)'
    BY <1>1, <1>3, <1>4 DEF Untouched, GivenUp
  <2>2. \A e \in Emails : Reviewed \in mailbox[e] => Reviewed \in mailbox'[e]
    BY <1>4 DEF MailboxStep
  <2>3. batch \subseteq Emails /\ (pc \notin {"idle", "picking"} => current \in Emails)
    BY DEF ReviewInv, TypeOK, StageInv, Underway
  <2> QED
    BY <1>1, <1>4, <2>1, <2>2, <2>3 DEF ReviewInv, MailboxInv
<1>8. TrailInv' /\ ContactsFollowReview'
  BY <1>1, <1>4, TrailKeeps, ContactsKeep
<1> QED
  BY <1>4, <1>5, <1>6, <1>7, <1>8 DEF ReviewInv
------------------------------------------------------------------------------
(* The whole specification.                                                *)

\* Nothing was reviewed at the start.
LEMMA ReviewInitInv == Init => ReviewInv
<1> SUFFICES ASSUME Init PROVE ReviewInv
  OBVIOUS
<1>1. NoResult.labels = {} /\ NoResult.proposal \in Proposals
  BY DEF NoResult, Proposals
<1>2. /\ inbox \in [Emails -> {"absent", "unread", "read", "gone"}]
      /\ mailbox \in [Emails -> SUBSET ReviewLabels]
      /\ profiles \in [People -> {"none", "known", "profiled"}]
      /\ faults \in 0 .. MaxFaults
  BY BoundAssumption DEF Init
<1>3. TypeOK
  BY <1>1, <1>2 DEF Init, TypeOK
<1>4. StageInv /\ MailboxInv /\ TrailInv /\ ContactsFollowReview
  BY DEF Init, StageInv, Underway, MailboxInv, Untouched, TrailInv, ContactsFollowReview
<1> QED
  BY <1>3, <1>4 DEF ReviewInv

\* Every step preserves the invariant and labels at most a bare message.
LEMMA ReviewNextInv == ReviewInv /\ [Next]_vars => ReviewInv' /\ MailboxStep
<1> SUFFICES ASSUME ReviewInv, [Next]_vars PROVE ReviewInv' /\ MailboxStep
  OBVIOUS
<1>1. CASE Search(TRUE) \/ Search(FALSE)
  BY <1>1, SearchKeeps
<1>2. CASE \E e \in Emails :
             Deny(e) \/ \E res \in Reviews : Propose(e, res) \/ Begin(e, res)
  BY <1>2, DenyKeeps, ProposeKeeps, BeginKeeps
<1>3. CASE EnsureLabel \/ EnsureFails \/ ApplyLabels \/ ApplyFails \/ RecordLabels
  BY <1>3, EnsureLabelKeeps, FailureKeeps, ApplyLabelsKeeps, RecordLabelsKeeps
<1>4. CASE UpsertContact \/ UpsertFails \/ RejectProfile \/ StoreProfile
  BY <1>4, UpsertKeeps, ProfileKeeps
<1>5. CASE Finish
  BY <1>5, ReturnKeeps DEF Finish, ReviewInv, TypeOK, MayGiveUp
<1>6. ASSUME NEW e \in Emails,
             NEW from \in {"absent", "unread"}, NEW to \in {"unread", "read", "gone"},
             Mail(e, from, to)
      PROVE  ReviewInv' /\ MailboxStep
  BY <1>6, SurroundingsKeep DEF Mail, ReviewInv, TypeOK, MayGiveUp
<1>7. ASSUME faults > 0, faults' = faults - 1
      PROVE  faults' \in 0 .. MaxFaults
  BY <1>7, BoundAssumption DEF ReviewInv, TypeOK
<1>8. CASE DeadlinePasses
  BY <1>7, <1>8, SurroundingsKeep
  DEF DeadlinePasses, ReviewInv, TypeOK, MayBeLate, MayGiveUp
<1>9. CASE Crash
  BY <1>7, <1>9, ReturnKeeps DEF Crash, MayBeLate, MayGiveUp
<1>10. CASE \E call \in late : LateEffect(call)
  BY <1>10, LateEffectKeeps
<1>11. CASE UNCHANGED vars
  BY <1>11, SurroundingsKeep
  DEF vars, stores, messageVars, ReviewInv, TypeOK, MayGiveUp
<1> QED
  BY <1>1, <1>2, <1>3, <1>4, <1>5, <1>6, <1>8, <1>9, <1>10, <1>11 DEF Next, Step

\* What a search has found stays; messages only lose their place in the batch.
BatchStep ==
  /\ UNCHANGED <<policy, found>>
  /\ batch' \subseteq batch

\* A step that leaves nothing behind but the message underway keeps the order.
LEMMA QueueKeeps ==
  ASSUME ReviewInv, QueueInv, MailboxStep, BatchStep,
         dry' = dry,
         pc # "idle",
         \A e \in batch \ batch' :
           /\ \A f \in batch' : f < e
           /\ \/ pc' = "ensuring" /\ e = current'
              \/ dry
              \/ Decision("email.label") = "deny",
         pc = "ensuring" =>
           \/ pc' = "ensuring" /\ current' = current
           \/ Reviewed \in mailbox'[current]
  PROVE  QueueInv'
<1> SUFFICES ASSUME ~ dry, Decision("email.label") # "deny"
             PROVE  /\ \A e \in batch' : \A f \in found \ batch' : e < f
                    /\ \A f \in found \ batch' :
                         Reviewed \in mailbox'[f] \/ (pc' = "ensuring" /\ f = current')
  BY DEF QueueInv, BatchStep, Decision
<1>1. /\ \A e \in batch : \A f \in found \ batch : e < f
      /\ \A f \in found \ batch :
           Reviewed \in mailbox[f] \/ (pc = "ensuring" /\ f = current)
      /\ batch' \subseteq batch
  BY DEF QueueInv, BatchStep
<1>2. \A f \in found : Reviewed \in mailbox[f] => Reviewed \in mailbox'[f]
  BY DEF MailboxStep, ReviewInv, TypeOK
<1> QED
  BY <1>1, <1>2

\* Of two messages of the latest search, an older one is not labelled before a
\* newer one.
LEMMA SkippedKeeps ==
  ASSUME ReviewInv, QueueInv, NothingSkipped, MailboxStep,
         UNCHANGED <<policy, found>>
  PROVE  NothingSkipped'
<1> SUFFICES ASSUME Decision("email.label") # "deny", NEW e \in found, NEW f \in found,
                    e < f, Reviewed \in mailbox'[e], Reviewed \notin mailbox'[f],
                    GivenUp(e) = {}
             PROVE  FALSE
  BY DEF NothingSkipped, Decision, MailboxStep, GivenUp
<1>1. e \in Emails /\ f \in Emails
  BY DEF ReviewInv, TypeOK
<1>2. Reviewed \notin mailbox[f] /\ (mailbox'[e] = mailbox[e] \/ (pc = "ensuring" /\ e = current))
  BY <1>1 DEF MailboxStep
<1>3. CASE mailbox'[e] = mailbox[e]
  BY <1>2, <1>3 DEF NothingSkipped, Decision
<1>4. CASE pc = "ensuring" /\ e = current
  <2>1. ~ dry /\ e \notin batch
    BY <1>4 DEF ReviewInv, StageInv, Underway
  <2>2. /\ \A b \in batch : b < e
        /\ f \in batch \/ Reviewed \in mailbox[f] \/ f = e
    BY <1>4, <2>1 DEF QueueInv
  <2> QED
    BY <1>1, <1>2, <2>2 DEF Emails
<1> QED
  BY <1>2, <1>3, <1>4

\* The search finds messages without Robe/Reviewed.
LEMMA SearchOrders ==
  ASSUME ReviewInv, NEW dryRun \in BOOLEAN, Search(dryRun)
  PROVE  QueueInv' /\ NothingSkipped'
<1>1. found' = batch' /\ batch' \subseteq Page /\ UNCHANGED <<policy, mailbox>>
  BY DEF Search, stores
<1>2. \A e \in Page : Reviewed \notin mailbox[e]
  BY DEF Page, Unreviewed
<1> QED
  BY <1>1, <1>2 DEF QueueInv, NothingSkipped

\* A message is taken from the batch: it is the newest.
LEMMA PickOrders ==
  ASSUME ReviewInv, QueueInv, MailboxStep, NEW e \in Emails, Pick(e),
         dry \/ Decision("email.label") = "deny" \/ (pc' = "ensuring" /\ current' = e)
  PROVE  QueueInv'
<1>1. /\ pc = "picking" /\ e \in batch /\ batch' = batch \ {e}
      /\ \A f \in batch : f <= e
      /\ UNCHANGED <<policy, dry, found>>
  BY DEF Pick, Newest
<1>2. batch \subseteq Emails
  BY DEF ReviewInv, TypeOK
<1>3. \A f \in batch' : f < e
  BY <1>1, <1>2 DEF Emails
<1> QED
  BY <1>1, <1>3, QueueKeeps DEF BatchStep

\* Every step takes the messages of a search in their order and labels the one
\* underway only when the newer ones are done.
LEMMA QueueNextInv ==
  ReviewInv /\ QueueInv /\ NothingSkipped /\ [Next]_vars => QueueInv' /\ NothingSkipped'
<1> SUFFICES ASSUME ReviewInv, QueueInv, NothingSkipped, [Next]_vars
             PROVE  QueueInv' /\ NothingSkipped'
  OBVIOUS
<1>1. MailboxStep
  BY ReviewNextInv
<1>2. CASE Search(TRUE) \/ Search(FALSE)
  BY <1>2, SearchOrders
<1>3. CASE \E e \in Emails :
             Deny(e) \/ \E res \in Reviews : Propose(e, res) \/ Begin(e, res)
  <2>1. PICK e \in Emails :
          /\ Pick(e)
          /\ dry \/ Decision("email.label") = "deny" \/ (pc' = "ensuring" /\ current' = e)
    BY <1>3 DEF Deny, Propose, Begin, Start
  <2>2. UNCHANGED <<policy, found>>
    BY <2>1 DEF Pick
  <2> QED
    BY <1>1, <2>1, <2>2, PickOrders, SkippedKeeps
<1>4. CASE EnsureLabel \/ ApplyLabels
  <2>1. /\ pc = "ensuring" /\ current' = current
        /\ UNCHANGED <<policy, dry, found, batch>>
        /\ pc' = "ensuring" \/ (pc' = "applied" /\ ApplyLabels)
    BY <1>4 DEF EnsureLabel, ApplyLabels, messageVars
  <2>2. pc' = "applied" => Reviewed \in mailbox'[current]
    BY <2>1, ReviewNextInv DEF ReviewInv, MailboxInv
  <2> QED
    BY <1>1, <2>1, <2>2, QueueKeeps, SkippedKeeps DEF BatchStep
<1>5. CASE RecordLabels \/ UpsertContact \/ UpsertFails \/ RejectProfile \/ StoreProfile
  <2>1. /\ pc \in {"applied", "upserting", "profiling"}
        /\ UNCHANGED <<policy, dry, found, batch>>
    BY <1>5
    DEF RecordLabels, UpsertContact, UpsertFails, RejectProfile, StoreProfile, Profiling
  <2> QED
    BY <1>1, <2>1, QueueKeeps, SkippedKeeps DEF BatchStep
<1>6. CASE EnsureFails \/ ApplyFails \/ Finish \/ Crash
  <2>1. pc' = "idle" /\ UNCHANGED <<policy, found>>
    BY <1>6 DEF EnsureFails, ApplyFails, Abandon, Finish, Crash, Return
  <2> QED
    BY <1>1, <2>1, SkippedKeeps DEF QueueInv
<1>7. ASSUME UNCHANGED <<policy, pc, dry, found, batch, current>>
      PROVE  QueueInv' /\ NothingSkipped'
  <2>1. CASE pc = "idle"
    BY <1>1, <1>7, <2>1, SkippedKeeps DEF QueueInv
  <2>2. CASE pc # "idle"
    BY <1>1, <1>7, <2>2, QueueKeeps, SkippedKeeps DEF BatchStep
  <2> QED
    BY <2>1, <2>2
<1>8. CASE \E e \in Emails : \/ Mail(e, "absent", "unread") \/ Mail(e, "unread", "read")
                            \/ Mail(e, "unread", "gone")
  BY <1>7, <1>8 DEF Mail, messageVars
<1>9. CASE \E call \in late : LateEffect(call)
  BY <1>7, <1>9 DEF LateEffect, messageVars
<1>10. CASE DeadlinePasses
  BY <1>7, <1>10 DEF DeadlinePasses, messageVars
<1>11. CASE UNCHANGED vars
  BY <1>7, <1>11 DEF vars
<1> QED
  BY <1>2, <1>3, <1>4, <1>5, <1>6, <1>8, <1>9, <1>10, <1>11 DEF Next, Step

\* The invariant holds in every state.
LEMMA ReviewCorrect == Spec => []ReviewInv
BY ReviewInitInv, ReviewNextInv, PTL DEF Spec

\* The variables of a review, Gmail and the directory have their types; in
\* particular no message carries a label that is none of Robe's.
THEOREM ReviewTyped == Spec => []TypeOK
<1>1. ReviewInv => TypeOK
  BY DEF ReviewInv
<1> QED
  BY <1>1, ReviewCorrect, PTL

\* A message that the trail says was labelled carries Robe/Reviewed, and is not
\* also said to have been turned down (ReviewUnreadEmails, recordAudit).
THEOREM ExecutedIsLabelledHolds == Spec => []ExecutedIsLabelled
<1>1. ReviewInv => ExecutedIsLabelled
  BY DEF ReviewInv, TrailInv, ExecutedIsLabelled
<1> QED
  BY <1>1, ReviewCorrect, PTL

\* Whoever is in the directory wrote a message that carries Robe/Reviewed
\* (persistContactProposalIfPresent).
THEOREM ContactsFollowReviewHolds == Spec => []ContactsFollowReview
<1>1. ReviewInv => ContactsFollowReview
  BY DEF ReviewInv
<1> QED
  BY <1>1, ReviewCorrect, PTL

\* A message is labelled once, by one review, with Robe/Reviewed and nothing
\* the model made up, whatever fails and however often reviews are repeated,
\* unless a call about it was given up (ReviewUnreadEmails, ApplyEmailLabels).
THEOREM ReviewedOnceHolds == Spec => ReviewedOnce
<1>1. ReviewInv /\ [Next]_vars =>
        [\A e \in Emails :
           /\ mailbox[e] # {} => mailbox'[e] = mailbox[e] \/ GivenUp(e) # {}
           /\ mailbox'[e] # {} =>
                /\ Reviewed \in mailbox'[e]
                /\ mailbox'[e] \subseteq ReviewLabels]_vars
  <2> SUFFICES ASSUME ReviewInv, [Next]_vars, NEW e \in Emails
               PROVE  /\ mailbox[e] # {} => mailbox'[e] = mailbox[e] \/ GivenUp(e) # {}
                      /\ mailbox'[e] # {} =>
                           /\ Reviewed \in mailbox'[e]
                           /\ mailbox'[e] \subseteq ReviewLabels
    OBVIOUS
  <2>1. MailboxStep /\ ReviewInv'
    BY ReviewNextInv
  <2>2. mailbox[e] # {} => mailbox'[e] = mailbox[e] \/ GivenUp(e) # {}
    BY <2>1 DEF MailboxStep, Untouched
  <2>3. mailbox'[e] # {} => Reviewed \in mailbox'[e] /\ mailbox'[e] \subseteq ReviewLabels
    BY <2>1 DEF ReviewInv, MailboxInv, TypeOK
  <2> QED
    BY <2>2, <2>3
<1> QED
  BY <1>1, ReviewCorrect, PTL DEF Spec, ReviewedOnce

\* Of two messages of the latest search, the older one is labelled only if the
\* newer one is, so that a review that ends with an error leaves nothing behind
\* that is newer than what it has done (ReviewUnreadEmails, SearchEmails).
THEOREM NothingSkippedHolds == Spec => []NothingSkipped
<1>1. Init => QueueInv /\ NothingSkipped
  BY DEF Init, QueueInv, NothingSkipped
<1> QED
  BY <1>1, ReviewCorrect, QueueNextInv, PTL DEF Spec

\* A dry run changes neither Gmail nor the directory, from its search to its
\* return (ReviewUnreadEmails with DryRun); what changes at Gmail meanwhile is
\* the effect of a call that was given up.
THEOREM DryRunIsInertHolds == Spec => DryRunIsInert
<1>1. ReviewInv /\ [Next]_vars =>
        [dry /\ pc # "idle" =>
           /\ UNCHANGED <<profiles, late>>
           /\ UNCHANGED <<mailbox, labels>> \/ \E call \in late : TakesEffect(call)]_vars
  <2> SUFFICES ASSUME ReviewInv, Next, dry, pc # "idle"
               PROVE  /\ UNCHANGED <<profiles, late>>
                      /\ \/ UNCHANGED <<mailbox, labels>>
                         \/ \E call \in late : TakesEffect(call)
    OBVIOUS
  <2>1. pc = "picking"
    BY DEF ReviewInv, StageInv, Underway
  <2>2. CASE \E call \in late : LateEffect(call)
    BY <2>2 DEF LateEffect
  <2>3. CASE ~ \E call \in late : LateEffect(call)
    BY <2>1, <2>3
    DEF Next, Step, Search, Deny, Propose, Begin, Pick, EnsureLabel, EnsureFails,
        ApplyLabels, ApplyFails, RecordLabels, UpsertContact, UpsertFails,
        RejectProfile, StoreProfile, Profiling, Finish, Mail, DeadlinePasses,
        Crash, stores
  <2> QED
    BY <2>2, <2>3
<1> QED
  BY <1>1, ReviewCorrect, PTL DEF Spec, DryRunIsInert
==============================================================================
