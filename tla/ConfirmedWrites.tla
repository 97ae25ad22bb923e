--------------------------- MODULE ConfirmedWrites ---------------------------
(***************************************************************************)
(* What the confirmation gate promises its user, without handlers, clocks, *)
(* maps or audit: an external write is made only under a token that was    *)
(* shown with its content and is still open, one write is underway at a    *)
(* time, a token that is executed or dropped never opens again, and a      *)
(* token counts as executed only if a write made under it was applied.     *)
(***************************************************************************)
CONSTANTS Tokens, Contents, Calls, NoToken, NoContent, NoCall

VARIABLES
  life,      \* of a token: unissued, open, executed or dropped
  content,   \* what the user was shown under a token
  writes,    \* the token a write was launched under
  sent,      \* the content it was launched with
  applied,   \* the writes that took effect
  underway   \* the write the user is waiting for

vars == <<life, content, writes, sent, applied, underway>>

Init ==
  /\ life = [t \in Tokens |-> "unissued"]
  /\ content = [t \in Tokens |-> NoContent]
  /\ writes = [n \in Calls |-> NoToken]
  /\ sent = [n \in Calls |-> NoContent]
  /\ applied = {}
  /\ underway = NoCall

Issue(t, c) ==
  /\ life[t] = "unissued"
  /\ life' = [life EXCEPT ![t] = "open"]
  /\ content' = [content EXCEPT ![t] = c]
  /\ UNCHANGED <<writes, sent, applied, underway>>

Launch(t, n) ==
  /\ underway = NoCall
  /\ life[t] = "open"
  /\ writes[n] = NoToken
  /\ writes' = [writes EXCEPT ![n] = t]
  /\ sent' = [sent EXCEPT ![n] = content[t]]
  /\ underway' = n
  /\ UNCHANGED <<life, content, applied>>

\* A write may take effect at any time after it was launched, also after the
\* user was told that it failed.
Apply(n) ==
  /\ writes[n] # NoToken
  /\ n \notin applied
  /\ applied' = applied \cup {n}
  /\ UNCHANGED <<life, content, writes, sent, underway>>

Succeed(t) ==
  /\ underway # NoCall
  /\ writes[underway] = t
  /\ underway \in applied
  /\ life' = [life EXCEPT ![t] = "executed"]
  /\ underway' = NoCall
  /\ UNCHANGED <<content, writes, sent, applied>>

\* A write that failed leaves its token open, unless its time is over.
Fail(t) ==
  /\ underway # NoCall
  /\ writes[underway] = t
  /\ life' \in {life, [life EXCEPT ![t] = "dropped"]}
  /\ underway' = NoCall
  /\ UNCHANGED <<content, writes, sent, applied>>

\* Open tokens are dropped: one is cancelled, some expire, or all are forgotten
\* and the user is left without an answer.
Drop(S) ==
  /\ \A t \in S : life[t] = "open"
  /\ life' = [t \in Tokens |-> IF t \in S THEN "dropped" ELSE life[t]]
  /\ underway' \in {underway, NoCall}
  /\ UNCHANGED <<content, writes, sent, applied>>

Next ==
  \/ \E t \in Tokens, c \in Contents : Issue(t, c)
  \/ \E t \in Tokens, n \in Calls : Launch(t, n)
  \/ \E n \in Calls : Apply(n)
  \/ \E t \in Tokens : Succeed(t) \/ Fail(t)
  \/ \E S \in SUBSET Tokens : Drop(S)

Spec == Init /\ [][Next]_vars
==============================================================================
