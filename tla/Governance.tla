----------------------------- MODULE Governance -----------------------------
(***************************************************************************)
(* The vocabulary of src/internal/core/governance.go: the kinds of action  *)
(* Robe may take, the decisions a permission engine returns for them, and  *)
(* the compact audit events written about them.  Risk levels, actors,      *)
(* summaries and metadata are wording and are left out; the subject of an  *)
(* event (a confirmation token, a memory, a contact) is kept because the   *)
(* properties relate events about one subject.                             *)
(***************************************************************************)

CalendarTypes == {"calendar.create", "calendar.delete"}

MemoryTypes == {"memory.create", "memory.archive", "memory.tag"}

MailTypes == {"email.label", "contact.profile"}

ActionTypes == CalendarTypes \cup MemoryTypes \cup MailTypes

Decisions == {"allow", "confirm", "deny"}

Results == {"proposed", "executed", "cancelled", "rejected", "failed"}

\* DefaultPermissionEngine.Decide: calendar writes need a confirmation, the
\* other known types are allowed, anything else is denied.
DefaultDecide(type) ==
  IF type \in CalendarTypes THEN "confirm"
  ELSE IF type \in ActionTypes THEN "allow"
  ELSE "deny"

\* One audit event.  `call' identifies the external call an outcome is about;
\* the code does not record it, it only lets properties speak of the call.
Event(type, decision, result, subject, call) ==
  [type |-> type, decision |-> decision, result |-> result,
   subject |-> subject, call |-> call]

Events(Subjects, CallIds) ==
  [type : ActionTypes, decision : Decisions, result : Results,
   subject : Subjects, call : CallIds]
=============================================================================
