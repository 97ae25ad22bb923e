SPECIFICATION Spec
CONSTANTS
  t1 = t1
  t2 = t2
  d1 = d1
  e1 = e1
  NoToken = NoToken
  NoAction = NoAction
  Tokens <- OneToken
  Drafts <- MCDrafts
  Targets <- MCTargets
  TTL = 2
  RequestTimeout = 1
  MaxCalls = 2
  MaxCopies = 2
  AuditMayFail = FALSE
INVARIANTS
  FailureAudited
