SPECIFICATION Spec
CONSTANTS
  t1 = t1
  t2 = t2
  d1 = d1
  e1 = e1
  NoToken = NoToken
  NoAction = NoAction
  Tokens <- MCTokens
  Drafts <- MCDrafts
  Targets <- MCTargets
  TTL = 1
  RequestTimeout = 1
  MaxCalls = 2
  MaxCopies = 2
  AuditMayFail = TRUE
SYMMETRY TokenSymmetry
INVARIANTS
  TypeOK
  CallsAsProposed
  RetryOnlyAfterError
  ExecutedWasApplied
  TrailEndsOnce
PROPERTIES
  ClosedForever
  ImplementsGate
