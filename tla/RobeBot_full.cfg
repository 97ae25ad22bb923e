SPECIFICATION BotFairSpec
CONSTANTS
  t1 = t1
  t2 = t2
  d1 = d1
  e1 = e1
  NoToken = NoToken
  NoAction = NoAction
  Tokens <- OneToken
  Drafts <- MCDrafts
  Targets <- NoTargets
  TTL = 1
  RequestTimeout = 1
  MaxCalls = 2
  MaxCopies = 2
  AuditMayFail = FALSE
  MaxUpdates = 3
  BufferSize = 1
  MaxCrashes = 1
INVARIANTS
  OneWritePerUpdate
  LossIsBounded
  RedeliveryNeedsCrash
PROPERTIES
  InOrder
  ImplementsConfirm
  EveryUpdateTaken
