SPECIFICATION Spec
CONSTANTS
  Slugs <- OneSlug
  Global = ""
  NormalForm <- MCNormalForm
  AliasProjects = {"my-lab"}
  Tags = {"x", "y"}
  MaxRows = 2
  MaxRequests = 2
  NoRow = NoRow
  AuditMayFail = FALSE
  AnswersMayBeLost = TRUE
INVARIANTS
  TypeOK
  SavedIsWhole
  OneRowPerRequest
  TrailIsTrue
