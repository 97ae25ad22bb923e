SPECIFICATION Spec
CONSTANTS
  m1 = m1
  m2 = m2
  r1 = r1
  r2 = r2
  r3 = r3
  r4 = r4
  Slugs <- MCSlugs
  Global = ""
  NormalForm <- MCNormalForm
  Mentions <- MCMentions
  Texts <- MCTexts
  Importance <- MCImportance
  Questions <- MCQuestions
  Holds <- MCHolds
  Near <- MCNear
  Models <- MCModels
  NoModel = NoModel
  SameLength <- MCSameLength
  Ids <- MCIds
  NoRow = NoRow
  ScopeLimit = 2
  PromptLimit = 3
  SearchLimit = 2
  MaxForgets = 1
SYMMETRY RecallSymmetry
INVARIANTS
  RecallInScope
  NamedIsRecalled
  ProjectHasItsPlace
