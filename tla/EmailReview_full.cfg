SPECIFICATION Spec
CONSTANTS
  p1 = p1
  p2 = p2
  MaxEmail = 2
  People <- TwoPeople
  From <- MCFrom
  Limit = 2
  Categories <- MCCategories
  RuleCategories <- MCCategories
  Urgent <- NoneUrgent
  Classifications <- MCClassifications
  Policies <- MCPolicies
  MaxFaults = 1
  AuditMayFail = FALSE
INVARIANTS
  TypeOK
  ExecutedIsLabelled
  ContactsFollowReview
  
PROPERTIES
  DryRunIsInert
  ReviewedOnce
