SPECIFICATION Spec
CONSTANTS
  p1 = p1
  p2 = p2
  k1 = k1
  k2 = k2
  People <- MCPeople
  Legacy <- OldPeople
  Keys <- MCKeys
  NoKey = NoKey
  Keyrings <- MCKeyrings
  MaxContacts = 2
  NoValue = NoValue
  NoRow = NoRow
INVARIANTS
  TypeOK
  RowsAgree
  OtherKeysRetired
PROPERTIES
  NoNewClearText
  AddressKeepsContact
  RotationKeepsReadable
  NamesSurvive
