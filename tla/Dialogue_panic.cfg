SPECIFICATION Spec
CONSTANTS
  Setups <- MCSetups
  Texts <- MCTexts
  MaxRunes = 4
  MaxMessages = 2
  MaxStarts = 2
INVARIANTS
  NoPanic
