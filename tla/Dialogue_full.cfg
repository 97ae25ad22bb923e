SPECIFICATION FairSpec
CONSTANTS
  Setups <- MCSetups
  Texts <- MCTexts
  MaxRunes = 4
  MaxMessages = 2
  MaxStarts = 2
INVARIANTS
  NothingLost
  ChunksFit
  RecordingsRemoved
  ModelOnlyProposes
  NothingSentAfterStop
PROPERTIES
  EveryMessageAnswered
