SPECIFICATION Spec
CONSTANTS
  Player = {1, 2, 3}
  Garbled = {}
  Score = {1, 12}
  MaxRecords = 3
  MaxEntries = 2
  MaxLines = 4
  MaxTorn = 1
  ReadFault = TRUE
INVARIANTS
  TypeOK
  OneLinePerTear
  BoardIsHonest
PROPERTIES
  BoardShowsBests
  ScoresNeverDrop
