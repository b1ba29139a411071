SPECIFICATION FairSpec
CONSTANTS
  MaxLen = 2
  MaxWords = 2
  MaxLineLen = 4
  MaxLines = 3
  MaxFaults = 2
  Files <- MCFiles
  Defaults <- MCDefaults
INVARIANTS
  TypeOK
  ServesWords
  WordsEndLines
  CleanFileIsServed
PROPERTIES
  CleanFileIsKept
  LoadEnds
