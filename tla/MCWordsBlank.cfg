SPECIFICATION Spec
CONSTANTS
  MaxLen = 2
  MaxWords = 2
  MaxLineLen = 1
  MaxLines = 2
  MaxFaults = 0
  Files <- MCFiles
  Defaults <- MCDefaults
PROPERTY
  FileWithWordsIsKept
