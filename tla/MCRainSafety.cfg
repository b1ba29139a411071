SPECIFICATION Spec
CONSTANTS
  w1 = w1
  w2 = w2
  long = long
  t1 = t1
  t2 = t2
  NoText = NoText
  MaxWords = 2
  Pick = {w1, long}
  Text = {t1, t2}
  Long = {long}
  Shown <- MCShown
  Length <- MCLength
  WordType = {"kill", "bonus"}
  BonusPoints = 5
  Height = 2
  InitialLives = 2
  MaxSpawns = 3
  MayExhaust = TRUE
  CreateMayFail = TRUE
  Timely = FALSE
INVARIANTS
  TypeOK
  NoStaleEntry
  EveryWordSettledOnce
  ScoreIsEarned
  FlaggedThreadsHaveLeft
  NoThreadOutlivesRound
PROPERTY
  ImplementsGameRound
CHECK_DEADLOCK FALSE
