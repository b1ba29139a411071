SPECIFICATION FairSpec
CONSTANTS
  w1 = w1
  w2 = w2
  long = long
  t1 = t1
  t2 = t2
  NoText = NoText
  MaxWords = 2
  Pick = {w1}
  Text = {t1}
  Long = {}
  Shown <- MCShown
  Length <- MCLength
  WordType = {"normal"}
  BonusPoints = 5
  Height = 1
  InitialLives = 1
  MaxSpawns = 2
  MayExhaust = FALSE
  CreateMayFail = FALSE
  Timely = TRUE
PROPERTIES
  WordsDoNotHang
  ReapingEnds
  GameOverIsShown
  GameReturns
