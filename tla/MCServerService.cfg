SPECIFICATION FairSpec
CONSTANTS
  c1 = c1
  c2 = c2
  u1 = u1
  u2 = u2
  u3 = u3
  p1 = p1
  NoUser = NoUser
  NoHash = NoHash
  EndOfFile = EndOfFile
  Conn = {c1, c2}
  User = {u1, u2, u3}
  RefusedName = {u3}
  ReadAs <- PlainNames
  Password = {p1}
  Score = {}
  MaxSlots = 2
  IoFault = {"read", "append", "close"}
  MaxUserLines = 2
  MaxScoreLines = 0
  MaxTorn = 0
INVARIANT
  SlotsMatchSessions
PROPERTIES
  ClientsKeepProtocol
  GoneClientIsReleased
  EveryRequestAnswered
