SPECIFICATION Spec
CONSTANTS
  c1 = c1
  c2 = c2
  u1 = u1
  u2 = u2
  u3 = u3
  p1 = p1
  NoUser = NoUser
  NoHash = NoHash
  EndOfFile = EndOfFile
  Conn = {c1, c2}
  User = {u1}
  RefusedName = {}
  ReadAs <- PlainNames
  Password = {p1}
  Score = {7}
  MaxSlots = 2
  IoFault = {}
  MaxUserLines = 1
  MaxScoreLines = 0
  MaxTorn = 0
INVARIANT
  ServerOutlivesClients
