SPECIFICATION Spec
CONSTANTS
  c1 = c1
  c2 = c2
  u1 = u1
  u2 = u2
  u3 = u3
  p1 = p1
  NoUser = NoUser
  NoHash = NoHash
  EndOfFile = EndOfFile
  Conn = {c1, c2}
  User = {u1, u2}
  RefusedName = {}
  ReadAs <- NameWithColon
  Password = {p1}
  Score = {7}
  MaxSlots = 1
  IoFault = {"read", "append", "close"}
  MaxUserLines = 2
  MaxScoreLines = 1
  MaxTorn = 1
SYMMETRY Alike
INVARIANTS
  TypeOK
  SessionInvariant
  ClientServerAgree
  OnlyAccountsPlay
  AcknowledgedIsStored
PROPERTIES
  AccountsAreStable
  ImplementsLoginService
