SPECIFICATION FairSpec
CONSTANTS
  n1 = n1
  n2 = n2
  n3 = n3
  p0 = p0
  p1 = p1
  p2 = p2
  h0 = h0
  h1 = h1
  h2 = h2
  NoUser = NoUser
  Name = {n1, n2, n3}
  Full = {n2, n3}
  Kept <- MCKept
  Spill <- MCSpill
  Password = {p0, p1, p2}
  NoPassword = p0
  KeptPw <- MCKeptPw
  Hash <- MCHash
  MayFail = {"crypto", "connect", "memory", "screen"}
INVARIANTS
  TypeOK
  RoundHasWords
  SentAsTyped
PROPERTIES
  CtrlCIsRouted
  ImplementsPeerProtocol
  QuitIsHonoured
  InterruptReturnsToMenu
