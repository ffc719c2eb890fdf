SPECIFICATION FairSpec
CONSTANTS
  login = login
  chat = chat
  user = user
  u1 = u1
  u2 = u2
  Tasks = {login, chat, user}
  Uids = {u1, u2}
  Asks <- MCAsks
  Origin = origin
  None = none
INVARIANTS TableInv
PROPERTIES ActsAtomically OperationEnds
