CONSTANTS
  l1 = l1
  l2 = l2
  cn = cn
  global = global
  alice = alice
  bob = bob
  NoUid = NoUid
  Logins = {l1, l2}
  Realms = {cn, global}
  Accounts = {alice, bob}
  Profile <- TwoProfiles
  Family <- TwoFamilies
  LifeTime = 2
SPECIFICATION FairLoginSpec

CHECK_DEADLOCK FALSE
INVARIANTS LoginInv
PROPERTIES PollersEnd DialogAnswered
