CONSTANTS
  c1 = c1
  c2 = c2
  d1 = d1
  d2 = d2
  IM = IM
  None = None
  Callers = {c1, c2}
  Dialogs = {d1, d2}
  MaxGen = 1
SPECIFICATION Spec
SYMMETRY SessionSymmetry
INVARIANTS StoredSession NoDeadWait ListenerOwned
