CONSTANTS
  c1 = c1
  c2 = c2
  d1 = d1
  d2 = d2
  IM = IM
  None = None
  Callers = {c1}
  Dialogs = {d1, d2}
  MaxGen = 0
SPECIFICATION Spec
INVARIANT ReplacementStands

