SPECIFICATION Spec
CONSTANTS
  u1 = u1
  u2 = u2
  n1 = n1
  n2 = n2
  c1 = c1
  t1 = t1
  t2 = t2
  User = {u1, u2}
  Twin <- MCTwin
  Writer = {u1}
  Note = {n1, n2}
  Report = {c1}
  Task = {t1, t2}
  MaxActions = 1
  None = None
SYMMETRY Symmetry
INVARIANTS
  HiddenOnRecord
  StatusTellsTruth
CHECK_DEADLOCK FALSE
