SPECIFICATION Spec
CONSTANTS
  p1 = p1
  p2 = p2
  t1 = t1
  t2 = t2
  None = None
  Replica = {p1, p2}
  Task = {t1, t2}
  MaxWrites = 1
  Ttl = 1
  Patience = 1
SYMMETRY Symmetry
INVARIANTS
  BoundedStaleness
  UncrossedAnswerIsFresh
  LiftsRecentBansOnly
