SPECIFICATION Spec
CONSTANTS
  u1 = u1
  u2 = u2
  t1 = t1
  t2 = t2
  User = {u1, u2}
  Legacy = {u1, u2}
  Task = {t1, t2}
  MaxThreads = 3
  MaxKeys = 2
  None = None
SYMMETRY Symmetry
INVARIANTS
  MembersCanRead
  ReadersArePair
CHECK_DEADLOCK FALSE
