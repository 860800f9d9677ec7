SPECIFICATION Spec
CONSTANTS
  u1 = u1
  u2 = u2
  l1 = l1
  l2 = l2
  p1 = p1
  p2 = p2
  a = a
  b = b
  open = open
  closed = closed
  r1 = r1
  r2 = r2
  t1 = t1
  t2 = t2
  Account = {u1, u2}
  Login = {l1, l2}
  Password = {p1, p2}
  Contact = {a, b}
  Normal <- Lower
  Level = {open, closed}
  Everyone = open
  OldRows <- Rows
  Replica = {r1, r2}
  Task = {t1, t2}
  MaxStops = 1
  None = None
INVARIANTS
  AddressesOpen
  SettingsAgree
PROPERTIES
  ReplacesWhatItKnew
  SealingKeepsText
  StartsSeal
CHECK_DEADLOCK FALSE
