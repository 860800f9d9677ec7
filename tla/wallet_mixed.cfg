SPECIFICATION FairSpec
CONSTANTS
  u1 = u1
  u2 = u2
  u3 = u3
  id1 = id1
  v1 = v1
  g1 = g1
  r1 = r1
  r2 = r2
  r3 = r3
  None = None
  User = {u1, u2}
  Alias = {id1}
  Voucher = {v1}
  Gift = {g1}
  Price <- MCPrice
  MaxCoins = 4
  DemoFloor = 2
  Req = {r1, r2}
  Ops = {"transfer", "gift", "redeem"}
  Amounts = {2}
  MaxUses = 1
INVARIANTS
  Solvent
  VoucherBooks
PROPERTIES
  NoVotesFromNothing
  OnlySenderPays
  ImplementsLedger
  EveryRequestEnds
CHECK_DEADLOCK FALSE
