SPECIFICATION PartsSpec
CONSTANTS
  own = own
  author = author
  other = other
  club = club
  Thing = {own, author, other, club}
  Club = club
  Own = own
  Drafts <- MCDrafts
  Fan = {viewer, fan}
  Viewer = viewer
  PageSize = 2
  MaxChanges = 2
  t1 = t1
  t2 = t2
  c1 = c1
  c2 = c2
  User = {u}
  Process = {r1, r2}
  Challenge = {c}
  Call = {t1, t2}
  TokenLife = 1
  Leeway = 0
  SessionTtl = 2
  ChallengeTtl = 1
  MaxTime = 4
  MaxTokens = 1
  Unset = Unset
  Request = {q1, q2}
  Limit = 2
  Window = 2
  MaxHits = 3
  MaxClock = 4
  Person = {client, agent}
  Agent = {agent}
  Subject = {client}
  Ticket = {k}
  Client = {c1, c2}
  Nobody = Nobody
  Size = {1, 16, 17, 34}
  Edge = {0, 2, 3, 5}
  MaxEdge = 4
  MaxPixels = 8
  MaxBytes = 79
  MaxParts = 2
SYMMETRY Alike
INVARIANTS
  OpensOnce
  MinuteHolds
  LateRepliesReadItOpen
  StoredIsAccepted
  ListsWhatStood
  NumbersStood
PROPERTIES
  TokensLast
  RefusalsHold
CHECK_DEADLOCK FALSE
