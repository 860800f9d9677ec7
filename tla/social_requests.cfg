SPECIFICATION Spec
CONSTANTS
  fan = fan
  author = author
  q1 = q1
  q2 = q2
  q3 = q3
  r1 = r1
  r2 = r2
  None = None
  User = {fan, author}
  Author = author
  Kinds <- MCKinds
  Request = {q1, q2, q3}
  Replica = {r1, r2}
SYMMETRY Symmetries
INVARIANTS
  NoticesAreOfNewLikes
  LikesAreTold
  OwnCommentsCounted
PROPERTIES
  AnswersHold
