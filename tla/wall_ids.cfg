SPECIFICATION FairSpec
CONSTANTS
  s1 = s1
  s2 = s2
  t1 = t1
  t2 = t2
  Ivan = ivan
  Anna = anna
  Club = club
  Owner = owner
  Pavel = pavel
  u = u
  None = None
  Guest = {pavel}
  Taker = {owner}
  Replica = {s1, s2}
  Task = {t1, t2}
  WriteTo = {ivan}
  MaxSeq = 3
  MaxStops = 1
INVARIANTS
  SequentialIds
PROPERTIES
  ImplementsTimeline
  StartsServe
