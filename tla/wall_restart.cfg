SPECIFICATION FairSpec
CONSTANTS
  s1 = s1
  s2 = s2
  t1 = t1
  t2 = t2
  Ivan = ivan
  Anna = anna
  Club = club
  Owner = owner
  Pavel = pavel
  u = u
  None = None
  Guest = {pavel}
  Taker = {}
  Replica = {s1}
  Task = {t1}
  WriteTo = {club}
  MaxSeq = 2
  MaxStops = 1
PROPERTIES
  RestartBringsBack
