SPECIFICATION FairSpec
CONSTANTS
  Threads = {t1, t2}
  t1 = t1
  t2 = t2
  Keys = {k1, k2}
  k1 = k1
  k2 = k2
  Values = {v1, v2}
  v1 = v1
  v2 = v2
  Ops = {"get", "set", "delete", "exists", "all"}
  None = None
  Empty = Empty
  Garbage = Garbage
  Inodes = {i1, i2, i3}
  i1 = i1
  i2 = i2
  i3 = i3
  ColdStartRace = FALSE
INVARIANTS
  TypeOK
  DbIntact
PROPERTIES Linearizable LocksReleased
