SPECIFICATION Spec
CONSTANTS
  Threads = {t1, t2}
  t1 = t1
  t2 = t2
  Keys = {k1}
  k1 = k1
  Values = {v1}
  v1 = v1
  Ops = {"get", "set"}
  None = None
  Empty = Empty
  Garbage = Garbage
  Inodes = {i1, i2, i3}
  i1 = i1
  i2 = i2
  i3 = i3
  ColdStartRace = TRUE
INVARIANT DbIntact
