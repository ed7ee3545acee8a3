SPECIFICATION Spec
CONSTANTS
  t1 = t1
  t2 = t2
  x = x
  y = y
  p1 = p1
  p2 = p2
  Hole = Hole
  NoFile = NoFile
  NoTask = NoTask
  Plain <- TwoNames
  Bytes <- TwoBytes
  Files <- Mixed
  MaxChunks = 2
  Tasks <- TwoTasks
  Events = {"abort"}
SYMMETRY TaskSymmetry
INVARIANTS TypeOK   StoredOnce
PROPERTIES KeepsPromise
