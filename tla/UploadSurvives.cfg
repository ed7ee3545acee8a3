SPECIFICATION FairSpec
CONSTANTS
  t1 = t1
  t2 = t2
  x = x
  y = y
  p1 = p1
  p2 = p2
  Hole = Hole
  NoFile = NoFile
  NoTask = NoTask
  Plain <- OneName
  Bytes <- TwoBytes
  Files <- One
  MaxChunks = 2
  Tasks <- TwoTasks
  Events = {"crash", "unhashed"}
PROPERTIES Survives
