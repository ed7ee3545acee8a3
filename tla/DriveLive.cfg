SPECIFICATION FairSpec
CONSTANTS
  t1 = t1
  t2 = t2
  t3 = t3
  u1 = u1
  NoUser = NoUser
  Users <- OneUser
  Tasks <- TwoTasks
  Slots = 1
  MaxCred = 1
  Events = {"restart", "disconnect", "refuse", "unreadable", "again", "stale", "photos", "idle"}
INVARIANTS CopyHasRun
PROPERTIES CopyEnds
