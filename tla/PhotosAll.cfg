SPECIFICATION Spec
CONSTANTS
  t1 = t1
  t2 = t2
  t3 = t3
  u1 = u1
  NoTask = NoTask
  NoUser = NoUser
  Users <- OneUser
  Tasks <- TwoTasks
  Slots = 1
  MaxPart = 2
  Events = {"restart", "lapse", "takeout", "redeclare"}
SYMMETRY TaskSymmetry
INVARIANTS TypeOK NoOrphan SlotsAccounted
PROPERTIES PurgeSparesWork
