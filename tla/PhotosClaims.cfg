SPECIFICATION Spec
CONSTANTS
  t1 = t1
  t2 = t2
  t3 = t3
  u1 = u1
  NoTask = NoTask
  NoUser = NoUser
  Users <- OneUser
  Tasks <- ThreeTasks
  Slots = 1
  MaxPart = 2
  Events = {"disconnect", "overrun"}
SYMMETRY TaskSymmetry
INVARIANTS OneRun StampedOnlyEnded
PROPERTIES OnlyHolderEndsRun PurgedOnlyAfterRetention ClaimedWhole
