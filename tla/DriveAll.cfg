SPECIFICATION FairSpec
CONSTANTS
  t1 = t1
  t2 = t2
  t3 = t3
  u1 = u1
  NoUser = NoUser
  Users <- OneUser
  Tasks <- ThreeTasks
  Slots = 1
  MaxCred = 2
  Events = {"refuse", "overrun"}
INVARIANTS TypeOK FailedCanRetry
PROPERTIES FinishedStays ClearsWhatItAsked BothForgotten
CHECK_DEADLOCK FALSE
