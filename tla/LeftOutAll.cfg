SPECIFICATION Spec
CONSTANTS
  f1 = f1
  f2 = f2
  f3 = f3
  cut = cut
  Files <- Three
  LogName <- CutOne
  MaxProblems = 2
  Events = {"restart", "more", "extra", "lost", "noLog"}
INVARIANTS TypeOK NothingDropped CardCountsAll MatchedIsThere
PROPERTIES RetryImproves
CHECK_DEADLOCK FALSE
