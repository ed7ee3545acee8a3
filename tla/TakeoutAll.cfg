SPECIFICATION FairSpec
CONSTANTS
  p1 = p1
  p2 = p2
  placeholder = placeholder
  copy = copy
  renamed = renamed
  zero = zero
  Archive <- TwoParts
  Number <- TwoNumbers
  Export <- TwoParts
  WholeSize = 2
  Interval = 3
  MaxWait = 7
  Events = {"restart", "error", "stale"}
INVARIANTS TypeOK TakesOnlyWhole TakenInTime
PROPERTIES WaitEnds
