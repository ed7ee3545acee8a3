SPECIFICATION Spec
CONSTANTS
  p1 = p1
  p2 = p2
  placeholder = placeholder
  copy = copy
  renamed = renamed
  zero = zero
  Archive <- AllKinds
  Number <- KindNumbers
  Export <- TwoParts
  WholeSize = 1
  Interval = 1
  MaxWait = 1
  Events = {"restart", "error", "beside", "pause"}
INVARIANTS CountRight
PROPERTIES OnlyTailMissing
