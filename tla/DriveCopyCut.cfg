SPECIFICATION Spec
CONSTANTS
  f1 = f1
  f2 = f2
  doc = doc
  takeout = takeout
  Files <- FourFiles
  Excluded <- Exports
  Native <- Documents
  SampleSize = 1
  StuckAfter = 2
  MaxTransfers = 4
  Events = {"cut"}
INVARIANTS DoneIsWhole
