SPECIFICATION FairSpec
CONSTANTS
  MaxVer = 2
  NumRec <- MCNumRec
  KEEP_ALIVE_COUNTER = 1
  MaxLag = 2
  MaxBreaks = 1
INVARIANTS TypeOK CaughtUp AlwaysNotified RequestsBounded
PROPERTY EventuallyFresh
