SPECIFICATION FairSpec
CONSTANTS
  Host = {h1, h2}
  RETRY_COUNT = 3
  Kato = {0, 1, 2, 4}
  INT_MAX = 7
  MaxPend = 2
  MaxReq = 3
INVARIANTS CountdownInv
PROPERTIES DroppedWhenDue SilentIsDropped RequestServed StopCloses
