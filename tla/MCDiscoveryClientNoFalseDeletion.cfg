SPECIFICATION Spec
CONSTANTS
  MaxVer = 2
  NumRec <- MCNumRec
  KEEP_ALIVE_COUNTER = 1
  MaxLag = 0
  MaxBreaks = 0
PROPERTY NoFalseDeletion
