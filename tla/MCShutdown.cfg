SPECIFICATION FairSpec
CONSTANTS
  NumIfaces = 5
  CreateMayFail = TRUE
INVARIANT CountInv
PROPERTY StopTerminates
