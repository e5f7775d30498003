SPECIFICATION Spec
CONSTANTS
  NumIfaces = 2
  CreateMayFail = FALSE
INVARIANT ThreadsCleanedUp
