SPECIFICATION FairSpec
CONSTANTS
  Endpoint = {e1, e2, e3, e4}
  NoEp = NoEp
  HOST_QUEUE_MAX = 3
  MallocMayFail = TRUE
INVARIANTS RingInv OneOwner NoneForgotten RoomStays
PROPERTIES NoOverwrite RingIsFifo AcceptedIsServed StopTerminates
