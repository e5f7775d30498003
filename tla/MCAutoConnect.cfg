SPECIFICATION Spec
CONSTANTS
    Keys = {k1, k2, k3}
    Data = {d1}
    MaxEvents = 2
    MaxFails = 2
    MaxChanges = 2
    MaxLost = 1
INVARIANTS PagesFetched
PROPERTIES ConnectsListed EventuallyConnected
CHECK_DEADLOCK FALSE
