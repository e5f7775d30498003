SPECIFICATION Spec
CONSTANTS
    NONE = NONE
    a1 = a1  a2 = a2  t1 = t1  t2 = t2  t3 = t3  h1 = h1  h2 = h2  h3 = h3
    n1 = n1  n2 = n2  g1 = g1  g2 = g2  s1 = s1  s2 = s2
    ip1 = ip1  ip2 = ip2  d1 = d1  d2 = d2
    unwritten = unwritten
    Subscribed = {n1, n2}
    Addresses = {a1, a2}
    Devices <- OneDevice
    Leftover = {unwritten}
    StalePortIds = {7}
    Scenarios <- AllScenarios
    MayRepeat = FALSE
SYMMETRY Symmetry
INVARIANTS TypeOK ViewAgrees MachineAgrees DocumentFound
PROPERTIES RefusedUnchanged NotifiedOnChange OkMeansDone ReconfigDelivers
