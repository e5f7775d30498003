SPECIFICATION Spec
CONSTANTS
    NONE = NONE  shared_nqn = shared_nqn
    s1 = s1  s2 = s2  p1 = p1  p2 = p2  h1 = h1  h2 = h2  h3 = h3
    Subsystems = {s1, s2}
    Ports = {p1, p2}
    Hosts = {h1, h2, h3}
    InitSubs <- TwoSubs
    InitPorts <- TwoPorts
    OpSets <- MCOpSets
    KatoOk = FALSE
    Refresh = 2
    LOG_PAGE_RETRY = 2
    MaxDqs = 2
    MANY = 2
INVARIANTS PagesComplete QueuesValid
PROPERTIES EventuallyComplete
