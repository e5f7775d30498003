SPECIFICATION Spec
CONSTANTS
    t1 = t1  t2 = t2  h1 = h1  h2 = h2  n1 = n1  n2 = n2  n3 = n3  n4 = n4
    HostThread = {t1, t2}
    Host = {h1, h2}
    ServedBy <- OneEach
    Node = {n1, n2, n3, n4}
    HEAD = HEAD  NULL = NULL
    MaxReq = 2
SYMMETRY Symmetry
CONSTRAINT Intact
INVARIANTS TouchesLive WalkSeesAll NoneLost AnswersOwn
