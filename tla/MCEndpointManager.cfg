SPECIFICATION Spec
CONSTANTS
    s1 = s1  s2 = s2  h1 = h1  p1 = p1  n1 = n1  a1 = a1  a2 = a2  d1 = d1  d2 = d2  home = home
    Threads = {rest}
    Subsystems = {s1, s2}
    Hosts = {h1}
    Ports = {p1}
    Nsids = {n1}
    Addrs = {a1, a2}
    Devs = {d1, d2}
    Home <- MCHome
    Ops <- AllOps
    MaxOps = 7
INVARIANT AsIfAlone
CHECK_DEADLOCK FALSE
