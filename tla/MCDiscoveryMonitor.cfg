SPECIFICATION Spec
CONSTANTS
    Keys = {k1, k2, k3}
    Data = {d1, d2}
INVARIANTS ToldAgrees
