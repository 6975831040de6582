SPECIFICATION NonceSpec
CONSTANTS
    v1 = v1
    v2 = v2
    v3 = v3
    n1 = n1
    n2 = n2
    a1 = a1
    a2 = a2
    a3 = a3
    Invs = {v1, v2, v3}
    Nonces = {n1, n2}
    Attempts = {a1, a2, a3}
    NoInv = NoInv
    MaxClock = 3
SYMMETRY Symmetry
INVARIANTS
    NonceTypeOK
    UsedOnce
    NoneVanishes
