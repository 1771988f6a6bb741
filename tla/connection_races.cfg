CONSTANTS
    Users = {u1, u2}
    Addresses = {a1, a2}
    States = {s1, s2}
    Callbacks = {c1, c2, c3}
    Runs = {r1, r2}
    Nobody = Nobody
    Faults = {"error", "lost_reply"}
SPECIFICATION AccessSpec
INVARIANTS
    ConnectionInv
    StateUsedOnce
    TokensMatchConnection
    RunReadsItsAccount
SYMMETRY ConnectionSymmetry
