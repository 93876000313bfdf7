SPECIFICATION Spec
CONSTANTS
    u1 = u1
    u2 = u2
    u3 = u3
    r1 = r1
    r2 = r2
    r3 = r3
    r4 = r4
    q1 = q1
    q2 = q2
    Users = {u1, u2}
    Rows = {r1, r2}
    Requests = {q1, q2}
    Expiries = {1, 2}
    MaxTime = 1
    MaxVersion = 1
    NoUser = NoUser
    NoRow = NoRow
SYMMETRY Symmetry
PROPERTY RevokedStaysRevoked
