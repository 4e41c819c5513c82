CONSTANTS
    u1 = u1
    r1 = r1
    r2 = r2
    p1 = p1
    p2 = p2
    b1 = b1
    b2 = b2
    d1 = d1
    d2 = d2
    Staff = {u1}
    Roles = {r1, r2}
    Perms = {p1}
    NoRole = NoRole
    Absent = Absent
    Web = {b1, b2}
    Readers = {d1, d2}
SPECIFICATION AccessSpec
SYMMETRY Alike
INVARIANTS CachedSetIsCurrent TicksAreObeyed
