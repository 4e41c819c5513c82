CONSTANTS
    u1 = u1
    r1 = r1
    r2 = r2
    p1 = p1
    p2 = p2
    b1 = b1
    b2 = b2
    d1 = d1
    d2 = d2
    Staff = {u1}
    Roles = {r1}
    Perms = {p1, p2}
    NoRole = NoRole
    Absent = Absent
    Web = {b1}
    Readers = {}
SPECIFICATION AccessSpec
PROPERTIES EditKeepsPermissions
