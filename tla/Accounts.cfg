CONSTANTS
    u1 = u1
    t1 = t1
    t2 = t2
    b1 = b1
    g1 = g1
    n1 = n1
    n2 = n2
    x1 = x1
    x2 = x2
    Users = {u1}
    Teams = {t1, t2}
    Brokers = {b1}
    Agencies = {g1}
    Names = {n1, n2}
    Admins = {x1, x2}
    None = None
SPECIFICATION Spec
SYMMETRY Alike
INVARIANTS HeadIsOnTeam NameFollowsAgency RemovedBrokerIsOut
