CONSTANTS
    l1 = l1
    l2 = l2
    s1 = s1
    s2 = s2
    b1 = b1
    b2 = b2
    o1 = o1
    o2 = o2
    d1 = d1
    NULL = NULL
    Leads = {l1, l2}
    Salesmen = {s1, s2}
    Owners = {s1}
    Web = {b1, b2}
    Planned = {"FOLLOW_UP", "FROZEN"}
    Others = {}
    Bosses = {}
    Codes <- MCCodes
    Type <- Composite
    Fields = {"FOLLOW_UP", "FROZEN"}
    Posts <- SwitchCapacity
    First <- BothOn
    Options = {o1}
    MaxPlans = 2
SPECIFICATION Spec
SYMMETRY Alike
INVARIANTS CapacityHolds LimitsHold
