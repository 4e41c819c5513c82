CONSTANTS
    s1 = s1
    s2 = s2
    head = head
    manager = manager
    agency = agency
    acme = acme
    plain = plain
    spaced = spaced
    NULL = NULL
    Processes = {w1, w2}
    Keys = {k1, k2}
    Forms <- MCForms
    MaxPosts = 3
    MaxEdits = 1
    Users <- MCUsers
    Grants <- MCGrants
    NumTeams = 2
    Members <- MCMembers
    Heads <- MCHeads
    Brokers = {acme}
    BrokerOf <- MCBrokerOf
    PriorOf <- MCPriorOf
    Phones = {plain, spaced}
    Digits <- MCDigits
    Setups <- MCSetups
CHECK_DEADLOCK FALSE
SYMMETRY Alike
SPECIFICATION Spec
INVARIANTS RunOnce BrokerCountsItsLeads OneLeadPerPhone
PROPERTIES BrokersDoNotDistribute TeamsTakeTurns
