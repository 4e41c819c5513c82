CONSTANTS
    m1 = m1
    m2 = m2
    NULL = NULL
    Leads = {l1, l2}
    Stages = {"FRESH", "NOT_INTERESTED"}
    Salesmen = {m1}
    SlaIds = {c1, c2, c3}
    Workers = {w1}
    Web = {}
    CreatedBy <- AnyCreator
    ClockStages = {"FRESH"}
    KeepWithOwner = TRUE
    BrokerLeads = {l2}
    ExpiryMethod = "ROUND_ROBIN"
    ScopeMode = "ALL_SALESMEN"
SPECIFICATION LiveSpec
PROPERTIES ExpiryIsHandled ClocksKeepPromise
