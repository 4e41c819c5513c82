CONSTANTS
    a = a
    b = b
    e1 = e1
    e2 = e2
    m = m
    f = f
    g = g
    NULL = NULL
    Web = {w1}
    Tasks = {t1}
    Leads = {l1}
    Payloads <- MCPayloads
    Rejections <- MCRejections
    Costs = {1}
    MaxCosts = 1
    Headcounts = {3}
CHECK_DEADLOCK FALSE
SPECIFICATION FairSpec
INVARIANTS CountersMatchAttributions
PROPERTIES ApprovedAmountStands DecisionsStand AttendanceSurvives TotalIsReconciled
