CONSTANTS
    m1 = m1
    m2 = m2
    NULL = NULL
    Leads = {l1}
    Stages = {"FRESH", "NOT_INTERESTED"}
    Salesmen = {m1, m2}
    SlaIds = {c1, c2}
    Workers = {w1, w2}
    Web = {b1}
    CreatedBy <- OneCreator
    ClockStages = {"FRESH"}
    KeepWithOwner = TRUE
    BrokerLeads = {}
    ExpiryMethod = "RETRY_TEAM_ESCALATION"
    ScopeMode = "TEAM_HEAD_DECIDES"
SPECIFICATION Spec
SYMMETRY Sym
INVARIANTS TypeOK OneActiveClock ClockMatchesLead BreachRecorded RunningClockIsArmed NoSilentStall
PROPERTIES NewOwnerStartsFresh
