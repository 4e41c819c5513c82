CONSTANTS
    l1 = l1
    l2 = l2
    l3 = l3
    NULL = NULL
    Leads = {l1, l2, l3}
    Salesmen = {1, 2, 3}
    Teams = {1, 2}
    Languages = {"ar", "en"}
    TeamOf <- MCTeamOf
    Speaks <- MCSpeaks
    LanguageOf <- MCLanguageOf
    BrokerLeads = {}
    Runs = {r1, r2}
    Policies <- MCPolicies
    Attempts = 2
    Arriving <- MCArriving
    Worked <- MCWorked
    Absentees = {3}
    MaxLate = 1
SYMMETRY Sym
SPECIFICATION Spec
INVARIANTS TurnsGoRound LoadsStayLevel RotationsAreBounded
