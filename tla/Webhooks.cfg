CONSTANTS
    p1 = p1
    p2 = p2
    p3 = p3
    NULL = NULL
    Payloads = {p1, p2, p3}
    KeyOf <- MCKeyOf
    PhoneOf <- MCPhoneOf
    Databases = {"tenant", "control", "sqlite"}
    EventIds = {1, 2}
    Web = {b1, b2}
    Workers = {w1, w2}
    Sweepers = {s1}
    MaxAttempts = 2
    BatchSize = 2
    Posts = 3
CHECK_DEADLOCK FALSE
SPECIFICATION FairSpec
INVARIANTS ImportedOnce SecondLeadNeedsContention
PROPERTIES ReceivedIsHandled FailedIsRetried
