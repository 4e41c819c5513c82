CONSTANTS
    l1 = l1
    w1 = w1
    w2 = w2
    Leads = {l1}
    Workers = {w1, w2}
    Batch = 1
    MaxReminders = 2
    MaxClocks = 2
    MaxFaults = 1
SPECIFICATION LiveSpec
INVARIANTS NothingTwice
PROPERTIES EveryReminderIsSent
CHECK_DEADLOCK FALSE
