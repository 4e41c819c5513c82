CONSTANTS
    u1 = u1
    u2 = u2
    Users = {u1, u2}
    MaxConvos = 2
    MaxMessages = 2
    MaxRequests = 3
    MaxDrops = 1
SPECIFICATION Spec
SYMMETRY Alike
INVARIANTS OneThread ReadWasShown ShownIsRead
CHECK_DEADLOCK FALSE
