\* The second request moves the connection to b2, the third back to b1.
SPECIFICATION ConnectionSpec
CONSTANTS
    c1 = c1
    b1 = b1
    b2 = b2
    w1 = w1
    NULL = NULL
    VIP = VIP
    Client = {c1}
    DIndex = {b1, b2}
    Url = {"u1", "u2", "u3", "r1", "r2", "r3"}
    Rules <- McRules
    Addr = {a1}
    Worker = {w1}
    Rss <- McRss
    Packet = {}
    MaxCmd = 1
    Script <- McThereBack
    answer <- McAnswer
    NetSize = 2
INVARIANTS RightBackend MovesUnharmed
\* The client may be done.
CHECK_DEADLOCK FALSE
