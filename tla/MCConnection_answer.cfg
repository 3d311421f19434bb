\* The same three requests.  GetsAnswers is decided once Waiting is false.
SPECIFICATION FairConnectionSpec
CONSTANTS
    c1 = c1
    b1 = b1
    b2 = b2
    w1 = w1
    NULL = NULL
    VIP = VIP
    Client = {c1}
    DIndex = {b1, b2}
    Url = {"u1", "u2", "u3", "r1", "r2", "r3"}
    Rules <- McRules
    Addr = {a1}
    Worker = {w1}
    Rss <- McRss
    Packet = {}
    MaxCmd = 1
    Script <- McThereBack
    answer <- McAnswer
    NetSize = 1
CONSTRAINT Waiting
PROPERTIES GetsAnswers
\* The client may be done.
CHECK_DEADLOCK FALSE
