\* One client and one worker: nothing races.
SPECIFICATION Spec
CONSTANTS
    c1 = c1
    c2 = c2
    b1 = b1
    b2 = b2
    w1 = w1
    w2 = w2
    NULL = NULL
    VIP = VIP
    Client = {c1}
    DIndex = {b1}
    Url <- McUrlOne
    Rules <- McRulesOne
    Addr = {a1, a2}
    Worker = {w1}
    Rss <- McRssOne
    Packet <- McPacket
    MaxCmd = 2
INVARIANTS ValidState
\* The network may fall silent.
CHECK_DEADLOCK FALSE
