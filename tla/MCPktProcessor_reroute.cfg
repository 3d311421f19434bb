\* Two clients, two backends, the directions of a connection on two workers.
SPECIFICATION Spec
CONSTANTS
    c1 = c1
    c2 = c2
    b1 = b1
    b2 = b2
    w1 = w1
    w2 = w2
    NULL = NULL
    VIP = VIP
    Client = {c1, c2}
    DIndex = {b1, b2}
    Url <- McUrl
    Rules <- McRules
    Addr = {a1, a2}
    Worker = {w1, w2}
    Rss <- McRssSplit
    Packet <- McPacketTwo
    MaxCmd = 2
CONSTRAINT McBound
INVARIANTS TypeOK MemorySafe CommandsAlternate CachedRequestIsOwn NoLeak
PROPERTIES BothEndsReset
\* The network may fall silent.
CHECK_DEADLOCK FALSE
