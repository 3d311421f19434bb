\* Two urls of one backend, one of them not offloaded.
SPECIFICATION PathSpec
CONSTANTS
    b1 = b1
    b2 = b2
    w1 = w1
    w2 = w2
    NULL = NULL
    VIP = VIP
    Client = {c1}
    DIndex = {b1}
    Url <- McUrlToggle
    Rules <- McRulesToggle
    Addr = {a1}
    Worker = {w1, w2}
    Rss <- McRssSplit
    Packet <- McPacket
    MaxCmd = 3
    BATCH_SIZE = 2
    THRESHOLD = 1
    TableSize = 1
    StaleRouting = FALSE
INVARIANTS SettledOffload
\* The network may fall silent.
CHECK_DEADLOCK FALSE
