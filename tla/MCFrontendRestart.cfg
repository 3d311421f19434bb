\* One restart, at any moment; the switch routes by the table as it is.
SPECIFICATION RestartSpec
CONSTANTS
    b1 = b1
    b2 = b2
    w1 = w1
    NULL = NULL
    VIP = VIP
    Client = {c1}
    DIndex = {b1, b2}
    Url <- McUrl
    Rules <- McRules
    Addr = {a1}
    Worker = {w1}
    Rss <- McRss
    Packet <- McPacket
    MaxCmd = 4
    BATCH_SIZE = 2
    THRESHOLD = 0
    TableSize = 1
    StaleRouting = FALSE
    MaxRestarts = 1
INVARIANTS LifeJustified LeftoverBlocks
\* The network may fall silent.
CHECK_DEADLOCK FALSE
