\* Two backends, batches of two commands, fairness: reroute, teardown and the
\* batches racing each other, and the path against its abstract specification.
SPECIFICATION FairPathSpec
CONSTANTS
    b1 = b1
    b2 = b2
    w1 = w1
    w2 = w2
    NULL = NULL
    VIP = VIP
    Client = {c1}
    DIndex = {b1, b2}
    Url <- McUrlReroute
    Rules <- McRulesReroute
    Addr = {a1}
    Worker = {w1}
    Rss <- McRssOne
    Packet <- McPacket
    MaxCmd = 4
    BATCH_SIZE = 2
    THRESHOLD = 0
    TableSize = 1
    StaleRouting = TRUE
CONSTRAINT McBound
INVARIANTS PathTypeOK EntryJustified BypassEquivalent OneBatch PathInv
PROPERTIES StaleEntryGoes ImplementsOffloadTable
\* The network may fall silent.
CHECK_DEADLOCK FALSE
